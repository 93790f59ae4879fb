------------------------- MODULE AuditLoggingProofs -------------------------
(***************************************************************************)
(* Proofs about AuditLogging, for every chain of children, every set of    *)
(* specs and every bound on users and faults.                              *)
(***************************************************************************)
EXTENDS AuditLogging, SequenceTheorems, TLAPS

-----------------------------------------------------------------------------
(* Helpers.                                                                *)

(* The constants' assumptions, in the form the proofs use them.            *)
LEMMA ConstantFacts ==
  /\ Len(Chain) \in Nat
  /\ DOMAIN Chain = 1..Len(Chain)
  /\ \A i \in 1..Len(Chain) : Chain[i] \in Kinds /\ Chain[i] \in Children
  /\ Children \subseteq Kinds
  /\ NoCR \in CRs
  /\ Absent \in Objects /\ ~Exists(Absent) /\ ~Absent.owned
<1>1. Len(Chain) \in Nat /\ DOMAIN Chain = 1..Len(Chain)
  BY ChainAssumption
<1>2. \A i \in 1..Len(Chain) : Chain[i] \in Kinds
  BY ChainAssumption, ElementOfSeq
<1>3. NoCR \in CRs
  BY SpecsAssumption DEF NoCR, CRs
<1>4. Absent \in Objects /\ ~Exists(Absent) /\ ~Absent.owned
  BY DEF Absent, Objects, Values, Exists
<1> QED BY <1>1, <1>2, <1>3, <1>4 DEF Children

(* What a spec asks of a child is a value, and never that it be absent.    *)
LEMMA TargetType ==
  ASSUME NEW k \in Kinds, NEW s \in AllSpecs
  PROVE  Target(k, s) \in Values /\ Target(k, s) # "absent"
BY DEF Target, Values, AllSpecs, Settings

(* What users add are additions.                                           *)
LEMMA ExtensionsType == ASSUME NEW k PROVE Extensions(k) \in SUBSET Additions
BY DEF Extensions, Additions, Workloads, Outputs

(* What an update leaves of them is what customers were promised.          *)
LEMMA RemainsFacts ==
  ASSUME NEW k, NEW x \in SUBSET Additions, NEW e \in Remains(k, x)
  PROVE  e \in SUBSET Additions /\ e \in Left(k, x)
<1>1. CASE k = "policy"
  <2>1. e = x \ {"aliases"}
    BY <1>1 DEF Remains, Outputs
  <2> QED BY <1>1, <2>1 DEF Left, Kept
<1>2. CASE k \in Outputs
  <2>1. e \in SUBSET x
    BY <1>2 DEF Remains, Outputs
  <2> QED BY <1>2, <2>1 DEF Left, Kept, Outputs
<1>3. CASE k # "policy" /\ k \notin Outputs
  <2>1. e = x
    BY <1>3 DEF Remains
  <2> QED BY <2>1 DEF Left
<1> QED BY <1>1, <1>2, <1>3

(* What the worker writes: an object that exists.                          *)
LEMMA WrittenType ==
  ASSUME TypeOK, pos <= Len(Chain)
  PROVE  /\ Kid \in Kinds
         /\ \A e \in Remains(Kid, found.extra) :
              /\ Updated(Kid, found, inst.spec, e) \in Objects
              /\ Exists(Updated(Kid, found, inst.spec, e))
              /\ Updated(Kid, found, inst.spec, e).owned = found.owned
              /\ Updated(Kid, found, inst.spec, e).extra \in Left(Kid, found.extra)
         /\ [val |-> Target(Kid, inst.spec), owned |-> TRUE, extra |-> {}] \in Objects
<1>0. pos \in 1..Len(Chain)
  <2>1. pos \in 1..(Len(Chain) + 1)
    BY DEF TypeOK
  <2> QED BY <2>1, ConstantFacts
<1>1. Kid \in Kinds
  BY <1>0, ConstantFacts DEF Kid
<1>2. inst.spec \in AllSpecs /\ found \in Objects
  BY DEF TypeOK, CRs
<1>3. Target(Kid, inst.spec) \in Values /\ Target(Kid, inst.spec) # "absent"
  BY <1>1, <1>2, TargetType
<1>4. ASSUME NEW e \in Remains(Kid, found.extra)
      PROVE  e \in SUBSET Additions /\ e \in Left(Kid, found.extra)
  <2>1. found.extra \in SUBSET Additions
    BY <1>2 DEF Objects
  <2> QED BY <2>1, RemainsFacts
<1>5. ASSUME NEW e \in Remains(Kid, found.extra)
      PROVE  /\ Updated(Kid, found, inst.spec, e) \in Objects
             /\ Exists(Updated(Kid, found, inst.spec, e))
             /\ Updated(Kid, found, inst.spec, e).owned = found.owned
             /\ Updated(Kid, found, inst.spec, e).extra \in Left(Kid, found.extra)
  BY <1>2, <1>3, <1>4 DEF Updated, Objects, Exists
<1>6. [val |-> Target(Kid, inst.spec), owned |-> TRUE, extra |-> {}] \in Objects
  BY <1>3 DEF Objects
<1> QED BY <1>1, <1>5, <1>6

(* What the API server stores is an object.                                *)
LEMMA WriteType ==
  ASSUME TypeOK, NEW k \in Kinds, NEW o \in Objects, Write(k, o)
  PROVE  /\ api' \in [Kinds -> Objects] /\ fresh' \in [Kinds -> BOOLEAN]
         /\ pods' \subseteq Workloads
BY DEF TypeOK, Write

(* A pass that ends leaves the worker's variables well typed.              *)
LEMMA EndPassType ==
  ASSUME TypeOK, NEW b \in BOOLEAN, EndPass(b)
  PROVE  /\ pc' = "idle" /\ pos' = 1 /\ pos' \in 1..(Len(Chain) + 1)
         /\ inst' \in CRs /\ found' \in Objects
         /\ queued' \in BOOLEAN /\ instCurrent' = FALSE /\ foundCurrent' = FALSE
<1>1. queued' \in BOOLEAN
  BY DEF TypeOK, EndPass
<1>2. pos' = 1 /\ pos' \in 1..(Len(Chain) + 1)
  BY ConstantFacts DEF EndPass
<1> QED BY <1>1, <1>2, ConstantFacts DEF EndPass

(* A restart leaves everything it resets well typed.                       *)
LEMMA RestartType ==
  ASSUME TypeOK, Restart, userActs' \in 0..MaxUserActs, faults' \in 0..MaxFaults
  PROVE  TypeOK'
<1>1. pos' \in 1..(Len(Chain) + 1) /\ pc' = "idle" /\ pos' = 1
  BY ConstantFacts DEF Restart
<1> QED BY <1>1, ConstantFacts DEF TypeOK, Restart

(* Where GetChild finds the worker.                                        *)
LEMMA ChildFacts ==
  ASSUME TypeOK, GetChild
  PROVE  /\ pc = "chain" /\ pos \in 1..Len(Chain) /\ pos + 1 \in 1..(Len(Chain) + 1)
         /\ pos \in 1..(Len(Chain) + 1)
         /\ Kid \in Kinds /\ Kid \in Children
         /\ cache[Kid] \in Objects /\ fresh[Kid] \in BOOLEAN /\ inst.spec.policy # ""
         /\ Verdict(Kid, cache[Kid], inst.spec) \in {"create", "update", "delete"}
<1>1. pc = "chain" /\ pos <= Len(Chain)
  BY DEF GetChild
<1>2. pos \in 1..(Len(Chain) + 1)
  BY DEF TypeOK
<1>3. pos \in 1..Len(Chain) /\ pos + 1 \in 1..(Len(Chain) + 1)
  BY <1>1, <1>2, ConstantFacts
<1>4. Kid \in Kinds /\ Kid \in Children
  BY <1>3, ConstantFacts DEF Kid
<1>5. cache[Kid] \in Objects /\ fresh[Kid] \in BOOLEAN /\ inst.spec.policy # ""
  BY <1>1, <1>4 DEF TypeOK
<1> QED BY <1>1, <1>2, <1>3, <1>4, <1>5 DEF Verdict

(* What GetChild makes of the child it finds.                              *)
LEMMA ChildCases ==
  ASSUME GetChild
  PROVE  \/ /\ Accepts(Kid, cache[Kid], inst.spec)
            /\ pos' = pos + 1
            /\ NoWrite /\ UNCHANGED <<crs, cache, queued, pc, inst, instCurrent, found, foundCurrent>>
         \/ /\ pc' = Verdict(Kid, cache[Kid], inst.spec)
            /\ found' = cache[Kid] /\ foundCurrent' = fresh[Kid]
            /\ NoWrite /\ UNCHANGED <<crs, cache, queued, pos, inst, instCurrent>>
         \/ EndPass(TRUE) /\ NoWrite /\ UNCHANGED <<crs, cache>>
         \/ Restart
BY DEF GetChild

-----------------------------------------------------------------------------
(* Type correctness.                                                       *)

(* The state the operator starts in is well typed.                         *)
LEMMA TypeInit == Init => TypeOK
<1> SUFFICES ASSUME Init PROVE TypeOK
  OBVIOUS
<1>1. cr \in CRs
  BY SpecsAssumption DEF Init, CRs
<1>2. pos \in 1..(Len(Chain) + 1) /\ userActs \in 0..MaxUserActs /\ faults \in 0..MaxFaults
  BY ConstantFacts, BoundsAssumption DEF Init
<1> QED BY <1>1, <1>2, ConstantFacts DEF Init, TypeOK, Workloads

(* Each step of a pass keeps the state well typed: the worker stands at a  *)
(* child when it writes one, and meets no child without a switch.          *)
LEMMA TypeWorker == ASSUME TypeOK, Worker PROVE TypeOK'
<1> USE ConstantFacts
<1>0. Worker => UNCHANGED bounds
  BY DEF Worker, StartPass, GetInstance, SetDefaultStatus, enablePolicyControllerByDefault,
         GetChild, CreateChild, UpdateChild, DeleteChild, restartFluentdPods, updateStatus
<1>b. UNCHANGED <<userActs, faults>>
  BY <1>0 DEF bounds
<1>1. CASE StartPass
  BY <1>1 DEF StartPass, NoWrite, TypeOK, crs, bounds
<1>2. CASE GetInstance
  BY <1>2 DEF GetInstance, AfterStatus, NoWrite, TypeOK, crs, bounds
<1>3. CASE SetDefaultStatus
  <2>1. CASE instCurrent
    <3>1. [inst EXCEPT !.status = {}] \in CRs /\ [inst EXCEPT !.status = {}].spec = inst.spec
      BY DEF TypeOK, CRs
    <3> QED BY <1>3, <2>1, <3>1 DEF SetDefaultStatus, EndPass, AfterStatus, WriteCR, NoWrite, TypeOK, bounds
  <2>2. CASE ~instCurrent
    BY <1>3, <2>2, EndPassType DEF SetDefaultStatus, NoWrite, TypeOK, crs, bounds
  <2> QED BY <2>1, <2>2
<1>4. CASE enablePolicyControllerByDefault
  <2>1. [inst EXCEPT !.spec.policy = "true"] \in CRs
    BY DEF TypeOK, CRs, AllSpecs, Switches
  <2>2. \E b \in BOOLEAN : EndPass(b)
    BY <1>4 DEF enablePolicyControllerByDefault
  <2>3. cr' \in CRs /\ crCache' \in CRs /\ crFresh' \in BOOLEAN
    BY <1>4, <2>1 DEF enablePolicyControllerByDefault, WriteCR, TypeOK, crs
  <2> QED BY <1>4, <1>b, <2>2, <2>3, EndPassType
          DEF enablePolicyControllerByDefault, NoWrite, TypeOK
<1>5. CASE GetChild
  <2>1. CASE Restart
    BY <1>b, <2>1, RestartType DEF TypeOK
  <2>2. CASE EndPass(TRUE) /\ NoWrite /\ UNCHANGED <<crs, cache>>
    BY <1>b, <2>2, EndPassType DEF NoWrite, TypeOK, crs
  <2>3. CASE /\ pos' = pos + 1
             /\ NoWrite /\ UNCHANGED <<crs, cache, queued, pc, inst, instCurrent, found, foundCurrent>>
    <3>1. pos' \in 1..(Len(Chain) + 1) /\ pc' = "chain"
      BY <1>5, <2>3, ChildFacts
    <3> QED BY <1>5, <1>b, <2>3, <3>1, ChildFacts DEF NoWrite, TypeOK, crs
  <2>4. CASE /\ pc' = Verdict(Kid, cache[Kid], inst.spec)
             /\ found' = cache[Kid] /\ foundCurrent' = fresh[Kid]
             /\ NoWrite /\ UNCHANGED <<crs, cache, queued, pos, inst, instCurrent>>
    <3>1. /\ pc' \in {"create", "update", "delete"} /\ found' \in Objects
          /\ foundCurrent' \in BOOLEAN /\ pos' \in 1..Len(Chain) /\ pos' \in 1..(Len(Chain) + 1)
          /\ inst.spec.policy # ""
      BY <1>5, <2>4, ChildFacts
    <3>2. pos' <= Len(Chain)
      BY <1>5, <2>4 DEF GetChild
    <3> QED BY <1>b, <2>4, <3>1, <3>2 DEF NoWrite, TypeOK, crs
  <2> QED BY <1>5, <2>1, <2>2, <2>3, <2>4, ChildCases
<1>6. CASE CreateChild
  <2>1. EndPass(TRUE) /\ pos <= Len(Chain) /\ UNCHANGED <<crs, cache>>
    BY <1>6 DEF CreateChild, TypeOK
  <2>2. /\ api' \in [Kinds -> Objects] /\ fresh' \in [Kinds -> BOOLEAN]
        /\ pods' \subseteq Workloads
    <3>1. CASE NoWrite
      BY <3>1 DEF NoWrite, TypeOK
    <3>2. CASE ~NoWrite
      BY <1>6, <2>1, <3>2, WrittenType, WriteType DEF CreateChild
    <3> QED BY <3>1, <3>2
  <2> QED BY <1>b, <2>1, <2>2, EndPassType DEF TypeOK, crs
<1>7. CASE UpdateChild
  <2>1. pos <= Len(Chain) /\ UNCHANGED <<crs, cache>> /\ pc = "update"
    BY <1>7 DEF UpdateChild, TypeOK
  <2>2. /\ api' \in [Kinds -> Objects] /\ fresh' \in [Kinds -> BOOLEAN]
        /\ pods' \subseteq Workloads
    <3>1. CASE NoWrite
      BY <3>1 DEF NoWrite, TypeOK
    <3>2. CASE ~NoWrite
      BY <1>7, <2>1, <3>2, WrittenType, WriteType DEF UpdateChild
    <3> QED BY <3>1, <3>2
  <2>3. CASE EndPass(TRUE)
    BY <1>b, <2>1, <2>2, <2>3, EndPassType DEF TypeOK, crs
  <2>4. CASE ~EndPass(TRUE)
    BY <1>7, <1>b, <2>1, <2>2, <2>4 DEF UpdateChild, TypeOK, crs
  <2> QED BY <2>3, <2>4
<1>8. CASE DeleteChild
  <2>1. EndPass(TRUE) /\ pos <= Len(Chain) /\ UNCHANGED <<crs, cache>>
    BY <1>8 DEF DeleteChild, TypeOK
  <2>2. /\ api' \in [Kinds -> Objects] /\ fresh' \in [Kinds -> BOOLEAN]
        /\ pods' \subseteq Workloads
    <3>1. CASE NoWrite
      BY <3>1 DEF NoWrite, TypeOK
    <3>2. CASE ~NoWrite
      BY <1>8, <2>1, <3>2, WrittenType, WriteType DEF DeleteChild
    <3> QED BY <3>1, <3>2
  <2> QED BY <1>b, <2>1, <2>2, EndPassType DEF TypeOK, crs
<1>9. CASE restartFluentdPods
  <2>1. EndPass(TRUE) /\ UNCHANGED <<crs, cache, api, fresh>> /\ pods' \subseteq Workloads
    BY <1>9 DEF restartFluentdPods, TypeOK
  <2> QED BY <1>b, <2>1, EndPassType DEF TypeOK, crs
<1>10. CASE updateStatus
  <2>1. \E b \in BOOLEAN : EndPass(b)
    BY <1>10 DEF updateStatus
  <2>2. [inst EXCEPT !.status = pods] \in CRs
    BY DEF TypeOK, CRs
  <2>3. cr' \in CRs /\ crCache' \in CRs /\ crFresh' \in BOOLEAN
    BY <1>10, <2>2 DEF updateStatus, WriteCR, TypeOK, crs
  <2> QED BY <1>10, <1>b, <2>1, <2>3, EndPassType DEF updateStatus, NoWrite, TypeOK
<1> QED BY <1>1, <1>2, <1>3, <1>4, <1>5, <1>6, <1>7, <1>8, <1>9, <1>10 DEF Worker

(* So do faults, informers and the kubelet.                                *)
LEMMA TypeRest ==
  ASSUME TypeOK,
         \/ Fault \/ SyncCR \/ \E k \in Children : Sync(k)
         \/ \E k \in Children \cap Workloads : StartPods(k)
  PROVE  TypeOK'
<1> USE ConstantFacts
<1>1. CASE Fault
  <2>1. faults' \in 0..MaxFaults /\ userActs' \in 0..MaxUserActs
    <3>1. faults \in 0..MaxFaults /\ userActs \in 0..MaxUserActs
      BY DEF TypeOK
    <3>2. faults > 0 /\ faults' = faults - 1 /\ userActs' = userActs
      BY <1>1 DEF Fault
    <3> QED BY <3>1, <3>2, BoundsAssumption
  <2>2. CASE ApiError
    BY <2>1, <2>2, EndPassType DEF ApiError, NoWrite, TypeOK, crs
  <2>3. CASE Restart
    BY <2>1, <2>3, RestartType DEF TypeOK
  <2> QED BY <1>1, <2>2, <2>3 DEF Fault
<1>2. CASE SyncCR
  BY <1>2 DEF SyncCR, NoWrite, TypeOK, worker, bounds
<1>3. ASSUME NEW k \in Children, Sync(k) PROVE TypeOK'
  <2>1. queued' \in BOOLEAN
    BY <1>3 DEF Sync
  <2> QED BY <1>3, <2>1 DEF Sync, TypeOK, crs, worker, bounds
<1>4. ASSUME NEW k \in Children \cap Workloads, StartPods(k) PROVE TypeOK'
  <2>1. foundCurrent' \in BOOLEAN
    BY <1>4 DEF StartPods, Outdate, TypeOK
  <2> QED BY <1>4, <2>1 DEF StartPods, TypeOK, crs, bounds
<1> QED BY <1>1, <1>2, <1>3, <1>4

(* A user either writes the CR's spec or one child, and touches nothing of *)
(* the operator but the currency of its copies.                            *)
LEMMA UserCases ==
  ASSUME TypeOK, User
  PROVE  \/ /\ cr' \in CRs /\ crFresh' = FALSE /\ instCurrent' = FALSE
            /\ NoWrite /\ UNCHANGED <<crCache, foundCurrent>>
         \/ \E k \in Children, o \in Objects :
              /\ Write(k, o) /\ Outdate(k)
              /\ Exists(o) => k \in Foreign \/ (Exists(api[k]) /\ o.owned = api[k].owned)
              /\ o.owned => Exists(o)
              /\ UNCHANGED <<crs, instCurrent>>
<1> USE ConstantFacts
<1>1. ASSUME NEW s \in Specs, UserEditsCR(s)
      PROVE  /\ cr' \in CRs /\ crFresh' = FALSE /\ instCurrent' = FALSE
             /\ NoWrite /\ UNCHANGED <<crCache, foundCurrent>>
  BY <1>1, SpecsAssumption DEF UserEditsCR, WriteCR, TypeOK, CRs
<1>2. ASSUME NEW k \in Children \cap Touched, UserEditsChild(k)
      PROVE  \E o \in Objects :
               /\ Write(k, o) /\ Outdate(k)
               /\ Exists(o) => Exists(api[k]) /\ o.owned = api[k].owned
               /\ o.owned => Exists(o)
               /\ UNCHANGED <<crs, instCurrent>>
  <2>1. Exists(api[k]) /\ api[k] \in Objects
    BY <1>2 DEF UserEditsChild, TypeOK
  <2>2. ASSUME NEW v \in {"drifted", "broken"}
        PROVE  /\ [api[k] EXCEPT !.val = v] \in Objects /\ Exists([api[k] EXCEPT !.val = v])
               /\ [api[k] EXCEPT !.val = v].owned = api[k].owned
    BY <2>1 DEF Objects, Values, Exists
  <2>3. /\ [api[k] EXCEPT !.extra = Extensions(k)] \in Objects /\ Exists([api[k] EXCEPT !.extra = Extensions(k)])
        /\ [api[k] EXCEPT !.extra = Extensions(k)].owned = api[k].owned
    BY <2>1, ExtensionsType DEF Objects, Exists
  <2> QED BY <1>2, <2>1, <2>2, <2>3 DEF UserEditsChild, UserWrites
<1>3. ASSUME NEW k \in Children \cap Foreign, UserCreatesChild(k)
      PROVE  \E o \in Objects :
               /\ Write(k, o) /\ Outdate(k) /\ k \in Foreign
               /\ o.owned => Exists(o)
               /\ UNCHANGED <<crs, instCurrent>>
  <2>1. [val |-> "drifted", owned |-> FALSE, extra |-> Extensions(k)] \in Objects
    BY ExtensionsType DEF Objects, Values
  <2> QED BY <1>3, <2>1 DEF UserCreatesChild, UserWrites
<1> QED BY <1>1, <1>2, <1>3 DEF User

(* Users write values of the right types.                                  *)
LEMMA TypeUser == ASSUME TypeOK, User PROVE TypeOK'
<1> USE ConstantFacts
<1>1. userActs' \in 0..MaxUserActs
  <2>1. userActs \in 0..MaxUserActs
    BY DEF TypeOK
  <2>2. userActs > 0 /\ userActs' = userActs - 1
    BY DEF User
  <2> QED BY <2>1, <2>2, BoundsAssumption
<1>2. UNCHANGED <<cache, queued, pc, pos, inst, found, faults>>
  BY DEF User
<1>3. CASE /\ cr' \in CRs /\ crFresh' = FALSE /\ instCurrent' = FALSE
           /\ NoWrite /\ UNCHANGED <<crCache, foundCurrent>>
  BY <1>1, <1>2, <1>3 DEF NoWrite, TypeOK
<1>4. ASSUME NEW k \in Children, NEW o \in Objects, Write(k, o), Outdate(k),
             UNCHANGED <<crs, instCurrent>>
      PROVE  TypeOK'
  <2>1. foundCurrent' \in BOOLEAN
    BY <1>4 DEF Outdate, TypeOK
  <2>2. /\ api' \in [Kinds -> Objects] /\ fresh' \in [Kinds -> BOOLEAN]
        /\ pods' \subseteq Workloads
    BY <1>4, WriteType
  <2> QED BY <1>1, <1>2, <1>4, <2>1, <2>2 DEF TypeOK, crs
<1> QED BY <1>3, <1>4, UserCases

(* Every step keeps the state well typed.                                  *)
LEMMA TypeStep == ASSUME TypeOK, [Next]_vars PROVE TypeOK'
<1>1. CASE UNCHANGED vars
  BY <1>1 DEF vars, TypeOK, crs, worker, bounds
<1>2. CASE Next
  BY <1>2, TypeWorker, TypeRest, TypeUser DEF Next
<1> QED BY <1>1, <1>2

(* Every variable keeps its type; in particular the reconcilers never see  *)
(* a CR whose switch is omitted.                                           *)
THEOREM TypeCorrect == Spec => []TypeOK
<1>1. Init => TypeOK
  BY TypeInit
<1>2. TypeOK /\ [Next]_vars => TypeOK'
  BY TypeStep
<1> QED BY <1>1, <1>2, PTL DEF Spec

-----------------------------------------------------------------------------
(* The copies.                                                             *)

(* The state the operator starts in satisfies the inductive invariant.     *)
LEMMA InvInit == Init => InductiveInvariant
<1> SUFFICES ASSUME Init PROVE InductiveInvariant
  OBVIOUS
<1>1. TypeOK
  BY TypeInit
<1>2. CopiesAreTrue
  BY DEF Init, CopiesAreTrue
<1>3. ChildrenAreOwned
  BY ConstantFacts DEF Init, ChildrenAreOwned, WellOwned
<1>4. NoWakeUpMissed
  BY DEF Init, NoWakeUpMissed
<1>5. WritesAreLawful
  BY ConstantFacts DEF Init, WritesAreLawful
<1> QED BY <1>1, <1>2, <1>3, <1>4, <1>5 DEF InductiveInvariant

(* A write outdates the cached copy of what it writes.                     *)
LEMMA WriteKeepsCaches ==
  ASSUME TypeOK, CopiesAreTrue, NEW k \in Kinds, NEW o, Write(k, o), UNCHANGED cache
  PROVE  \A c \in Kinds : fresh'[c] => cache'[c] = api'[c]
BY DEF Write, CopiesAreTrue, TypeOK

(* A write of a user also outdates the copy that the worker is writing.    *)
LEMMA WriteKeepsFound ==
  ASSUME TypeOK, CopiesAreTrue, NEW k \in Kinds, NEW o, Write(k, o), Outdate(k),
         UNCHANGED <<pc, pos, found>>
  PROVE  pc' = "update" /\ foundCurrent' => found' = api'[Kid']
<1> SUFFICES ASSUME pc' = "update", foundCurrent' PROVE found' = api'[Kid']
  OBVIOUS
<1>1. pos <= Len(Chain)
  BY DEF TypeOK
<1>2. Kid # k /\ foundCurrent
  BY <1>1 DEF Outdate, Kid
<1>3. Kid \in Kinds /\ Kid' = Kid
  BY <1>1, WrittenType DEF Kid
<1> QED BY <1>2, <1>3 DEF Write, CopiesAreTrue, TypeOK

(* A step that writes no child and after which none is about to be written. *)
LEMMA NoWriteKeepsCopies ==
  ASSUME CopiesAreTrue, NoWrite, UNCHANGED cache,
         pc' \in {"idle", "get", "default", "chain"},
         crFresh' => crCache' = cr', instCurrent' => inst' = cr'
  PROVE  CopiesAreTrue'
BY DEF CopiesAreTrue, NoWrite

(* A pass that ends holds no copy at all.                                  *)
LEMMA EndKeepsCopies ==
  ASSUME NEW b, EndPass(b), crFresh' => crCache' = cr',
         \A c \in Kinds : fresh'[c] => cache'[c] = api'[c]
  PROVE  CopiesAreTrue'
BY DEF EndPass, CopiesAreTrue

(* No step of the worker leaves a copy marked current that is not.         *)
LEMMA CopiesWorker == ASSUME TypeOK, CopiesAreTrue, Worker PROVE CopiesAreTrue'
<1>1. CASE StartPass
  BY <1>1 DEF StartPass, NoWrite, CopiesAreTrue, crs
<1>2. CASE GetInstance
  <2>1. NoWrite /\ UNCHANGED <<cr, crCache, crFresh, cache>> /\ inst' = crCache /\ instCurrent' = crFresh
    BY <1>2 DEF GetInstance, crs
  <2>2. pc' \in {"default", "chain"} \/ (pc' = "enable" /\ inst'.spec.policy = "")
    BY <1>2 DEF GetInstance, AfterStatus
  <2> QED BY <2>1, <2>2 DEF CopiesAreTrue, NoWrite
<1>3. CASE SetDefaultStatus
  <2>1. CASE instCurrent
    <3>1. /\ WriteCR([inst EXCEPT !.status = {}]) /\ inst' = [inst EXCEPT !.status = {}]
          /\ pc' = AfterStatus(inst) /\ NoWrite /\ UNCHANGED cache
      BY <1>3, <2>1 DEF SetDefaultStatus
    <3>2. inst'.spec = inst.spec
      BY <3>1 DEF TypeOK, CRs
    <3>3. pc' = "chain" \/ (pc' = "enable" /\ inst'.spec.policy = "")
      BY <3>1, <3>2 DEF AfterStatus
    <3> QED BY <3>1, <3>3 DEF CopiesAreTrue, WriteCR, NoWrite
  <2>2. CASE ~instCurrent
    <3>1. EndPass(TRUE) /\ UNCHANGED <<cr, crCache, crFresh, api, fresh, cache>>
      BY <1>3, <2>2 DEF SetDefaultStatus, NoWrite, crs
    <3> QED BY <3>1, EndKeepsCopies DEF CopiesAreTrue
  <2> QED BY <2>1, <2>2
<1>4. CASE enablePolicyControllerByDefault
  <2>1. (\E b \in BOOLEAN : EndPass(b)) /\ UNCHANGED <<api, fresh, cache>>
    BY <1>4 DEF enablePolicyControllerByDefault, NoWrite
  <2>2. crFresh' => crCache' = cr'
    BY <1>4 DEF enablePolicyControllerByDefault, WriteCR, CopiesAreTrue, crs
  <2>3. \A c \in Kinds : fresh'[c] => cache'[c] = api'[c]
    BY <2>1 DEF CopiesAreTrue
  <2> QED BY <2>1, <2>2, <2>3, EndKeepsCopies
<1>5. CASE GetChild
  <2>1. CASE Restart
    BY <2>1 DEF Restart, CopiesAreTrue
  <2>2. CASE EndPass(TRUE) /\ NoWrite /\ UNCHANGED <<crs, cache>>
    <3>1. EndPass(TRUE) /\ UNCHANGED <<cr, crCache, crFresh, api, fresh, cache>>
      BY <2>2 DEF NoWrite, crs
    <3> QED BY <3>1, EndKeepsCopies DEF CopiesAreTrue
  <2>3. CASE NoWrite /\ UNCHANGED <<crs, cache, queued, pc, inst, instCurrent, found, foundCurrent>>
    <3>1. pc' = "chain"
      BY <1>5, <2>3, ChildFacts
    <3> QED BY <2>3, <3>1, NoWriteKeepsCopies DEF CopiesAreTrue, crs
  <2>4. CASE /\ pc' = Verdict(Kid, cache[Kid], inst.spec)
             /\ found' = cache[Kid] /\ foundCurrent' = fresh[Kid]
             /\ NoWrite /\ UNCHANGED <<crs, cache, queued, pos, inst, instCurrent>>
    <3>1. pc' = "update" => Exists(found')
      BY <2>4 DEF Verdict
    <3>2. foundCurrent' => found' = api'[Kid']
      <4>1. Kid \in Kinds /\ Kid' = Kid /\ api' = api
        BY <1>5, <2>4, ChildFacts DEF Kid, NoWrite
      <4> QED BY <2>4, <4>1 DEF CopiesAreTrue
    <3>3. pc' # "enable"
      BY <1>5, <2>4, ChildFacts
    <3> QED BY <2>4, <3>1, <3>2, <3>3 DEF CopiesAreTrue, NoWrite, crs
  <2> QED BY <1>5, <2>1, <2>2, <2>3, <2>4, ChildCases
<1>6. CASE CreateChild \/ DeleteChild
  <2>1. EndPass(TRUE) /\ UNCHANGED <<cr, crCache, crFresh, cache>> /\ pos <= Len(Chain)
    BY <1>6 DEF CreateChild, DeleteChild, TypeOK, crs
  <2>2. NoWrite \/ \E o : Write(Kid, o)
    BY <1>6 DEF CreateChild, DeleteChild
  <2>3. \A c \in Kinds : fresh'[c] => cache'[c] = api'[c]
    BY <2>1, <2>2, WrittenType, WriteKeepsCaches DEF NoWrite, CopiesAreTrue
  <2> QED BY <2>1, <2>3, EndKeepsCopies DEF CopiesAreTrue
<1>7. CASE UpdateChild
  <2>1. UNCHANGED <<cr, crCache, crFresh, cache>> /\ pos <= Len(Chain)
    BY <1>7 DEF UpdateChild, TypeOK, crs
  <2>2. NoWrite \/ \E o : Write(Kid, o)
    BY <1>7 DEF UpdateChild
  <2>3. \A c \in Kinds : fresh'[c] => cache'[c] = api'[c]
    BY <2>1, <2>2, WrittenType, WriteKeepsCaches DEF NoWrite, CopiesAreTrue
  <2>4. EndPass(TRUE) \/ (pc' = "restart" /\ UNCHANGED <<inst, instCurrent>>)
    BY <1>7 DEF UpdateChild
  <2>5. CASE EndPass(TRUE)
    BY <2>1, <2>3, <2>5, EndKeepsCopies DEF CopiesAreTrue
  <2>6. CASE pc' = "restart" /\ UNCHANGED <<inst, instCurrent>>
    BY <2>1, <2>3, <2>6 DEF CopiesAreTrue
  <2> QED BY <2>4, <2>5, <2>6
<1>8. CASE restartFluentdPods
  <2>1. EndPass(TRUE) /\ UNCHANGED <<cr, crCache, crFresh, api, fresh, cache>>
    BY <1>8 DEF restartFluentdPods, crs
  <2> QED BY <2>1, EndKeepsCopies DEF CopiesAreTrue
<1>9. CASE updateStatus
  <2>1. (\E b \in BOOLEAN : EndPass(b)) /\ UNCHANGED <<api, fresh, cache>>
    BY <1>9 DEF updateStatus, NoWrite
  <2>2. crFresh' => crCache' = cr'
    BY <1>9 DEF updateStatus, WriteCR, CopiesAreTrue, crs
  <2>3. \A c \in Kinds : fresh'[c] => cache'[c] = api'[c]
    BY <2>1 DEF CopiesAreTrue
  <2> QED BY <2>1, <2>2, <2>3, EndKeepsCopies
<1> QED BY <1>1, <1>2, <1>3, <1>4, <1>5, <1>6, <1>7, <1>8, <1>9 DEF Worker

(* Neither does any other step.                                            *)
LEMMA CopiesStep == ASSUME TypeOK, CopiesAreTrue, Next PROVE CopiesAreTrue'
<1>1. CASE Fault
  <2>1. CASE ApiError
    <3>1. EndPass(TRUE) /\ UNCHANGED <<cr, crCache, crFresh, api, fresh, cache>>
      BY <2>1 DEF ApiError, NoWrite, crs
    <3> QED BY <3>1, EndKeepsCopies DEF CopiesAreTrue
  <2>2. CASE Restart
    BY <2>2 DEF Restart, CopiesAreTrue
  <2> QED BY <1>1, <2>1, <2>2 DEF Fault
<1>2. CASE SyncCR
  BY <1>2 DEF SyncCR, NoWrite, CopiesAreTrue, Kid, worker
<1>3. ASSUME NEW k \in Children, Sync(k) PROVE CopiesAreTrue'
  <2>1. \A c \in Kinds : fresh'[c] => cache'[c] = api'[c]
    BY <1>3 DEF Sync, CopiesAreTrue, TypeOK
  <2> QED BY <1>3, <2>1 DEF Sync, CopiesAreTrue, Kid, crs, worker
<1>4. ASSUME NEW k \in Children \cap Workloads, StartPods(k) PROVE CopiesAreTrue'
  <2>1. \A c \in Kinds : fresh'[c] => cache'[c] = api'[c]
    BY <1>4 DEF StartPods, CopiesAreTrue, TypeOK
  <2>2. foundCurrent' => foundCurrent
    BY <1>4 DEF StartPods, Outdate, TypeOK
  <2> QED BY <1>4, <2>1, <2>2 DEF StartPods, CopiesAreTrue, Kid, crs
<1>5. CASE User
  <2>1. UNCHANGED <<cache, pc, pos, inst, found>>
    BY <1>5 DEF User
  <2>2. CASE crFresh' = FALSE /\ instCurrent' = FALSE /\ NoWrite /\ UNCHANGED foundCurrent
    BY <2>1, <2>2 DEF NoWrite, CopiesAreTrue, Kid
  <2>3. ASSUME NEW k \in Children, NEW o \in Objects, Write(k, o), Outdate(k),
               UNCHANGED <<crs, instCurrent>>
        PROVE  CopiesAreTrue'
    <3>1. \A c \in Kinds : fresh'[c] => cache'[c] = api'[c]
      BY <2>1, <2>3, ConstantFacts, WriteKeepsCaches
    <3>2. pc' = "update" /\ foundCurrent' => found' = api'[Kid']
      BY <2>1, <2>3, ConstantFacts, WriteKeepsFound
    <3> QED BY <2>1, <2>3, <3>1, <3>2 DEF CopiesAreTrue, crs
  <2> QED BY <1>5, <2>2, <2>3, UserCases
<1> QED BY <1>1, <1>2, <1>3, <1>4, <1>5, CopiesWorker DEF Next

-----------------------------------------------------------------------------
(* The owners.                                                             *)

(* A write keeps the children well owned if what it stores is.             *)
LEMMA WriteKeepsOwned ==
  ASSUME TypeOK, ChildrenAreOwned, NEW k \in Kinds, NEW o, Write(k, o),
         WellOwned(k, o), UNCHANGED cache
  PROVE  ChildrenAreOwned'
<1>1. \A c \in Kinds : api'[c] = IF c = k THEN o ELSE api[c]
  BY DEF Write, TypeOK
<1> QED BY <1>1 DEF ChildrenAreOwned

(* The operator creates children with an owner, updates leave the owner,   *)
(* and what users create themselves is Foreign.                            *)
LEMMA OwnedStep ==
  ASSUME TypeOK, CopiesAreTrue, ChildrenAreOwned, Next PROVE ChildrenAreOwned'
<1>1. CASE UNCHANGED <<api, cache>>
  BY <1>1 DEF ChildrenAreOwned
<1>2. CASE Restart
  BY <1>2 DEF Restart, ChildrenAreOwned
<1>a. \A k \in Kinds : WellOwned(k, Absent)
  BY ConstantFacts DEF WellOwned
<1>3. CASE CreateChild
  <2>1. Kid \in Kinds /\ Target(Kid, inst.spec) # "absent" /\ UNCHANGED cache
    <3>1. pos <= Len(Chain) /\ inst.spec \in AllSpecs /\ UNCHANGED cache
      BY <1>3 DEF CreateChild, TypeOK, CRs
    <3> QED BY <3>1, WrittenType, TargetType
  <2>2. WellOwned(Kid, [val |-> Target(Kid, inst.spec), owned |-> TRUE, extra |-> {}])
    BY <2>1 DEF WellOwned, Exists
  <2> QED BY <1>1, <1>3, <2>1, <2>2, WriteKeepsOwned DEF CreateChild, NoWrite
<1>4. CASE UpdateChild
  <2>1. pc = "update" /\ pos <= Len(Chain) /\ UNCHANGED cache
    BY <1>4 DEF UpdateChild, TypeOK
  <2>2. CASE NoWrite
    BY <1>1, <2>1, <2>2 DEF NoWrite
  <2>3. ASSUME foundCurrent, NEW e \in Remains(Kid, found.extra),
               Write(Kid, Updated(Kid, found, inst.spec, e))
        PROVE  ChildrenAreOwned'
    <3>1. Kid \in Kinds /\ found = api[Kid] /\ Exists(found)
      BY <2>1, <2>3, WrittenType DEF CopiesAreTrue
    <3>2. WellOwned(Kid, found)
      BY <3>1 DEF ChildrenAreOwned
    <3>3. WellOwned(Kid, Updated(Kid, found, inst.spec, e))
      BY <2>1, <3>1, <3>2, WrittenType DEF WellOwned
    <3> QED BY <2>1, <2>3, <3>1, <3>3, WriteKeepsOwned
  <2> QED BY <1>4, <2>2, <2>3 DEF UpdateChild, UpdateAccepted
<1>5. CASE DeleteChild
  <2>1. pos <= Len(Chain) /\ UNCHANGED cache
    BY <1>5 DEF DeleteChild, TypeOK
  <2>2. Kid \in Kinds
    BY <2>1, WrittenType
  <2> QED BY <1>1, <1>5, <1>a, <2>1, <2>2, WriteKeepsOwned DEF DeleteChild, NoWrite
<1>6. ASSUME NEW k \in Children, Sync(k) PROVE ChildrenAreOwned'
  <2>1. api' = api /\ \A c \in Kinds : cache'[c] = api[c] \/ cache'[c] = cache[c]
    BY <1>6 DEF Sync, TypeOK
  <2> QED BY <2>1 DEF ChildrenAreOwned
<1>7. CASE User
  <2>1. UNCHANGED cache
    BY <1>7 DEF User
  <2>2. ASSUME NEW k \in Children, NEW o \in Objects, Write(k, o),
               Exists(o) => k \in Foreign \/ (Exists(api[k]) /\ o.owned = api[k].owned),
               o.owned => Exists(o)
        PROVE  ChildrenAreOwned'
    <3>1. k \in Kinds /\ WellOwned(k, api[k])
      BY ConstantFacts DEF ChildrenAreOwned
    <3>2. WellOwned(k, o)
      BY <2>2, <3>1 DEF WellOwned
    <3> QED BY <2>1, <2>2, <3>1, <3>2, WriteKeepsOwned
  <2> QED BY <1>1, <1>7, <2>1, <2>2, UserCases DEF NoWrite
<1>8. CASE \/ StartPass \/ GetInstance \/ SetDefaultStatus \/ enablePolicyControllerByDefault
           \/ restartFluentdPods \/ updateStatus \/ ApiError \/ SyncCR
           \/ \E k \in Children \cap Workloads : StartPods(k)
  BY <1>1, <1>8 DEF StartPass, GetInstance, SetDefaultStatus, enablePolicyControllerByDefault,
     restartFluentdPods, updateStatus, ApiError, SyncCR, StartPods, NoWrite
<1>9. CASE GetChild
  BY <1>1, <1>2, <1>9, ChildCases DEF NoWrite
<1> QED BY <1>2, <1>3, <1>4, <1>5, <1>6, <1>7, <1>8, <1>9 DEF Next, Worker, Fault

-----------------------------------------------------------------------------
(* The wake-ups.                                                           *)

(* A pass that ends with a requeue owes nothing more.                      *)
LEMMA RequeueWakes == ASSUME EndPass(TRUE) PROVE NoWakeUpMissed'
BY DEF EndPass, NoWakeUpMissed

(* Nor does one whose last act was to write the CR: its event is to come.  *)
LEMMA WriteOfCRWakes ==
  ASSUME NEW b \in BOOLEAN, EndPass(b), crFresh' = FALSE PROVE NoWakeUpMissed'
BY DEF EndPass, NoWakeUpMissed

(* Steps that leave the worker and the caches alone.                       *)
LEMMA OthersKeepWakeUps ==
  ASSUME NoWakeUpMissed, UNCHANGED <<queued, pc, pos, inst, cache, crCache>>,
         crFresh' => crFresh
  PROVE  NoWakeUpMissed'
<1>1. \A k : SettledInCache(k)' = SettledInCache(k)
  BY DEF SettledInCache, AskedInCache
<1> QED BY <1>1 DEF NoWakeUpMissed

(* An event that wakes nobody concerns a child that users create, and      *)
(* leaves it as settled as it was.                                         *)
LEMMA SilentEvent ==
  ASSUME TypeOK, ChildrenAreOwned, NEW k \in Children, Sync(k), ~queued',
         NEW c \in Children, SettledInCache(c)
  PROVE  SettledInCache(c)'
<1>1. ~cache[k].owned /\ ~api[k].owned
  BY DEF Sync, Enqueues
<1>2. k \in Kinds /\ c \in Kinds
  BY ConstantFacts
<1>3. cache'[c] = IF c = k THEN api[k] ELSE cache[c]
  BY <1>2 DEF Sync, TypeOK
<1>4. AskedInCache(c)' = AskedInCache(c) /\ crCache' = crCache
  BY DEF Sync, crs, AskedInCache
<1>5. CASE c # k
  BY <1>3, <1>4, <1>5 DEF SettledInCache
<1>6. CASE c = k
  <2>1. ~AskedInCache(k) \/ k \in Foreign
    BY <1>1, <1>2, <1>6 DEF SettledInCache, ChildrenAreOwned, WellOwned
  <2> QED BY <1>1, <1>3, <1>4, <1>6, <2>1 DEF SettledInCache
<1> QED BY <1>5, <1>6

(* What Reconcile leaves alone is settled for the spec of its pass.        *)
LEMMA AcceptedIsSettled ==
  ASSUME ChildrenAreOwned, NEW k \in Kinds, Accepts(k, cache[k], crCache.spec)
  PROVE  SettledInCache(k)
<1>1. Wanted(k, crCache.spec) <=> AskedInCache(k)
  BY DEF Wanted, AskedInCache
<1>2. WellOwned(k, cache[k])
  BY DEF ChildrenAreOwned
<1> QED BY <1>1, <1>2 DEF Accepts, SettledInCache, WellOwned

(* A pass accepts a child only if it is settled in the cache, and each step *)
(* with which it ends either puts the key back, has the CR's event to come, *)
(* or has accepted every child.                                            *)
LEMMA WakeWorker ==
  ASSUME TypeOK, ChildrenAreOwned, NoWakeUpMissed, Worker PROVE NoWakeUpMissed'
<1>1. CASE StartPass
  BY <1>1 DEF StartPass, NoWakeUpMissed
<1>2. CASE GetInstance
  <2>1. pc' \in {"default", "enable", "chain"} /\ inst'.spec = crCache'.spec /\ pos' = 1
    BY <1>2 DEF GetInstance, AfterStatus, crs, TypeOK
  <2>2. 1..(pos' - 1) = {}
    BY <2>1
  <2> QED BY <2>1, <2>2 DEF NoWakeUpMissed
<1>3. CASE SetDefaultStatus
  <2>1. CASE EndPass(TRUE)
    BY <2>1, RequeueWakes
  <2>2. CASE ~EndPass(TRUE)
    <3>1. /\ pc' = AfterStatus(inst) /\ inst' = [inst EXCEPT !.status = {}]
          /\ UNCHANGED <<queued, pos, crCache>> /\ pc = "default"
      BY <1>3, <2>2 DEF SetDefaultStatus, WriteCR
    <3>2. inst'.spec = inst.spec /\ pos = 1
      BY <3>1 DEF TypeOK, CRs
    <3>3. 1..(pos' - 1) = {}
      BY <3>1, <3>2
    <3> QED BY <3>1, <3>2, <3>3 DEF NoWakeUpMissed, AfterStatus
  <2> QED BY <2>1, <2>2
<1>4. CASE enablePolicyControllerByDefault
  <2>1. EndPass(TRUE) \/ (EndPass(FALSE) /\ crFresh' = FALSE)
    BY <1>4 DEF enablePolicyControllerByDefault, WriteCR
  <2> QED BY <2>1, RequeueWakes, WriteOfCRWakes
<1>5. CASE GetChild
  <2>1. CASE Restart
    BY <2>1 DEF Restart, NoWakeUpMissed
  <2>2. CASE EndPass(TRUE)
    BY <2>2, RequeueWakes
  <2>3. CASE /\ Accepts(Kid, cache[Kid], inst.spec)
             /\ pos' = pos + 1
             /\ UNCHANGED <<crs, cache, queued, pc, inst, instCurrent, found, foundCurrent>>
    <3> SUFFICES ASSUME ~queued' PROVE NoWakeUpMissed'
      BY DEF NoWakeUpMissed
    <3>1. pc = "chain" /\ ~queued /\ pos \in 1..Len(Chain) /\ Kid \in Kinds /\ crCache' = crCache
      BY <1>5, <2>3, ChildFacts DEF crs
    <3>2. inst.spec = crCache.spec /\ \A i \in 1..(pos - 1) : SettledInCache(Chain[i])
      BY <3>1 DEF NoWakeUpMissed
    <3>3. SettledInCache(Kid)
      BY <2>3, <3>1, <3>2, AcceptedIsSettled
    <3>4. \A i \in 1..(pos' - 1) : i = pos \/ i \in 1..(pos - 1)
      BY <2>3, <3>1, ConstantFacts
    <3>5. \A i \in 1..(pos' - 1) : SettledInCache(Chain[i])
      BY <3>2, <3>3, <3>4 DEF Kid
    <3>6. \A k : SettledInCache(k)' = SettledInCache(k)
      BY <2>3, <3>1 DEF SettledInCache, AskedInCache
    <3> QED BY <2>3, <3>1, <3>2, <3>5, <3>6 DEF NoWakeUpMissed
  <2>4. CASE pc' = Verdict(Kid, cache[Kid], inst.spec)
    <3>1. pc' \in {"create", "update", "delete"}
      BY <1>5, <2>4, ChildFacts
    <3> QED BY <3>1 DEF NoWakeUpMissed
  <2> QED BY <1>5, <2>1, <2>2, <2>3, <2>4, ChildCases
<1>6. CASE CreateChild \/ DeleteChild \/ restartFluentdPods
  BY <1>6, RequeueWakes DEF CreateChild, DeleteChild, restartFluentdPods
<1>7. CASE UpdateChild
  <2>1. EndPass(TRUE) \/ pc' = "restart"
    BY <1>7 DEF UpdateChild
  <2> QED BY <2>1, RequeueWakes DEF NoWakeUpMissed
<1>8. CASE updateStatus
  <2>1. CASE EndPass(TRUE)
    BY <2>1, RequeueWakes
  <2>2. CASE EndPass(FALSE) /\ crFresh' = FALSE
    BY <2>2, WriteOfCRWakes
  <2>3. CASE EndPass(FALSE) /\ UNCHANGED crs
    <3> SUFFICES ASSUME ~queued' PROVE NoWakeUpMissed'
      BY DEF NoWakeUpMissed
    <3>1. ~queued /\ pc' = "idle"
      BY <2>3 DEF EndPass
    <3>2. pc = "chain" /\ pos = Len(Chain) + 1 /\ UNCHANGED <<cache, crCache>>
      BY <1>8, <2>3 DEF updateStatus, crs
    <3>3. inst.spec = crCache.spec /\ inst.spec.policy # ""
      BY <3>1, <3>2 DEF NoWakeUpMissed, TypeOK
    <3>4. \A i \in 1..(pos - 1) : SettledInCache(Chain[i])
      BY <3>1, <3>2 DEF NoWakeUpMissed
    <3>5. pos - 1 = Len(Chain)
      BY <3>2, ConstantFacts
    <3>6. \A k \in Children : SettledInCache(k)
      BY <3>4, <3>5, ConstantFacts DEF Children
    <3>7. \A k : SettledInCache(k)' = SettledInCache(k)
      BY <3>2 DEF SettledInCache, AskedInCache
    <3> QED BY <3>1, <3>2, <3>3, <3>6, <3>7 DEF NoWakeUpMissed
  <2> QED BY <1>8, <2>1, <2>2, <2>3 DEF updateStatus, WriteCR
<1> QED BY <1>1, <1>2, <1>3, <1>4, <1>5, <1>6, <1>7, <1>8 DEF Worker

(* Every event that could unsettle a child puts the key into the queue.    *)
LEMMA WakeStep ==
  ASSUME TypeOK, ChildrenAreOwned, NoWakeUpMissed, Next PROVE NoWakeUpMissed'
<1>1. CASE Fault
  <2>1. CASE ApiError
    BY <2>1, RequeueWakes DEF ApiError
  <2>2. CASE Restart
    BY <2>2 DEF Restart, NoWakeUpMissed
  <2> QED BY <1>1, <2>1, <2>2 DEF Fault
<1>2. CASE SyncCR
  BY <1>2 DEF SyncCR, NoWakeUpMissed
<1>3. ASSUME NEW k \in Children, Sync(k) PROVE NoWakeUpMissed'
  <2> SUFFICES ASSUME ~queued' PROVE NoWakeUpMissed'
    BY DEF NoWakeUpMissed
  <2>1. ~queued /\ UNCHANGED <<pc, pos, inst, crCache, crFresh>>
    BY <1>3 DEF Sync, crs, worker
  <2>2. ASSUME NEW c \in Children, SettledInCache(c) PROVE SettledInCache(c)'
    BY <1>3, <2>2, SilentEvent
  <2>3. pc = "idle" /\ crFresh =>
          crCache.spec.policy # "" /\ \A c \in Children : SettledInCache(c)'
    BY <2>1, <2>2 DEF NoWakeUpMissed
  <2>4. pc \in {"default", "chain"} => inst.spec = crCache.spec
    BY <2>1 DEF NoWakeUpMissed
  <2>5. ASSUME pc = "chain", NEW i \in 1..(pos - 1) PROVE SettledInCache(Chain[i])'
    <3>1. SettledInCache(Chain[i])
      BY <2>1, <2>5 DEF NoWakeUpMissed
    <3>2. pos \in 1..(Len(Chain) + 1)
      BY DEF TypeOK
    <3>3. i \in 1..Len(Chain)
      BY <2>5, <3>2, ConstantFacts
    <3> QED BY <2>2, <3>1, <3>3, ConstantFacts
  <2> QED BY <2>1, <2>3, <2>4, <2>5 DEF NoWakeUpMissed
<1>4. ASSUME NEW k \in Children \cap Workloads, StartPods(k) PROVE NoWakeUpMissed'
  BY <1>4, OthersKeepWakeUps DEF StartPods, crs
<1>5. CASE User
  <2>1. crFresh' => crFresh
    BY <1>5, UserCases DEF crs
  <2>2. crCache' = crCache
    BY <1>5, UserCases DEF crs
  <2> QED BY <1>5, <2>1, <2>2, OthersKeepWakeUps DEF User
<1> QED BY <1>1, <1>2, <1>3, <1>4, <1>5, WakeWorker DEF Next

-----------------------------------------------------------------------------
(* What the writes may be.                                                 *)

(* A user's write leaves a child unowned or as owned as it was.            *)
LEMMA UserWritesCases ==
  ASSUME TypeOK, User, api' # api
  PROVE  \E k \in Children \cap (Touched \cup Foreign), o \in Objects :
           /\ api' = [api EXCEPT ![k] = o]
           /\ o.owned \in {FALSE, api[k].owned} /\ (Exists(o) \/ o = Absent)
           /\ UNCHANGED cr /\ userActs' = userActs - 1
<1> USE ConstantFacts
<1>1. ASSUME NEW s \in Specs, UserEditsCR(s) PROVE FALSE
  BY <1>1 DEF UserEditsCR, NoWrite
<1>2. ASSUME NEW k \in Children, NEW o, UserWrites(k, o)
      PROVE  api' = [api EXCEPT ![k] = o] /\ UNCHANGED cr
  BY <1>2 DEF UserWrites, Write, crs
<1>3. userActs' = userActs - 1
  BY DEF User
<1>4. ASSUME NEW k \in Children \cap Touched, UserEditsChild(k)
      PROVE  \E o \in Objects : /\ UserWrites(k, o) /\ o.owned \in {FALSE, api[k].owned}
                                /\ Exists(o) \/ o = Absent
  <2>1. Exists(api[k]) /\ api[k] \in Objects
    BY <1>4 DEF UserEditsChild, TypeOK
  <2>2. ASSUME NEW v \in {"drifted", "broken"}
        PROVE  /\ [api[k] EXCEPT !.val = v] \in Objects /\ Exists([api[k] EXCEPT !.val = v])
               /\ [api[k] EXCEPT !.val = v].owned = api[k].owned
    BY <2>1 DEF Objects, Values, Exists
  <2>3. /\ [api[k] EXCEPT !.extra = Extensions(k)] \in Objects /\ Exists([api[k] EXCEPT !.extra = Extensions(k)])
        /\ [api[k] EXCEPT !.extra = Extensions(k)].owned = api[k].owned
    BY <2>1, ExtensionsType DEF Objects, Exists
  <2>4. Absent.owned = FALSE
    BY DEF Absent
  <2> QED BY <1>4, <2>2, <2>3, <2>4 DEF UserEditsChild
<1>5. ASSUME NEW k \in Children \cap Foreign, UserCreatesChild(k)
      PROVE  \E o \in Objects : /\ UserWrites(k, o) /\ o.owned \in {FALSE, api[k].owned}
                                /\ Exists(o) \/ o = Absent
  <2>1. [val |-> "drifted", owned |-> FALSE, extra |-> Extensions(k)] \in Objects
    BY ExtensionsType DEF Objects, Values
  <2> QED BY <1>5, <2>1 DEF UserCreatesChild, Exists
<1>6. PICK k \in Children \cap (Touched \cup Foreign), o \in Objects :
        /\ UserWrites(k, o) /\ o.owned \in {FALSE, api[k].owned}
        /\ Exists(o) \/ o = Absent
  BY <1>1, <1>4, <1>5 DEF User
<1> QED BY <1>2, <1>3, <1>6

(* Who changes the children, and what to: the pass creates a missing one,  *)
(* sets the value of one that it holds the current copy of, or deletes one;*)
(* users leave the owner out or alone.                                     *)
LEMMA ChildrenStep ==
  ASSUME InductiveInvariant, Next, api' # api
  PROVE  \/ /\ pc \in {"create", "update", "delete"} /\ Kid \in Children
            /\ UNCHANGED <<cr, userActs>>
            /\ \/ /\ pc = "create" /\ ~Exists(api[Kid])
                  /\ api' = [api EXCEPT ![Kid] = [val |-> Target(Kid, inst.spec),
                                                  owned |-> TRUE, extra |-> {}]]
               \/ /\ pc = "update" /\ Exists(api[Kid])
                  /\ \E e \in Remains(Kid, api[Kid].extra) :
                       api' = [api EXCEPT ![Kid] = Updated(Kid, api[Kid], inst.spec, e)]
               \/ /\ pc = "delete" /\ api' = [api EXCEPT ![Kid] = Absent]
         \/ \E k \in Children \cap (Touched \cup Foreign), o \in Objects :
              /\ api' = [api EXCEPT ![k] = o]
              /\ o.owned \in {FALSE, api[k].owned} /\ (Exists(o) \/ o = Absent)
              /\ UNCHANGED cr /\ userActs' = userActs - 1
<1> USE ConstantFacts DEF InductiveInvariant
<1>k. pc \in {"create", "update", "delete"} => Kid \in Children
  <2>1. pc \in {"create", "update", "delete"} => pos <= Len(Chain) /\ pos \in 1..(Len(Chain) + 1)
    BY DEF TypeOK
  <2>2. pc \in {"create", "update", "delete"} => pos \in 1..Len(Chain)
    BY <2>1
  <2> QED BY <2>2 DEF Kid
<1>1. CASE CreateChild
  BY <1>1, <1>k DEF CreateChild, Write, NoWrite, crs, bounds
<1>2. CASE UpdateChild
  <2>1. /\ pc = "update" /\ UNCHANGED <<cr, userActs>>
        /\ foundCurrent
        /\ \E e \in Remains(Kid, found.extra) : Write(Kid, Updated(Kid, found, inst.spec, e))
    BY <1>2 DEF UpdateChild, UpdateAccepted, NoWrite, crs, bounds
  <2>2. found = api[Kid] /\ Exists(api[Kid])
    BY <2>1 DEF CopiesAreTrue
  <2> QED BY <1>k, <2>1, <2>2 DEF Write
<1>3. CASE DeleteChild
  BY <1>3, <1>k DEF DeleteChild, Write, NoWrite, crs, bounds
<1>4. CASE User
  BY <1>4, UserWritesCases
<1>5. ASSUME \/ StartPass \/ GetInstance \/ SetDefaultStatus \/ updateStatus
             \/ enablePolicyControllerByDefault \/ restartFluentdPods \/ GetChild
             \/ Fault \/ SyncCR \/ \E k \in Children : Sync(k)
             \/ \E k \in Children \cap Workloads : StartPods(k)
      PROVE  FALSE
  BY <1>5 DEF StartPass, GetInstance, SetDefaultStatus, enablePolicyControllerByDefault,
              updateStatus, restartFluentdPods, GetChild, Fault, ApiError, Restart, SyncCR,
              StartPods, Sync, NoWrite
<1>6. CASE Worker
  <2>1. CreateChild \/ UpdateChild \/ DeleteChild
    BY <1>5, <1>6 DEF Worker
  <2> QED BY <1>1, <1>2, <1>3, <2>1
<1> QED BY <1>4, <1>5, <1>6 DEF Next

(* What a pass writes exists, and only the Service and the policy          *)
(* controller are ever about to be deleted.                                *)
LEMMA LawfulStep ==
  ASSUME InductiveInvariant, Next PROVE WritesAreLawful'
<1> USE ConstantFacts DEF InductiveInvariant
<1>1. \A k \in Kinds : Exists(api'[k]) \/ api'[k] = Absent
  <2> SUFFICES ASSUME api' # api, NEW k \in Kinds PROVE Exists(api'[k]) \/ api'[k] = Absent
    BY DEF WritesAreLawful
  <2>1. Exists(api[k]) \/ api[k] = Absent
    BY DEF WritesAreLawful
  <2>2. ASSUME NEW c \in Children, NEW o, api' = [api EXCEPT ![c] = o], Exists(o) \/ o = Absent
        PROVE  Exists(api'[k]) \/ api'[k] = Absent
    BY <2>1, <2>2 DEF TypeOK
  <2>3. ASSUME Kid \in Children, NEW o, o.val = Target(Kid, inst.spec)
        PROVE  Exists(o)
    BY <2>3, TargetType DEF Exists, TypeOK, CRs
  <2>4. CASE pc = "create" /\ Kid \in Children
             /\ api' = [api EXCEPT ![Kid] = [val |-> Target(Kid, inst.spec),
                                             owned |-> TRUE, extra |-> {}]]
    BY <2>2, <2>3, <2>4
  <2>5. CASE pc = "update" /\ Kid \in Children
             /\ \E e : api' = [api EXCEPT ![Kid] = Updated(Kid, api[Kid], inst.spec, e)]
    <3>1. \A e : Updated(Kid, api[Kid], inst.spec, e).val = Target(Kid, inst.spec)
      BY <2>5 DEF TypeOK, Objects, Updated
    <3> QED BY <2>2, <2>3, <2>5, <3>1
  <2> QED BY <2>2, <2>4, <2>5, ChildrenStep
<1>2. pc' = "delete" => Kid' \in {"svc", "policy"}
  <2> SUFFICES ASSUME pc' = "delete" PROVE Chain[pos'] \in {"svc", "policy"}
    BY DEF Kid
  <2>1. CASE GetChild
    BY <2>1 DEF GetChild, Restart, EndPass, Verdict, Wanted, Kid
  <2>2. CASE UNCHANGED <<pc, pos>>
    BY <2>2 DEF WritesAreLawful, Kid
  <2>3. GetChild \/ UNCHANGED <<pc, pos>>
    BY DEF Next, Worker, Fault, StartPass, GetInstance, SetDefaultStatus, AfterStatus,
           enablePolicyControllerByDefault, CreateChild, UpdateChild, DeleteChild,
           restartFluentdPods, updateStatus, ApiError, Restart, SyncCR, User, StartPods,
           Sync, EndPass, worker
  <2> QED BY <2>1, <2>2, <2>3
<1> QED BY <1>1, <1>2 DEF WritesAreLawful

(* The five parts together: every step keeps the inductive invariant.      *)
LEMMA InvStep == ASSUME InductiveInvariant, [Next]_vars PROVE InductiveInvariant'
<1>1. CASE Next
  BY <1>1, TypeStep, CopiesStep, OwnedStep, WakeStep, LawfulStep DEF InductiveInvariant
<1>2. CASE UNCHANGED vars
  <2>1. UNCHANGED <<cr, crCache, crFresh, api, cache, fresh, queued, pc, pos, inst,
                    instCurrent, found, foundCurrent>>
    BY <1>2 DEF vars, crs, worker
  <2>2. TypeOK'
    BY TypeStep DEF InductiveInvariant
  <2>3. CopiesAreTrue' /\ ChildrenAreOwned'
    BY <2>1 DEF InductiveInvariant, CopiesAreTrue, ChildrenAreOwned, Kid
  <2>4. NoWakeUpMissed'
    BY <2>1, OthersKeepWakeUps DEF InductiveInvariant
  <2>5. WritesAreLawful'
    BY <2>1 DEF InductiveInvariant, WritesAreLawful, Kid
  <2> QED BY <2>2, <2>3, <2>4, <2>5 DEF InductiveInvariant
<1> QED BY <1>1, <1>2

(* The invariant holds in every reachable state: copies called current are, *)
(* a child is owned exactly when it exists unless users create it, and      *)
(* unless the key is queued what the pass accepted is still acceptable.     *)
THEOREM InvariantHolds == Spec => []InductiveInvariant
BY InvInit, InvStep, PTL DEF Spec

-----------------------------------------------------------------------------
(* What users see.                                                         *)

(* When the caches are current, what they show is what is there.           *)
LEMMA InvSettles == InductiveInvariant => RestIsSettled
<1> SUFFICES ASSUME InductiveInvariant, Quiescent
             PROVE  cr.spec.policy # "" /\ \A k \in Children : Settled(k)
  BY DEF RestIsSettled
<1>1. pc = "idle" /\ ~queued /\ crFresh /\ crCache = cr
  BY DEF Quiescent, InductiveInvariant, CopiesAreTrue
<1>2. crCache.spec.policy # "" /\ \A k \in Children : SettledInCache(k)
  BY <1>1 DEF InductiveInvariant, NoWakeUpMissed
<1>3. \A k \in Children : cache[k] = api[k]
  BY ConstantFacts DEF Quiescent, InductiveInvariant, CopiesAreTrue
<1>4. ASSUME NEW k \in Children PROVE Settled(k)
  BY <1>1, <1>2, <1>3 DEF SettledInCache, AskedInCache, Settled, Asked
<1> QED BY <1>1, <1>2, <1>4

(* Whatever users and faults did, an operator that rests with no event on  *)
(* its way has given the switch a value, and every child it owns, above    *)
(* all the policy controller that the switch turns on and off, is as asked. *)
THEOREM RestSettled == Spec => []RestIsSettled
BY InvariantHolds, InvSettles, PTL

(* The step that writes the default writes it over the current CR.         *)
LEMMA DefaultStep ==
  ASSUME InductiveInvariant, [Next]_vars, pc = "enable", pc' # pc, cr' # cr
  PROVE  cr.spec.policy = "" /\ cr'.spec = [cr.spec EXCEPT !.policy = "true"]
<1>1. Next
  BY DEF vars, worker
<1>2. ~SyncCR /\ ~User /\ ~(\E k \in Children : Sync(k))
      /\ ~(\E k \in Children \cap Workloads : StartPods(k))
  BY DEF SyncCR, User, Sync, StartPods, worker
<1>3. ~Fault
  BY DEF Fault, ApiError, Restart, crs
<1>4. Worker
  BY <1>1, <1>2, <1>3 DEF Next
<1>5. enablePolicyControllerByDefault
  BY <1>4 DEF Worker, StartPass, GetInstance, SetDefaultStatus, GetChild, CreateChild,
              UpdateChild, DeleteChild, restartFluentdPods, updateStatus
<1>6. instCurrent /\ cr' = [inst EXCEPT !.spec.policy = "true"]
  BY <1>5 DEF enablePolicyControllerByDefault, InstanceAccepted, WriteCR, crs
<1>7. inst = cr /\ inst.spec.policy = ""
  BY <1>6 DEF InductiveInvariant, CopiesAreTrue
<1> QED BY <1>6, <1>7 DEF InductiveInvariant, TypeOK, CRs

(* The default of the switch never overrides a choice that a user has made, *)
(* and changes nothing else of the spec.                                   *)
THEOREM DefaultNeverOverrides == Spec => DefaultYields
<1>1. InductiveInvariant /\ [Next]_vars =>
        [pc = "enable" /\ pc' # pc /\ cr' # cr =>
           cr.spec.policy = "" /\ cr'.spec = [cr.spec EXCEPT !.policy = "true"]]_vars
  BY DefaultStep
<1> QED BY <1>1, InvariantHolds, PTL DEF Spec, DefaultYields

(* The step that writes an update writes it over the current object.       *)
LEMMA UpdateStep ==
  ASSUME InductiveInvariant, [Next]_vars, pc = "update", pc' # pc, NEW k \in Kinds
  PROVE  DataKept(k)
<1> USE DEF DataKept
<1>0. api[k].extra \in Left(k, api[k].extra)
  BY DEF Left
<1>1. CASE UNCHANGED api
  BY <1>0, <1>1
<1>2. CASE UpdateChild /\ foundCurrent
  <2>1. TypeOK /\ pos <= Len(Chain) /\ found = api[Kid] /\ Exists(found)
    BY <1>2 DEF InductiveInvariant, CopiesAreTrue, TypeOK
  <2>2. Kid \in Kinds
    BY <2>1, WrittenType
  <2>3. PICK e \in Remains(Kid, found.extra) :
          api' = [api EXCEPT ![Kid] = Updated(Kid, found, inst.spec, e)]
    BY <1>2 DEF UpdateChild, UpdateAccepted, Write
  <2>4. CASE k = Kid
    <3>1. api'[k] = Updated(Kid, found, inst.spec, e)
      BY <2>1, <2>2, <2>3, <2>4 DEF TypeOK
    <3>2. /\ Exists(Updated(Kid, found, inst.spec, e))
          /\ Updated(Kid, found, inst.spec, e).owned = found.owned
          /\ Updated(Kid, found, inst.spec, e).extra \in Left(Kid, found.extra)
      BY <2>1, WrittenType
    <3>3. Exists(api'[k]) /\ Exists(api[k])
      BY <2>1, <2>4, <3>1, <3>2
    <3> QED BY <2>1, <2>4, <3>1, <3>2, <3>3 DEF Exists
  <2>5. CASE k # Kid
    BY <1>0, <2>1, <2>3, <2>5 DEF TypeOK
  <2> QED BY <2>4, <2>5
<1>3. CASE UpdateChild /\ ~foundCurrent
  BY <1>1, <1>3 DEF UpdateChild, UpdateAccepted, NoWrite
<1>4. CASE Worker /\ ~UpdateChild
  BY <1>4 DEF Worker, StartPass, GetInstance, SetDefaultStatus, enablePolicyControllerByDefault,
              GetChild, CreateChild, DeleteChild, restartFluentdPods, updateStatus
<1>5. CASE Fault
  BY <1>1, <1>5 DEF Fault, ApiError, Restart, NoWrite
<1>6. CASE \/ SyncCR \/ User \/ \E c \in Children : Sync(c)
           \/ \E c \in Children \cap Workloads : StartPods(c) \/ UNCHANGED vars
  BY <1>6 DEF SyncCR, User, Sync, StartPods, vars, worker
<1> QED BY <1>2, <1>3, <1>4, <1>5, <1>6 DEF Next, vars, worker

(* Whatever users add while the worker is about to write, an update leaves *)
(* the DaemonSet's host aliases and pod labels and the policy controller's *)
(* pod labels as they are then.  Nothing is said of the policy controller's*)
(* host aliases, which the update drops, nor of the settings of output     *)
(* configs, whose rewriting is OutputConfig's.                             *)
THEOREM CustomersKeepData == Spec => CustomersDataKept
<1>1. InductiveInvariant /\ [Next]_vars =>
        [pc = "update" /\ pc' # pc => \A k \in Kinds : DataKept(k)]_vars
  BY UpdateStep
<1> QED BY <1>1, InvariantHolds, PTL DEF Spec, CustomersDataKept

-----------------------------------------------------------------------------
(* The refinement: every step of the controller, the users and the cluster *)
(* is one step of DesiredState or leaves its variables alone.              *)

(* The operator starts as DesiredState does: nothing exists, and the key   *)
(* waits in the queue.                                                     *)
LEMMA InitIs == Init => Promise!Init
<1> SUFFICES ASSUME Init PROVE Promise!Init
  OBVIOUS
<1>1. userActs \in Nat /\ cr.spec \in AllSpecs
  BY BoundsAssumption, SpecsAssumption DEF Init
<1>2. \A k \in Children : Seen(api[k]) = Promise!Absent
  BY ConstantFacts DEF Init, Seen, Promise!Absent, Absent
<1>3. ~Quiescent
  BY DEF Init, Quiescent
<1> QED BY <1>1, <1>2, <1>3 DEF Promise!Init, Quiescent

(* A child that changes does so in the eyes of DesiredState, and alone.    *)
LEMMA SeenStep ==
  ASSUME TypeOK, NEW k \in Children, NEW o, api' = [api EXCEPT ![k] = o]
  PROVE  [c \in Children |-> Seen(api[c])]'
           = [[c \in Children |-> Seen(api[c])] EXCEPT ![k] = Seen(o)]
<1>1. \A c \in Children : api'[c] = IF c = k THEN o ELSE api[c]
  BY ConstantFacts DEF TypeOK
<1> QED BY <1>1 DEF Seen

(* The value a pass gives a child is what the spec it works with asks of it. *)
LEMMA BuildStep ==
  ASSUME TypeOK, NEW k \in Children, NEW s \in AllSpecs, api[k] = Absent,
         api' = [api EXCEPT ![k] = [val |-> Target(k, s), owned |-> TRUE, extra |-> {}]],
         UNCHANGED <<cr, userActs>>
  PROVE  Promise!Builds(k)
<1> DEFINE o == [val |-> Target(k, s), owned |-> TRUE, extra |-> {}]
<1>1. [c \in Children |-> Seen(api[c])]'
        = [[c \in Children |-> Seen(api[c])] EXCEPT ![k] = Seen(o)]
  BY SeenStep
<1>2. Seen(o) = [val |-> Target(k, s), owner |-> 1, extra |-> {}]
  BY DEF Seen
<1>3. [c \in Children |-> Seen(api[c])][k] = Promise!Absent
  <2>1. Seen(Absent) = Promise!Absent
    BY DEF Seen, Absent, Promise!Absent
  <2> QED BY <2>1
<1>4. Promise!Becomes(k, [val |-> Target(k, s), owner |-> 1, extra |-> {}])
  BY <1>1, <1>2 DEF Promise!Becomes
<1>5. 1 \in 1..1
  OBVIOUS
<1> QED BY <1>3, <1>4, <1>5 DEF Promise!Builds

(* An update of a child that is there mends its value.                     *)
LEMMA MendStep ==
  ASSUME TypeOK, NEW k \in Children, NEW s \in AllSpecs, Exists(api[k]),
         NEW e \in Remains(k, api[k].extra), api' = [api EXCEPT ![k] = Updated(k, api[k], s, e)],
         UNCHANGED <<cr, userActs>>
  PROVE  Promise!Mends(k)
<1> DEFINE kids == [c \in Children |-> Seen(api[c])]
<1>0. api[k] \in Objects
  BY ConstantFacts DEF TypeOK
<1>1. kids' = [kids EXCEPT ![k] = Seen(Updated(k, api[k], s, e))]
  BY SeenStep
<1>2. Seen(Updated(k, api[k], s, e)) = [val |-> Target(k, s), owner |-> kids[k].owner, extra |-> e]
  BY DEF Seen, Updated
<1>3. kids[k] # Promise!Absent
  BY DEF Seen, Exists, Promise!Absent
<1>4. Promise!Becomes(k, [val |-> Target(k, s), owner |-> kids[k].owner, extra |-> e])
  BY <1>1, <1>2 DEF Promise!Becomes
<1>5. e \in Left(k, kids[k].extra)
  <2>1. api[k].extra \in SUBSET Additions /\ kids[k].extra = api[k].extra
    BY <1>0 DEF Objects, Seen
  <2> QED BY <2>1, RemainsFacts
<1> QED BY <1>3, <1>4, <1>5 DEF Promise!Mends

(* The Service and the policy controller may go.                           *)
LEMMA RemoveStep ==
  ASSUME TypeOK, NEW k \in Children, k \in {"svc", "policy"},
         api' = [api EXCEPT ![k] = Absent], UNCHANGED <<cr, userActs>>
  PROVE  Promise!Removes(k)
<1>1. [c \in Children |-> Seen(api[c])]'
        = [[c \in Children |-> Seen(api[c])] EXCEPT ![k] = Seen(Absent)]
  BY SeenStep
<1>2. Seen(Absent) = Promise!Absent
  BY DEF Seen, Absent, Promise!Absent
<1> QED BY <1>1, <1>2 DEF Promise!Removes, Promise!Becomes

(* A pass that is about to write has the key, so the operator is not at    *)
(* rest; what it writes to a child is what DesiredState lets it write.     *)
LEMMA OperatorStep ==
  ASSUME InductiveInvariant,
         pc \in {"create", "update", "delete"}, Kid \in Children, UNCHANGED <<cr, userActs>>,
         \/ /\ pc = "create" /\ ~Exists(api[Kid])
            /\ api' = [api EXCEPT ![Kid] = [val |-> Target(Kid, inst.spec),
                                            owned |-> TRUE, extra |-> {}]]
         \/ /\ pc = "update" /\ Exists(api[Kid])
            /\ \E e \in Remains(Kid, api[Kid].extra) :
                 api' = [api EXCEPT ![Kid] = Updated(Kid, api[Kid], inst.spec, e)]
         \/ /\ pc = "delete" /\ api' = [api EXCEPT ![Kid] = Absent]
  PROVE  Promise!Operator
<1> USE DEF InductiveInvariant
<1>1. ~Quiescent
  BY DEF Quiescent
<1>2. PICK k \in Children : k = Kid
  OBVIOUS
<1>3. PICK s \in AllSpecs : s = inst.spec
  BY DEF TypeOK, CRs
<1>4. CASE pc = "create" /\ ~Exists(api[k])
           /\ api' = [api EXCEPT ![k] = [val |-> Target(k, s), owned |-> TRUE, extra |-> {}]]
  <2>1. api[k] = Absent
    BY <1>4, ConstantFacts DEF WritesAreLawful
  <2>2. Promise!Builds(k)
    BY <1>4, <2>1, BuildStep
  <2> QED BY <1>1, <2>2 DEF Promise!Operator
<1>5. CASE /\ pc = "update" /\ Exists(api[k])
           /\ \E e \in Remains(k, api[k].extra) : api' = [api EXCEPT ![k] = Updated(k, api[k], s, e)]
  <2>1. Promise!Mends(k)
    BY <1>5, MendStep
  <2> QED BY <1>1, <2>1 DEF Promise!Operator
<1>6. CASE pc = "delete" /\ api' = [api EXCEPT ![k] = Absent]
  <2>1. Promise!Removes(k)
    BY <1>2, <1>6, RemoveStep DEF WritesAreLawful
  <2> QED BY <1>1, <2>1 DEF Promise!Operator
<1> QED BY <1>2, <1>3, <1>4, <1>5, <1>6

(* A step that leaves the children alone is a user's who edits the spec,   *)
(* the operator's who completes it by the default of the switch, or none   *)
(* that DesiredState can see.                                              *)
LEMMA OtherStep ==
  ASSUME InductiveInvariant, Next, api' = api
  PROVE  Promise!Idles \/ Promise!Asks \/ Promise!Operator
<1> USE DEF InductiveInvariant
<1>1. CASE User
  <2>1. userActs' = userActs - 1
    BY <1>1 DEF User
  <2>2. cr'.spec \in AllSpecs
    <3>1. cr.spec \in AllSpecs
      BY DEF TypeOK, CRs
    <3>2. ASSUME NEW s \in Specs, UserEditsCR(s) PROVE cr'.spec \in AllSpecs
      BY <3>2, SpecsAssumption DEF UserEditsCR, WriteCR, TypeOK, CRs
    <3> QED BY <1>1, <3>1, <3>2 DEF User, UserEditsChild, UserCreatesChild, UserWrites, crs
  <2> QED BY <2>1, <2>2 DEF Promise!Asks
<1>2. CASE SetDefaultStatus \/ updateStatus
  <2>1. cr'.spec = cr.spec
    BY <1>2 DEF SetDefaultStatus, updateStatus, WriteCR, CopiesAreTrue, TypeOK, CRs, crs
  <2>2. UNCHANGED userActs
    BY <1>2 DEF SetDefaultStatus, updateStatus, bounds
  <2> QED BY <2>1, <2>2 DEF Promise!Idles
<1>3. CASE enablePolicyControllerByDefault
  <2>1. ~Quiescent /\ UNCHANGED userActs
    BY <1>3 DEF enablePolicyControllerByDefault, Quiescent, bounds
  <2>2. CASE UNCHANGED cr
    BY <2>1, <2>2 DEF Promise!Idles
  <2>3. CASE ~UNCHANGED cr
    <3>1. instCurrent /\ pc = "enable" /\ cr' = [inst EXCEPT !.spec.policy = "true"]
      BY <1>3, <2>3 DEF enablePolicyControllerByDefault, InstanceAccepted, WriteCR, crs
    <3>2. inst = cr /\ cr.spec.policy = ""
      BY <3>1 DEF CopiesAreTrue
    <3>3. cr'.spec = WithDefault(cr.spec)
      BY <3>1, <3>2 DEF WithDefault, TypeOK, CRs
    <3>4. Promise!Completes
      BY <2>1, <3>3 DEF Promise!Completes
    <3> QED BY <2>1, <3>4 DEF Promise!Operator
  <2> QED BY <2>2, <2>3
<1>4. \/ UNCHANGED <<cr, userActs>> \/ User \/ SetDefaultStatus \/ updateStatus
      \/ enablePolicyControllerByDefault
  <2>1. Worker => \/ UNCHANGED <<cr, userActs>> \/ SetDefaultStatus \/ updateStatus
                  \/ enablePolicyControllerByDefault
    BY DEF Worker, StartPass, GetInstance, GetChild, CreateChild, UpdateChild, DeleteChild,
           restartFluentdPods, Restart, crs, bounds
  <2>2. Fault => UNCHANGED <<cr, userActs>>
    BY DEF Fault, ApiError, Restart, crs
  <2> QED BY <2>1, <2>2 DEF Next, SyncCR, StartPods, Sync, crs, bounds
<1>5. CASE UNCHANGED <<cr, userActs>>
  BY <1>5 DEF Promise!Idles
<1> QED BY <1>1, <1>2, <1>3, <1>4, <1>5

(* Where the operator rests, every child is settled in the sense of        *)
(* DesiredState: this is RestIsSettled.                                    *)
LEMMA RestStep ==
  ASSUME InductiveInvariant, Quiescent
  PROVE  \A k \in Children : Promise!Settled(k)
<1> SUFFICES ASSUME NEW k \in Children PROVE Promise!Settled(k)
  OBVIOUS
<1> USE DEF InductiveInvariant
<1>1. Settled(k)
  BY InvSettles DEF RestIsSettled
<1>2. k \in Kinds /\ api[k] \in Objects /\ WellOwned(k, api[k])
  BY ConstantFacts DEF TypeOK, ChildrenAreOwned
<1>3. Asked(k) <=> Wanted(k, cr.spec)
  BY DEF Asked, Wanted
<1>4. CASE api[k].owned
  <2>1. Wanted(k, cr.spec) /\ Exists(api[k]) /\ Matches(k, api[k].val, cr.spec)
    BY <1>1, <1>2, <1>3, <1>4 DEF Settled, WellOwned
  <2>2. api[k].val \in Satisfying(k, cr.spec)
    BY <1>2, <2>1 DEF Satisfying, Exists, Objects
  <2> QED BY <2>2 DEF Promise!Settled, Seen
<1>5. CASE ~api[k].owned /\ (Seen(api[k]) # Promise!Absent \/ k \in Foreign)
  BY <1>5 DEF Promise!Settled, Seen
<1>6. CASE ~api[k].owned /\ Seen(api[k]) = Promise!Absent /\ k \notin Foreign
  <2>1. api[k].val = "absent"
    BY <1>6 DEF Seen, Promise!Absent
  <2>2. ~Wanted(k, cr.spec)
    BY <1>1, <1>3, <1>6, <2>1 DEF Settled, Exists
  <2>3. api[k].val \in Satisfying(k, cr.spec)
    BY <2>1, <2>2 DEF Satisfying
  <2> QED BY <2>3 DEF Promise!Settled, Seen
<1> QED BY <1>4, <1>5, <1>6

(* Every step of AuditLogging is a step of DesiredState.                   *)
LEMMA NextIs ==
  ASSUME InductiveInvariant, InductiveInvariant', [Next]_vars
  PROVE  [Promise!Next]_(Promise!vars)
<1>1. CASE UNCHANGED vars
  BY <1>1 DEF vars, crs, worker, bounds, Promise!vars, Quiescent
<1>2. CASE Next
  <2>1. Quiescent' \in BOOLEAN
    BY DEF Quiescent
  <2>2. Quiescent' => \A k \in Children : Promise!Settled(k)'
    <3>1. (InductiveInvariant /\ Quiescent => \A k \in Children : Promise!Settled(k))'
      BY RestStep, PTL
    <3> QED BY <3>1
  <2>3. CASE api' = api
    BY <1>2, <2>1, <2>2, <2>3, OtherStep DEF Promise!Next
  <2>4. CASE api' # api
    <3>1. CASE Promise!Operator
      BY <2>1, <2>2, <3>1 DEF Promise!Next
    <3>2. ASSUME NEW k \in Children \cap (Touched \cup Foreign), NEW o \in Objects,
                 api' = [api EXCEPT ![k] = o], o.owned \in {FALSE, api[k].owned},
                 UNCHANGED cr, userActs' = userActs - 1
          PROVE  Promise!Next
      <4>1. \A c \in Children : api'[c] = IF c = k THEN o ELSE api[c]
        BY <3>2, ConstantFacts DEF InductiveInvariant, TypeOK
      <4>2. Promise!Touches(k)
        BY <3>2, <4>1 DEF Promise!Touches, Seen
      <4> QED BY <2>1, <2>2, <3>2, <4>2 DEF Promise!Next
    <3> QED BY <1>2, <2>4, <3>1, <3>2, ChildrenStep, OperatorStep
  <2> QED BY <2>3, <2>4
<1> QED BY <1>1, <1>2

(* The controller implements DesiredState: seen from the API server it     *)
(* makes one change to one child at a time, completes the spec by nothing  *)
(* but the default of the switch, leaves the owner and the additions of    *)
(* others alone, and rests only where every child is as asked, the policy  *)
(* controller of a switched-off spec being asked to be absent.             *)
THEOREM Implements == Spec => ImplementsDesiredState
<1>1. Init => Promise!Init
  BY InitIs
<1>2. InductiveInvariant /\ InductiveInvariant' /\ [Next]_vars
        => [Promise!Next]_(Promise!vars)
  BY NextIs
<1> QED BY <1>1, <1>2, InvariantHolds, PTL DEF Spec, ImplementsDesiredState, Promise!Spec
=============================================================================

-------------------------- MODULE CommonAuditProofs --------------------------
(***************************************************************************)
(* Proofs about CommonAudit, for every chain of children, every set of     *)
(* specs and every bound on users and faults.                              *)
(***************************************************************************)
EXTENDS CommonAudit, SequenceTheorems, TLAPS

-----------------------------------------------------------------------------
(* Helpers.                                                                *)

(* The constants' assumptions, in the form the proofs use them.            *)
LEMMA ConstantFacts ==
  /\ Len(Chain) \in Nat
  /\ DOMAIN Chain = 1..Len(Chain)
  /\ \A i \in 1..Len(Chain) : Chain[i] \in Kinds /\ Chain[i] \in Children
  /\ Children \subseteq Kinds
  /\ NoCR \in CRs /\ NoCR.uid = 0
  /\ Absent \in Objects
  /\ NoPods \in Pods
<1>1. Len(Chain) \in Nat /\ DOMAIN Chain = 1..Len(Chain)
  BY ChainAssumption
<1>2. \A i \in 1..Len(Chain) : Chain[i] \in Kinds
  BY ChainAssumption, ElementOfSeq
<1>3. NoCR \in CRs /\ NoCR.uid = 0
  BY SpecsAssumption DEF NoCR, CRs
<1>4. Absent \in Objects /\ NoPods \in Pods
  BY DEF Absent, Objects, NoPods, Pods, Values, Settings
<1> QED BY <1>1, <1>2, <1>3, <1>4 DEF Children

(* Every spec asks something that is a value of every child.               *)
LEMMA TargetType ==
  ASSUME NEW k \in Kinds, NEW s \in Specs PROVE Target(k, s) \in Values
BY SpecsAssumption DEF Target, Values

(* What the API server stores is an object.                                *)
LEMMA WriteType ==
  ASSUME TypeOK, NEW k \in Kinds, NEW o \in Objects, Write(k, o)
  PROVE  /\ api' \in [Kinds -> Objects] /\ fresh' \in [Kinds -> BOOLEAN]
         /\ ever' \subseteq Kinds /\ pods' \in Pods
BY ConstantFacts DEF TypeOK, Write

(* A pass that ends leaves the worker's variables well typed.              *)
LEMMA EndPassType ==
  ASSUME TypeOK, NEW b \in BOOLEAN, EndPass(b)
  PROVE  /\ pc' = "idle" /\ pos' = 1 /\ pos' \in 1..(Len(Chain) + 1)
         /\ inst' \in CRs /\ found' \in Objects
         /\ queued' \in BOOLEAN /\ instCurrent' \in BOOLEAN /\ foundCurrent' \in BOOLEAN
<1>1. queued' \in BOOLEAN
  BY DEF TypeOK, EndPass, KeyAfterPass
<1>2. pos' = 1 /\ pos' \in 1..(Len(Chain) + 1)
  BY ConstantFacts DEF EndPass
<1> QED BY <1>1, <1>2, ConstantFacts DEF EndPass

(* A restart leaves everything it resets well typed.                       *)
LEMMA RestartType ==
  ASSUME TypeOK, Restart,
         userActs' \in 0..MaxUserActs, faults' \in 0..MaxFaults
  PROVE  TypeOK'
<1>1. pos' \in 1..(Len(Chain) + 1) /\ pc' = "idle" /\ pos' = 1
  BY ConstantFacts DEF Restart
<1>2. queued' \in BOOLEAN
  BY DEF Restart
<1> QED BY <1>1, <1>2, ConstantFacts DEF TypeOK, Restart

-----------------------------------------------------------------------------
(* Type correctness.                                                       *)

(* The state the operator starts in is well typed.                         *)
LEMMA TypeInit == Init => TypeOK
<1> SUFFICES ASSUME Init PROVE TypeOK
  OBVIOUS
<1>1. cr \in CRs
  BY DEF Init, CRs
<1>2. pos \in 1..(Len(Chain) + 1) /\ userActs \in 0..MaxUserActs /\ faults \in 0..MaxFaults
  BY ConstantFacts, BoundsAssumption DEF Init
<1> QED BY <1>1, <1>2, ConstantFacts DEF Init, TypeOK

(* Each step of a pass keeps the state well typed: among others, a worker that *)
(* is about to write stands at a child of the chain.                       *)
LEMMA TypeWorker == ASSUME TypeOK, Worker PROVE TypeOK'
<1> USE ConstantFacts
<1> DEFINE K == Chain[pos]
<1>0. pos <= Len(Chain) => K \in Kinds
  BY DEF TypeOK
<1>1. CASE StartPass
  BY <1>1 DEF StartPass, NoWrite, TypeOK
<1>2. CASE GetInstance
  <2>1. CASE EndPass(FALSE)
    BY <1>2, <2>1, EndPassType DEF GetInstance, NoWrite, TypeOK
  <2>2. CASE ~EndPass(FALSE)
    BY <1>2, <2>2 DEF GetInstance, NoWrite, TypeOK
  <2> QED BY <2>1, <2>2
<1>3. CASE SetDefaultStatus
  <2>1. CASE instCurrent
    <3>1. cr' \in CRs /\ inst' \in CRs /\ pc' = "chain"
      BY <1>3, <2>1 DEF SetDefaultStatus, EndPass, WriteCR, TypeOK, CRs
    <3> QED BY <1>3, <2>1, <3>1 DEF SetDefaultStatus, WriteCR, NoWrite, TypeOK
  <2>2. CASE ~instCurrent
    BY <1>3, <2>2, EndPassType DEF SetDefaultStatus, NoWrite, TypeOK
  <2> QED BY <2>1, <2>2
<1>4. CASE GetChild
  <2>1. CASE Restart
    BY <1>4, <2>1, RestartType DEF GetChild, TypeOK
  <2>2. CASE ~Restart
    <3>1. /\ pos' \in 1..(Len(Chain) + 1) /\ found' \in Objects
          /\ foundCurrent' \in BOOLEAN
          /\ pc' \in {"chain", "create", "update", "delete"}
          /\ pc' # "chain" => pos' <= Len(Chain)
          /\ UNCHANGED <<crCache, crFresh, cache, fresh, queued, inst, instCurrent>>
      BY <1>0, <1>4, <2>2 DEF GetChild, Kid, TypeOK
    <3> QED BY <1>4, <3>1 DEF GetChild, TypeOK
  <2> QED BY <2>1, <2>2
<1>5. CASE CreateChild
  <2>1. EndPass(TRUE) /\ Kid \in Kinds
    BY <1>0, <1>5 DEF CreateChild, TypeOK, Kid
  <2>2. [val |-> Target(Kid, inst.spec), owner |-> inst.uid, extra |-> FALSE] \in Objects
    BY <2>1, TargetType DEF TypeOK, CRs, Objects
  <2>3. /\ api' \in [Kinds -> Objects] /\ fresh' \in [Kinds -> BOOLEAN]
        /\ ever' \subseteq Kinds /\ pods' \in Pods
    <3>1. CASE NoWrite
      BY <3>1 DEF NoWrite, TypeOK
    <3>2. CASE ~NoWrite
      BY <1>5, <2>1, <2>2, <3>2, WriteType DEF CreateChild
    <3> QED BY <3>1, <3>2
  <2> QED BY <1>5, <2>1, <2>3, EndPassType DEF CreateChild, TypeOK
<1>6. CASE UpdateChild
  <2>1. Kid \in Kinds /\ pos <= Len(Chain)
    BY <1>0, <1>6 DEF UpdateChild, TypeOK, Kid
  <2>2. [found EXCEPT !.val = Target(Kid, inst.spec)] \in Objects
    BY <2>1, TargetType DEF TypeOK, CRs, Objects
  <2>3. /\ api' \in [Kinds -> Objects] /\ fresh' \in [Kinds -> BOOLEAN]
        /\ ever' \subseteq Kinds /\ pods' \in Pods
    <3>1. CASE NoWrite
      BY <3>1 DEF NoWrite, TypeOK
    <3>2. CASE ~NoWrite
      BY <1>6, <2>1, <2>2, <3>2, WriteType DEF UpdateChild
    <3> QED BY <3>1, <3>2
  <2>4. CASE EndPass(TRUE)
    BY <1>6, <2>3, <2>4, EndPassType DEF UpdateChild, TypeOK
  <2>5. CASE ~EndPass(TRUE)
    BY <1>6, <2>1, <2>3, <2>5 DEF UpdateChild, TypeOK
  <2> QED BY <2>4, <2>5
<1>7. CASE DeleteChild
  <2>1. EndPass(TRUE) /\ Kid \in Kinds
    BY <1>0, <1>7 DEF DeleteChild, TypeOK, Kid
  <2>2. /\ api' \in [Kinds -> Objects] /\ fresh' \in [Kinds -> BOOLEAN]
        /\ ever' \subseteq Kinds /\ pods' \in Pods
    <3>1. CASE NoWrite
      BY <3>1 DEF NoWrite, TypeOK
    <3>2. CASE ~NoWrite
      BY <1>7, <2>1, <3>2, WriteType DEF DeleteChild
    <3> QED BY <3>1, <3>2
  <2> QED BY <1>7, <2>1, <2>2, EndPassType DEF DeleteChild, TypeOK
<1>8. CASE RestartFluentdPods
  BY <1>8, EndPassType DEF RestartFluentdPods, TypeOK
<1>9. CASE UpdateStatus
  <2>1. \E b \in BOOLEAN : EndPass(b)
    BY <1>9 DEF UpdateStatus
  <2>2. cr' \in CRs /\ crFresh' \in BOOLEAN
    BY <1>9 DEF UpdateStatus, WriteCR, PodNames, TypeOK, CRs
  <2> QED BY <1>9, <2>1, <2>2, EndPassType DEF UpdateStatus, NoWrite, TypeOK
<1> QED BY <1>1, <1>2, <1>3, <1>4, <1>5, <1>6, <1>7, <1>8, <1>9 DEF Worker

(* So does whatever goes wrong around it.                                  *)
LEMMA TypeFault == ASSUME TypeOK, Fault PROVE TypeOK'
<1> USE ConstantFacts
<1>1. faults' \in 0..MaxFaults
  BY BoundsAssumption DEF Fault, TypeOK
<1>2. CASE ApiError
  BY <1>1, <1>2, EndPassType DEF ApiError, NoWrite, TypeOK
<1>3. CASE LostReply
  <2>1. Kid \in Kinds
    BY <1>3 DEF LostReply, TypeOK, Kid
  <2>2. [found EXCEPT !.val = Target(Kid, inst.spec)] \in Objects
    BY <2>1, TargetType DEF TypeOK, CRs, Objects
  <2>3. /\ api' \in [Kinds -> Objects] /\ fresh' \in [Kinds -> BOOLEAN]
        /\ ever' \subseteq Kinds /\ pods' \in Pods
    BY <1>3, <2>1, <2>2, WriteType DEF LostReply
  <2> QED BY <1>1, <1>3, <2>3, EndPassType DEF LostReply, TypeOK
<1>4. CASE RestartFails
  BY <1>1, <1>4, EndPassType DEF RestartFails, NoWrite, TypeOK
<1>5. CASE Crash
  BY <1>1, <1>5, RestartType DEF Crash, TypeOK
<1>6. CASE Resync
  BY <1>1, <1>6 DEF Resync, NoWrite, TypeOK
<1> QED BY <1>2, <1>3, <1>4, <1>5, <1>6 DEF Fault

(* Events only copy what the API server has into the caches.               *)
LEMMA TypeSync ==
  ASSUME TypeOK, SyncCR \/ \E k \in Children : Sync(k) PROVE TypeOK'
<1> USE ConstantFacts
<1>1. CASE SyncCR
  BY <1>1 DEF SyncCR, NoWrite, TypeOK
<1>2. ASSUME NEW k \in Children, Sync(k) PROVE TypeOK'
  <2>1. queued' \in BOOLEAN
    BY <1>2 DEF Sync
  <2> QED BY <1>2, <2>1 DEF Sync, TypeOK
<1> QED BY <1>1, <1>2

(* The collector removes objects and the kubelet copies values into pods.  *)
LEMMA TypeCluster ==
  ASSUME TypeOK, StartPods \/ \E k \in Children : CollectGarbage(k) PROVE TypeOK'
<1> USE ConstantFacts
<1>1. CASE StartPods
  <2>1. foundCurrent' \in BOOLEAN
    BY <1>1 DEF StartPods, Outdate, TypeOK
  <2>2. pods' \in Pods
    <3>1. ConfigMaps \subseteq Kinds
      BY DEF ConfigMaps, SIEM, Kinds
    <3> QED BY <1>1, <3>1 DEF StartPods, Pods, TypeOK, Objects
  <2> QED BY <1>1, <2>1, <2>2 DEF StartPods, TypeOK
<1>2. ASSUME NEW k \in Children, CollectGarbage(k) PROVE TypeOK'
  <2>1. foundCurrent' \in BOOLEAN
    BY <1>2 DEF CollectGarbage, Outdate, TypeOK
  <2>2. /\ api' \in [Kinds -> Objects] /\ fresh' \in [Kinds -> BOOLEAN]
        /\ ever' \subseteq Kinds /\ pods' \in Pods
    BY <1>2, WriteType DEF CollectGarbage
  <2> QED BY <1>2, <2>1, <2>2 DEF CollectGarbage, TypeOK
<1> QED BY <1>1, <1>2

(* A user either writes the CR or one child, and touches nothing of the    *)
(* operator but the currency of its copies.                                *)
LEMMA UserCases ==
  ASSUME TypeOK, User
  PROVE  \/ /\ cr' \in CRs /\ crFresh' = FALSE /\ instCurrent' = FALSE
            /\ NoWrite /\ UNCHANGED foundCurrent /\ incarnation' \in Nat
            /\ cr'.uid = 0 \/ cr'.uid = incarnation' \/ cr'.uid = cr.uid
         \/ \E k \in Children, o \in Objects :
              /\ Write(k, o) /\ Outdate(k)
              /\ Exists(o) => k \in Foreign \/ (Exists(api[k]) /\ o.owner = api[k].owner)
              /\ UNCHANGED <<cr, crFresh, instCurrent, incarnation>>
<1> USE ConstantFacts
<1>1. ASSUME NEW s \in Specs, UserCreatesCR(s) \/ UserEditsCR(s) \/ UserDeletesCR
      PROVE  /\ cr' \in CRs /\ crFresh' = FALSE /\ instCurrent' = FALSE
             /\ NoWrite /\ UNCHANGED foundCurrent /\ incarnation' \in Nat
             /\ cr'.uid = 0 \/ cr'.uid = incarnation' \/ cr'.uid = cr.uid
  BY <1>1 DEF UserCreatesCR, UserEditsCR, UserDeletesCR, WriteCR, TypeOK, CRs
<1>2. ASSUME NEW k \in Children, UserEditsChild(k)
      PROVE  \E o \in Objects :
               /\ Write(k, o) /\ Outdate(k)
               /\ Exists(o) => k \in Foreign \/ (Exists(api[k]) /\ o.owner = api[k].owner)
               /\ UNCHANGED <<cr, crFresh, instCurrent, incarnation>>
  <2>1. PICK v \in {"drifted", Target(k, cr.spec), "broken"} :
               UserWrites(k, [api[k] EXCEPT !.val = v])
    BY <1>2 DEF UserEditsChild
  <2>2. v \in Values
    BY TargetType DEF TypeOK, CRs, Values
  <2>3. /\ [api[k] EXCEPT !.val = v] \in Objects
        /\ [api[k] EXCEPT !.val = v].owner = api[k].owner
    BY <2>2 DEF TypeOK, Objects
  <2>4. Exists(api[k])
    BY <1>2 DEF UserEditsChild
  <2> QED BY <2>1, <2>3, <2>4 DEF UserWrites
<1>3. ASSUME NEW k \in Children, UserExtendsChild(k) \/ UserDeletesChild(k)
      PROVE  \E o \in Objects :
               /\ Write(k, o) /\ Outdate(k)
               /\ Exists(o) => k \in Foreign \/ (Exists(api[k]) /\ o.owner = api[k].owner)
               /\ UNCHANGED <<cr, crFresh, instCurrent, incarnation>>
  <2>1. /\ [api[k] EXCEPT !.extra = TRUE] \in Objects
        /\ [api[k] EXCEPT !.extra = TRUE].owner = api[k].owner
        /\ ~Exists(Absent)
    BY DEF TypeOK, Objects, Exists, Absent
  <2> QED BY <1>3, <2>1 DEF UserExtendsChild, UserDeletesChild, UserWrites
<1>4. ASSUME NEW k \in Children \cap Foreign, UserCreatesChild(k)
      PROVE  \E o \in Objects :
               /\ Write(k, o) /\ Outdate(k)
               /\ Exists(o) => k \in Foreign \/ (Exists(api[k]) /\ o.owner = api[k].owner)
               /\ UNCHANGED <<cr, crFresh, instCurrent, incarnation>>
  <2>1. [val |-> "drifted", owner |-> 0, extra |-> TRUE] \in Objects
    BY DEF Objects, Values
  <2> QED BY <1>4, <2>1 DEF UserCreatesChild, UserWrites
<1>5. Specs # {}
  BY SpecsAssumption
<1> QED BY <1>1, <1>2, <1>3, <1>4, <1>5 DEF User

(* Users write values of the right types, and only what is modelled of them. *)
LEMMA TypeUser == ASSUME TypeOK, User PROVE TypeOK'
<1> USE ConstantFacts
<1>1. userActs' \in 0..MaxUserActs
  BY BoundsAssumption DEF User, TypeOK
<1>2. UNCHANGED <<crCache, cache, queued, pc, pos, inst, found, faults>>
  BY DEF User
<1>3. CASE cr' \in CRs /\ crFresh' = FALSE /\ instCurrent' = FALSE
           /\ NoWrite /\ UNCHANGED foundCurrent /\ incarnation' \in Nat
  BY <1>1, <1>2, <1>3 DEF NoWrite, TypeOK
<1>4. ASSUME NEW k \in Children, NEW o \in Objects, Write(k, o), Outdate(k),
             UNCHANGED <<cr, crFresh, instCurrent, incarnation>>
      PROVE  TypeOK'
  <2>1. foundCurrent' \in BOOLEAN
    BY <1>4 DEF Outdate, TypeOK
  <2>2. /\ api' \in [Kinds -> Objects] /\ fresh' \in [Kinds -> BOOLEAN]
        /\ ever' \subseteq Kinds /\ pods' \in Pods
    BY <1>4, WriteType
  <2> QED BY <1>1, <1>2, <1>4, <2>1, <2>2 DEF TypeOK
<1> QED BY <1>3, <1>4, UserCases

(* Every step keeps the state well typed.                                  *)
LEMMA TypeStep == ASSUME TypeOK, [Next]_vars PROVE TypeOK'
<1>1. CASE UNCHANGED vars
  BY <1>1 DEF vars, TypeOK
<1>2. CASE Next
  BY <1>2, TypeWorker, TypeFault, TypeSync, TypeCluster, TypeUser DEF Next
<1> QED BY <1>1, <1>2

(* Every variable keeps its type: in particular the worker is at a child   *)
(* of the chain whenever it writes one.                                    *)
THEOREM TypeCorrect == Spec => []TypeOK
<1>1. Init => TypeOK
  BY TypeInit
<1>2. TypeOK /\ [Next]_vars => TypeOK'
  BY TypeStep
<1> QED BY <1>1, <1>2, PTL DEF Spec

-----------------------------------------------------------------------------
(* No wake-up is missed.                                                   *)

(* Nothing exists at the start, and the key is in the queue.               *)
LEMMA InvInit == Init => InductiveInvariant
<1> SUFFICES ASSUME Init PROVE InductiveInvariant
  OBVIOUS
<1>1. TypeOK
  BY TypeInit
<1>2. CopiesAreTrue
  BY DEF Init, CopiesAreTrue
<1>3. ChildrenAreOwned
  BY DEF Init, ChildrenAreOwned, Exists, Absent
<1>4. NoWakeUpMissed
  BY DEF Init, NoWakeUpMissed
<1>5. WritesAreLawful
  BY ConstantFacts DEF Init, WritesAreLawful
<1> QED BY <1>1, <1>2, <1>3, <1>4, <1>5 DEF InductiveInvariant

(* A write outdates the cached copy of the child and the copy that is      *)
(* being written, so that all copies called current still are.             *)
LEMMA WriteKeepsCopies ==
  ASSUME TypeOK, CopiesAreTrue, NEW k \in Kinds, NEW o \in Objects,
         Write(k, o), Outdate(k), UNCHANGED <<cache, pc, pos, found>>
  PROVE  /\ \A c \in Kinds : fresh'[c] => cache'[c] = api'[c]
         /\ pc' = "update" => Exists(found')
         /\ pc' \in {"create", "update", "delete"} /\ foundCurrent' => found' = api'[Kid']
<1>1. \A c \in Kinds : fresh'[c] => cache'[c] = api'[c]
  BY DEF Write, CopiesAreTrue, TypeOK
<1>2. pc' = "update" => Exists(found')
  BY DEF CopiesAreTrue
<1>3. pc' \in {"create", "update", "delete"} /\ foundCurrent' => found' = api'[Kid']
  <2> SUFFICES ASSUME pc' \in {"create", "update", "delete"}, foundCurrent'
               PROVE  found' = api'[Kid']
    OBVIOUS
  <2>1. pos <= Len(Chain)
    BY DEF TypeOK
  <2>2. Kid # k /\ foundCurrent
    BY <2>1 DEF Outdate, Kid
  <2>3. Kid \in Kinds /\ Kid' = Kid
    BY <2>1, ConstantFacts DEF TypeOK, Kid
  <2> QED BY <2>2, <2>3 DEF Write, CopiesAreTrue, TypeOK
<1> QED BY <1>1, <1>2, <1>3

(* The same for a write of the worker, after which found is not used.      *)
LEMMA OwnWriteKeepsCopies ==
  ASSUME TypeOK, CopiesAreTrue, NEW k \in Kinds, NEW o, Write(k, o), UNCHANGED cache
  PROVE  \A c \in Kinds : fresh'[c] => cache'[c] = api'[c]
BY DEF Write, CopiesAreTrue, TypeOK

(* A step of the worker that writes no child and is not about to.          *)
LEMMA NoWriteKeepsCopies ==
  ASSUME CopiesAreTrue, NoWrite, UNCHANGED cache,
         pc' \in {"idle", "get", "default", "chain"}, crFresh' => crCache' = cr'
  PROVE  CopiesAreTrue'
BY DEF CopiesAreTrue, NoWrite

(* No step leaves a copy marked current that is not: each write outdates the *)
(* copies of what it writes, of the caches and of the worker alike.        *)
LEMMA CopiesStep ==
  ASSUME InductiveInvariant, Next PROVE CopiesAreTrue'
<1> USE ConstantFacts DEF InductiveInvariant
<1>k. pos <= Len(Chain) => Kid \in Kinds
  BY DEF TypeOK, Kid
<1>1. CASE StartPass
  BY <1>1 DEF StartPass, NoWrite, CopiesAreTrue
<1>2. CASE GetInstance
  BY <1>2 DEF GetInstance, EndPass, NoWrite, CopiesAreTrue
<1>3. CASE SetDefaultStatus
  <2>1. NoWrite /\ UNCHANGED cache /\ pc' \in {"idle", "chain"}
    BY <1>3 DEF SetDefaultStatus, EndPass
  <2>2. crFresh' => crCache' = cr'
    BY <1>3 DEF SetDefaultStatus, WriteCR, CopiesAreTrue
  <2> QED BY <2>1, <2>2, NoWriteKeepsCopies
<1>4. CASE Restart
  BY <1>4 DEF Restart, CopiesAreTrue, TypeOK
<1>5. CASE GetChild /\ ~Restart
  <2>1. /\ UNCHANGED <<cr, crCache, crFresh, api, cache, fresh>>
        /\ pos <= Len(Chain)
    BY <1>5 DEF GetChild
  <2>2. pc' \in {"create", "update", "delete"} =>
          found' = cache[Kid] /\ foundCurrent' = fresh[Kid] /\ pos' = pos
    BY <1>5 DEF GetChild
  <2>3. pc' = "update" => Exists(found')
    BY <1>5 DEF GetChild
  <2> QED BY <1>k, <2>1, <2>2, <2>3 DEF CopiesAreTrue, Kid
<1>6. CASE CreateChild
  <2>1. pc' = "idle" /\ UNCHANGED <<cr, crCache, crFresh, cache>>
    BY <1>6 DEF CreateChild, EndPass
  <2>2. \A c \in Kinds : fresh'[c] => cache'[c] = api'[c]
    <3>1. Kid \in Kinds
      BY <1>k, <1>6 DEF CreateChild, TypeOK
    <3> QED BY <1>6, <3>1, OwnWriteKeepsCopies DEF CreateChild, NoWrite, CopiesAreTrue
  <2> QED BY <2>1, <2>2 DEF CopiesAreTrue
<1>7. CASE UpdateChild
  <2>1. pc' \in {"idle", "restart"} /\ UNCHANGED <<cr, crCache, crFresh, cache>>
    BY <1>7 DEF UpdateChild, EndPass
  <2>2. \A c \in Kinds : fresh'[c] => cache'[c] = api'[c]
    <3>1. Kid \in Kinds
      BY <1>k, <1>7 DEF UpdateChild, TypeOK
    <3> QED BY <1>7, <3>1, OwnWriteKeepsCopies DEF UpdateChild, NoWrite, CopiesAreTrue
  <2> QED BY <2>1, <2>2 DEF CopiesAreTrue
<1>8. CASE DeleteChild
  <2>1. pc' = "idle" /\ UNCHANGED <<cr, crCache, crFresh, cache>>
    BY <1>8 DEF DeleteChild, EndPass
  <2>2. \A c \in Kinds : fresh'[c] => cache'[c] = api'[c]
    <3>1. Kid \in Kinds
      BY <1>k, <1>8 DEF DeleteChild, TypeOK
    <3> QED BY <1>8, <3>1, OwnWriteKeepsCopies DEF DeleteChild, NoWrite, CopiesAreTrue
  <2> QED BY <2>1, <2>2 DEF CopiesAreTrue
<1>9. CASE RestartFluentdPods
  BY <1>9 DEF RestartFluentdPods, EndPass, CopiesAreTrue
<1>10. CASE UpdateStatus
  <2>1. NoWrite /\ UNCHANGED cache /\ pc' = "idle"
    BY <1>10 DEF UpdateStatus, EndPass
  <2>2. crFresh' => crCache' = cr'
    BY <1>10 DEF UpdateStatus, WriteCR, CopiesAreTrue
  <2> QED BY <2>1, <2>2, NoWriteKeepsCopies
<1>11. CASE ApiError \/ RestartFails
  <2>1. NoWrite /\ UNCHANGED <<cr, crCache, crFresh, cache>> /\ pc' = "idle"
    BY <1>11 DEF ApiError, RestartFails, EndPass
  <2> QED BY <2>1, NoWriteKeepsCopies DEF CopiesAreTrue
<1>12. CASE LostReply
  <2>1. pc' = "idle" /\ UNCHANGED <<cr, crCache, crFresh, cache>>
    BY <1>12 DEF LostReply, EndPass
  <2>2. Kid \in Kinds
    BY <1>k, <1>12 DEF LostReply, TypeOK
  <2>3. \A c \in Kinds : fresh'[c] => cache'[c] = api'[c]
    BY <1>12, <2>2, OwnWriteKeepsCopies DEF LostReply
  <2> QED BY <2>1, <2>3 DEF CopiesAreTrue
<1>13. CASE Resync
  BY <1>13 DEF Resync, NoWrite, CopiesAreTrue, Kid
<1>14. CASE SyncCR
  BY <1>14 DEF SyncCR, NoWrite, CopiesAreTrue, Kid
<1>15. ASSUME NEW k \in Children, Sync(k) PROVE CopiesAreTrue'
  <2>1. \A c \in Kinds : fresh'[c] => cache'[c] = api'[c]
    BY <1>15 DEF Sync, CopiesAreTrue, TypeOK
  <2> QED BY <1>15, <2>1 DEF Sync, CopiesAreTrue, Kid
<1>16. ASSUME NEW k \in Children, CollectGarbage(k) PROVE CopiesAreTrue'
  BY <1>16, WriteKeepsCopies DEF CollectGarbage, CopiesAreTrue
<1>17. CASE StartPods
  <2>1. \A c \in Kinds : fresh'[c] => cache'[c] = api'[c]
    BY <1>17 DEF StartPods, CopiesAreTrue, TypeOK
  <2>2. foundCurrent' => foundCurrent
    BY <1>17 DEF StartPods, Outdate, TypeOK
  <2> QED BY <1>17, <2>1, <2>2 DEF StartPods, CopiesAreTrue, Kid
<1>18. CASE User
  <2>1. UNCHANGED <<crCache, cache, pc, pos, found>>
    BY <1>18 DEF User
  <2>2. CASE crFresh' = FALSE /\ NoWrite /\ UNCHANGED foundCurrent
    BY <2>1, <2>2 DEF NoWrite, CopiesAreTrue, Kid
  <2>3. ASSUME NEW k \in Children, NEW o \in Objects, Write(k, o), Outdate(k),
               UNCHANGED <<cr, crFresh>>
        PROVE  CopiesAreTrue'
    BY <2>1, <2>3, WriteKeepsCopies DEF CopiesAreTrue
  <2> QED BY <1>18, <2>2, <2>3, UserCases
<1> QED BY <1>1, <1>2, <1>3, <1>4, <1>5, <1>6, <1>7, <1>8, <1>9, <1>10, <1>11,
           <1>12, <1>13, <1>14, <1>15, <1>16, <1>17, <1>18
        DEF Next, Worker, Fault, Crash

(* A write keeps a child owned if what it stores is owned.                 *)
LEMMA WriteKeepsOwned ==
  ASSUME TypeOK, ChildrenAreOwned, NEW k \in Kinds, NEW o, Write(k, o),
         k \notin Foreign /\ Exists(o) => Owned(o), UNCHANGED cache
  PROVE  \A c \in Kinds \ Foreign : /\ Exists(api'[c]) => Owned(api'[c])
                                    /\ Exists(cache'[c]) => Owned(cache'[c])
BY DEF Write, ChildrenAreOwned, TypeOK

(* The worker creates children for the CR it holds, which has a UID, and no *)
(* other step takes the owner of a child away.                             *)
LEMMA OwnedStep ==
  ASSUME InductiveInvariant, Next PROVE ChildrenAreOwned'
<1> USE ConstantFacts DEF InductiveInvariant
<1> DEFINE Busy == {"default", "chain", "create", "update", "delete", "restart"}
           OwnedNow == \A c \in Kinds \ Foreign :
                         /\ Exists(api[c]) => Owned(api[c])
                         /\ Exists(cache[c]) => Owned(cache[c])
<1>k. pos <= Len(Chain) => Kid \in Kinds
  BY DEF TypeOK, Kid
<1>a. ~Exists(Absent)
  BY DEF Exists, Absent
(* The pass keeps its copy of the CR, or ends, or has just read a CR.      *)
<1>i. pc' \in Busy => inst'.uid # 0
  <2>1. CASE GetInstance
    BY <2>1 DEF GetInstance, EndPass
  <2>2. CASE Worker /\ ~GetInstance
    <3>1. \/ pc' \in {"idle", "get"}
          \/ pc \in Busy /\ inst'.uid = inst.uid
      <4>1. CASE StartPass
        BY <4>1 DEF StartPass
      <4>2. CASE SetDefaultStatus
        BY <4>2 DEF SetDefaultStatus, EndPass, TypeOK, CRs
      <4>3. CASE GetChild
        BY <4>3 DEF GetChild, Restart
      <4>4. CASE CreateChild \/ DeleteChild \/ RestartFluentdPods
        BY <4>4 DEF CreateChild, DeleteChild, RestartFluentdPods, EndPass
      <4>5. CASE UpdateChild
        BY <4>5 DEF UpdateChild, EndPass
      <4>6. CASE UpdateStatus
        BY <4>6 DEF UpdateStatus, EndPass
      <4> QED BY <2>2, <4>1, <4>2, <4>3, <4>4, <4>5, <4>6 DEF Worker
    <3> QED BY <3>1 DEF ChildrenAreOwned
  <2>3. CASE Fault
    <3>1. pc' = "idle" \/ UNCHANGED <<pc, inst>>
      <4>1. CASE ApiError \/ LostReply \/ RestartFails
        BY <4>1 DEF ApiError, LostReply, RestartFails, EndPass
      <4>2. CASE Crash
        BY <4>2 DEF Crash, Restart
      <4>3. CASE Resync
        BY <4>3 DEF Resync
      <4> QED BY <2>3, <4>1, <4>2, <4>3 DEF Fault
    <3> QED BY <3>1 DEF ChildrenAreOwned
  <2>4. CASE UNCHANGED <<pc, inst>>
    BY <2>4 DEF ChildrenAreOwned
  <2>5. (SyncCR \/ User \/ StartPods \/ \E k \in Children : Sync(k) \/ CollectGarbage(k))
          => UNCHANGED <<pc, inst>>
    BY DEF SyncCR, User, StartPods, Sync, CollectGarbage
  <2> QED BY <2>1, <2>2, <2>3, <2>4, <2>5 DEF Next
<1>n. OwnedNow
  BY DEF ChildrenAreOwned
<1>1. CASE UNCHANGED <<api, cache>>
  BY <1>1, <1>i, <1>n DEF ChildrenAreOwned
<1>2. CASE Restart
  BY <1>2, <1>i, <1>n DEF Restart, ChildrenAreOwned
<1>3. CASE CreateChild
  <2>1. Kid \in Kinds /\ inst.uid # 0
    BY <1>3, <1>k DEF CreateChild, ChildrenAreOwned, TypeOK
  <2>2. CASE Exists(api[Kid])
    BY <1>1, <1>3, <2>2 DEF CreateChild, NoWrite
  <2>3. CASE ~Exists(api[Kid])
    <3> DEFINE o == [val |-> Target(Kid, inst.spec), owner |-> inst.uid, extra |-> FALSE]
    <3>1. Exists(o) => Owned(o)
      BY <2>1 DEF Owned
    <3>2. Write(Kid, o) /\ UNCHANGED cache
      BY <1>3, <2>3 DEF CreateChild
    <3> HIDE DEF o
    <3> QED BY <1>i, <2>1, <3>1, <3>2, WriteKeepsOwned DEF ChildrenAreOwned
  <2> QED BY <2>2, <2>3
<1>4. CASE pc = "update" /\ foundCurrent /\ UNCHANGED cache
           /\ Write(Kid, [found EXCEPT !.val = Target(Kid, inst.spec)])
  <2>1. Kid \in Kinds /\ found = api[Kid] /\ Exists(found)
    BY <1>4, <1>k DEF CopiesAreTrue, TypeOK
  <2> DEFINE o == [found EXCEPT !.val = Target(Kid, inst.spec)]
  <2>2. o.owner = found.owner
    BY DEF TypeOK, Objects
  <2>3. Kid \notin Foreign /\ Exists(o) => Owned(o)
    BY <1>n, <2>1, <2>2 DEF Owned
  <2>4. Write(Kid, o)
    BY <1>4
  <2> HIDE DEF o
  <2> QED BY <1>4, <1>i, <2>1, <2>3, <2>4, WriteKeepsOwned DEF ChildrenAreOwned
<1>5. CASE UpdateChild
  BY <1>1, <1>4, <1>5 DEF UpdateChild, UpdateAccepted, NoWrite
<1>6. CASE LostReply
  BY <1>4, <1>6 DEF LostReply, UpdateAccepted
<1>7. CASE DeleteChild
  <2>1. Kid \in Kinds
    BY <1>7, <1>k DEF DeleteChild, TypeOK
  <2>2. CASE Write(Kid, Absent)
    BY <1>7, <1>a, <1>i, <2>1, <2>2, WriteKeepsOwned DEF DeleteChild, ChildrenAreOwned
  <2> QED BY <1>1, <1>7, <2>2 DEF DeleteChild, NoWrite
<1>8. ASSUME NEW k \in Children, Sync(k) PROVE ChildrenAreOwned'
  BY <1>8, <1>i, <1>n DEF Sync, ChildrenAreOwned, TypeOK
<1>9. ASSUME NEW k \in Children, CollectGarbage(k) PROVE ChildrenAreOwned'
  BY <1>9, <1>a, <1>i, WriteKeepsOwned DEF CollectGarbage, ChildrenAreOwned
<1>10. CASE User
  <2>1. UNCHANGED cache
    BY <1>10 DEF User
  <2>2. ASSUME NEW k \in Children, NEW o \in Objects, Write(k, o),
               Exists(o) => k \in Foreign \/ (Exists(api[k]) /\ o.owner = api[k].owner)
        PROVE  ChildrenAreOwned'
    <3>1. k \notin Foreign /\ Exists(o) => Owned(o)
      BY <1>n, <2>2 DEF Owned
    <3> QED BY <1>i, <2>1, <2>2, <3>1, WriteKeepsOwned DEF ChildrenAreOwned
  <2> QED BY <1>1, <1>10, <2>1, <2>2, UserCases DEF NoWrite
<1>11. CASE StartPass \/ GetInstance \/ SetDefaultStatus \/ UpdateStatus \/ RestartFluentdPods
  BY <1>1, <1>11 DEF StartPass, GetInstance, SetDefaultStatus, UpdateStatus,
                     RestartFluentdPods, NoWrite
<1>12. CASE GetChild
  BY <1>1, <1>2, <1>12 DEF GetChild
<1>13. CASE ApiError \/ RestartFails \/ Resync \/ SyncCR \/ StartPods
  BY <1>1, <1>13 DEF ApiError, RestartFails, Resync, SyncCR, StartPods, NoWrite
<1> QED BY <1>2, <1>3, <1>5, <1>6, <1>7, <1>8, <1>9, <1>10, <1>11, <1>12, <1>13
        DEF Next, Worker, Fault, Crash

(* A pass that ends with a requeue owes nothing more.                      *)
LEMMA RequeueWakes == ASSUME EndPass(TRUE) PROVE NoWakeUpMissed'
BY DEF EndPass, KeyAfterPass, NoWakeUpMissed

(* Steps that leave the worker and the caches alone.                       *)
LEMMA OthersKeepWakeUps ==
  ASSUME NoWakeUpMissed, UNCHANGED <<queued, pc, pos, inst, cache, crCache>>
  PROVE  NoWakeUpMissed'
BY DEF NoWakeUpMissed, SettledInCache

(* An event that wakes nobody concerns a child that users create, and      *)
(* leaves it as settled as it was.                                         *)
LEMMA SilentEvent ==
  ASSUME InductiveInvariant, NEW k \in Children, Sync(k), ~queued',
         NEW c \in Children, SettledInCache(c)
  PROVE  SettledInCache(c)'
<1> USE ConstantFacts DEF InductiveInvariant
<1>1. ~Owned(cache[k]) /\ ~Owned(api[k])
  BY DEF Sync, Enqueues
<1>2. cache'[c] = IF c = k THEN api[k] ELSE cache[c]
  BY DEF Sync, TypeOK
<1>3. UNCHANGED crCache
  BY DEF Sync
<1>4. CASE c # k
  BY <1>2, <1>3, <1>4 DEF SettledInCache
<1>5. CASE c = k
  <2>1. k \in Foreign
    BY <1>1, <1>5 DEF SettledInCache, ChildrenAreOwned
  <2> QED BY <1>1, <1>2, <1>5, <2>1 DEF SettledInCache
<1> QED BY <1>4, <1>5

(* A pass accepts a child only if it is settled in the cache, and every event *)
(* that could unsettle one puts the key into the queue.                    *)
LEMMA WakeStep ==
  ASSUME InductiveInvariant, Next PROVE NoWakeUpMissed'
<1> USE ConstantFacts DEF InductiveInvariant
<1>1. CASE StartPass
  BY <1>1 DEF StartPass, NoWakeUpMissed
<1>2. CASE GetInstance
  <2>1. CASE crCache.uid = 0
    BY <1>2, <2>1 DEF GetInstance, EndPass, NoWakeUpMissed
  <2>2. CASE crCache.uid # 0
    <3>1. /\ pc' \in {"default", "chain"} /\ inst'.spec = crCache'.spec /\ pos' = 1
      BY <1>2, <2>2 DEF GetInstance, TypeOK
    <3> QED BY <3>1 DEF NoWakeUpMissed
  <2> QED BY <2>1, <2>2
<1>3. CASE SetDefaultStatus
  <2>1. CASE instCurrent
    <3>1. /\ pc' = "chain" /\ pos' = 1 /\ UNCHANGED <<queued, crCache>>
          /\ inst'.spec = inst.spec /\ pc = "default"
      BY <1>3, <2>1 DEF SetDefaultStatus, TypeOK, CRs
    <3> QED BY <3>1 DEF NoWakeUpMissed
  <2>2. CASE ~instCurrent
    BY <1>3, <2>2, RequeueWakes DEF SetDefaultStatus
  <2> QED BY <2>1, <2>2
<1>4. CASE Restart
  BY <1>4 DEF Restart, NoWakeUpMissed
<1>5. CASE GetChild /\ ~Restart
  <2>0. /\ pc = "chain" /\ pos \in 1..Len(Chain) /\ Kid \in Children
        /\ UNCHANGED <<crCache, cache, queued, inst>>
    BY <1>5 DEF GetChild, TypeOK, Kid
  <2>1. CASE Accepts(Kid, cache[Kid], inst.spec)
    <3>1. pos' = pos + 1 /\ pc' = pc
      BY <1>5, <2>1 DEF GetChild
    <3> SUFFICES ASSUME ~queued' PROVE NoWakeUpMissed'
      BY DEF NoWakeUpMissed
    <3>2. inst.spec = crCache.spec /\ \A i \in 1..(pos - 1) : SettledInCache(Chain[i])
      BY <2>0 DEF NoWakeUpMissed
    <3>3. SettledInCache(Kid)
      BY <2>1, <3>2 DEF Accepts, SettledInCache
    <3>4. \A i \in 1..(pos' - 1) : SettledInCache(Chain[i])
      BY <2>0, <3>1, <3>2, <3>3 DEF Kid
    <3>5. \A i \in 1..(pos' - 1) : SettledInCache(Chain[i])'
      BY <2>0, <3>4 DEF SettledInCache
    <3> QED BY <2>0, <3>1, <3>2, <3>5 DEF NoWakeUpMissed
  <2>2. CASE ~Accepts(Kid, cache[Kid], inst.spec)
    <3>1. pc' \in {"create", "update", "delete"}
      BY <1>5, <2>2 DEF GetChild
    <3> QED BY <3>1 DEF NoWakeUpMissed
  <2> QED BY <2>1, <2>2
<1>6. CASE CreateChild \/ DeleteChild \/ RestartFluentdPods
  BY <1>6, RequeueWakes DEF CreateChild, DeleteChild, RestartFluentdPods
<1>7. CASE UpdateChild
  <2>1. EndPass(TRUE) \/ pc' = "restart"
    BY <1>7 DEF UpdateChild
  <2> QED BY <2>1, RequeueWakes DEF NoWakeUpMissed
<1>8. CASE UpdateStatus
  <2>1. CASE EndPass(TRUE)
    BY <2>1, RequeueWakes
  <2>2. CASE EndPass(FALSE)
    <3> SUFFICES ASSUME ~queued' PROVE NoWakeUpMissed'
      BY DEF NoWakeUpMissed
    <3>1. ~queued /\ pc' = "idle"
      BY <2>2 DEF EndPass, KeyAfterPass
    <3>2. pc = "chain" /\ pos - 1 = Len(Chain) /\ UNCHANGED <<cache, crCache>>
      BY <1>8 DEF UpdateStatus
    <3>3. \A i \in 1..Len(Chain) : SettledInCache(Chain[i])
      BY <3>1, <3>2 DEF NoWakeUpMissed
    <3>4. \A k \in Children : SettledInCache(k)
      BY <3>3 DEF Children
    <3>5. \A k \in Children : SettledInCache(k)'
      BY <3>2, <3>4 DEF SettledInCache
    <3> QED BY <3>1, <3>5 DEF NoWakeUpMissed
  <2> QED BY <1>8, <2>1, <2>2 DEF UpdateStatus
<1>9. CASE ApiError \/ LostReply \/ RestartFails
  BY <1>9, RequeueWakes DEF ApiError, LostReply, RestartFails
<1>10. CASE Resync \/ SyncCR
  BY <1>10 DEF Resync, SyncCR, NoWakeUpMissed
<1>11. ASSUME NEW k \in Children, Sync(k) PROVE NoWakeUpMissed'
  <2> SUFFICES ASSUME ~queued' PROVE NoWakeUpMissed'
    BY DEF NoWakeUpMissed
  <2>1. ~queued /\ UNCHANGED <<pc, pos, inst, crCache>>
    BY <1>11 DEF Sync
  <2>2. ASSUME NEW c \in Children, SettledInCache(c) PROVE SettledInCache(c)'
    BY <1>11, <2>2, SilentEvent
  <2>3. pc' = "idle" /\ crCache'.uid # 0 => \A c \in Children : SettledInCache(c)'
    BY <2>1, <2>2 DEF NoWakeUpMissed
  <2>4. pc' \in {"default", "chain"} => inst'.spec = crCache'.spec
    BY <2>1 DEF NoWakeUpMissed
  <2>5. pc' \in {"default", "chain"} => \A i \in 1..(pos' - 1) : SettledInCache(Chain[i])'
    <3> SUFFICES ASSUME pc \in {"default", "chain"}, NEW i \in 1..(pos - 1)
                 PROVE  SettledInCache(Chain[i])'
      BY <2>1
    <3>1. SettledInCache(Chain[i])
      BY <2>1 DEF NoWakeUpMissed
    <3>2. Chain[i] \in Children
      BY DEF TypeOK
    <3> QED BY <2>2, <3>1, <3>2
  <2> QED BY <2>3, <2>4, <2>5 DEF NoWakeUpMissed
<1>12. CASE StartPods
  BY <1>12, OthersKeepWakeUps DEF StartPods
<1>13. ASSUME NEW k \in Children, CollectGarbage(k) PROVE NoWakeUpMissed'
  BY <1>13, OthersKeepWakeUps DEF CollectGarbage
<1>14. CASE User
  BY <1>14, OthersKeepWakeUps DEF User
<1> QED BY <1>1, <1>2, <1>3, <1>4, <1>5, <1>6, <1>7, <1>8, <1>9, <1>10, <1>11,
           <1>12, <1>13, <1>14 DEF Next, Worker, Fault, Crash

(* The operator asks of every child that it exists.                        *)
LEMMA TargetExists ==
  ASSUME NEW k \in Kinds, NEW s \in Specs PROVE Target(k, s) # "absent"
BY SpecsAssumption DEF Target, Settings

(* A user's write leaves a child without an owner or with the one it had.  *)
LEMMA UserWritesCases ==
  ASSUME TypeOK, User, api' # api
  PROVE  \E k \in Children \cap (Touched \cup Foreign), o \in Objects :
           /\ api' = [api EXCEPT ![k] = o]
           /\ o.owner \in {0, api[k].owner} /\ (Exists(o) \/ o = Absent)
           /\ UNCHANGED <<cr, incarnation>> /\ userActs' = userActs - 1
<1> USE ConstantFacts
<1>1. ASSUME NEW s \in Specs, UserCreatesCR(s) \/ UserEditsCR(s) \/ UserDeletesCR
      PROVE  FALSE
  BY <1>1 DEF UserCreatesCR, UserEditsCR, UserDeletesCR, NoWrite
<1>2. ASSUME NEW k \in Children, NEW o, UserWrites(k, o)
      PROVE  api' = [api EXCEPT ![k] = o] /\ UNCHANGED <<cr, incarnation>>
  BY <1>2 DEF UserWrites, Write
<1>3. userActs' = userActs - 1
  BY DEF User
<1>4. ASSUME NEW k \in Children \cap Touched, UserEditsChild(k)
      PROVE  \E o \in Objects : /\ UserWrites(k, o) /\ o.owner \in {0, api[k].owner}
                                /\ Exists(o) \/ o = Absent
  <2>1. PICK v \in {"drifted", Target(k, cr.spec), "broken"} :
               UserWrites(k, [api[k] EXCEPT !.val = v])
    BY <1>4 DEF UserEditsChild
  <2>2. v \in Values /\ v # "absent"
    BY TargetType, TargetExists DEF TypeOK, CRs, Values
  <2>3. /\ [api[k] EXCEPT !.val = v] \in Objects
        /\ [api[k] EXCEPT !.val = v].owner = api[k].owner
        /\ Exists([api[k] EXCEPT !.val = v])
    BY <2>2 DEF TypeOK, Objects, Exists
  <2> QED BY <2>1, <2>3
<1>5. ASSUME NEW k \in Children \cap Touched, UserExtendsChild(k) \/ UserDeletesChild(k)
      PROVE  \E o \in Objects : /\ UserWrites(k, o) /\ o.owner \in {0, api[k].owner}
                                /\ Exists(o) \/ o = Absent
  <2>1. /\ [api[k] EXCEPT !.extra = TRUE] \in Objects
        /\ [api[k] EXCEPT !.extra = TRUE].owner = api[k].owner
        /\ Exists(api[k]) => Exists([api[k] EXCEPT !.extra = TRUE])
        /\ Absent.owner = 0
    BY DEF TypeOK, Objects, Exists, Absent
  <2> QED BY <1>5, <2>1 DEF UserExtendsChild, UserDeletesChild
<1>6. ASSUME NEW k \in Children \cap Foreign, UserCreatesChild(k)
      PROVE  \E o \in Objects : /\ UserWrites(k, o) /\ o.owner \in {0, api[k].owner}
                                /\ Exists(o) \/ o = Absent
  <2>1. [val |-> "drifted", owner |-> 0, extra |-> TRUE] \in Objects
    BY DEF Objects, Values
  <2> QED BY <1>6, <2>1 DEF UserCreatesChild, Exists
<1>7. Specs # {}
  BY SpecsAssumption
<1> QED BY <1>1, <1>2, <1>3, <1>4, <1>5, <1>6, <1>7 DEF User

(* Who changes the children, and what to: the pass creates a missing one,  *)
(* sets the value of one that it holds the current copy of, or deletes one;*)
(* the collector deletes, and users leave the owner out or alone.          *)
LEMMA ChildrenStep ==
  ASSUME InductiveInvariant, Next, api' # api
  PROVE  \/ /\ pc \in {"create", "update", "delete"} /\ Kid \in Children
            /\ UNCHANGED <<cr, incarnation, userActs>> /\ pc' # "delete"
            /\ \/ /\ pc = "create" /\ ~Exists(api[Kid])
                  /\ api' = [api EXCEPT ![Kid] = [val |-> Target(Kid, inst.spec),
                                                  owner |-> inst.uid, extra |-> FALSE]]
               \/ /\ pc = "update" /\ Exists(api[Kid])
                  /\ api' = [api EXCEPT ![Kid] = [api[Kid] EXCEPT !.val = Target(Kid, inst.spec)]]
               \/ /\ pc = "delete" /\ api' = [api EXCEPT ![Kid] = Absent]
         \/ \E k \in Children :
              /\ Owned(api[k]) /\ api[k].owner # cr.uid
              /\ api' = [api EXCEPT ![k] = Absent]
              /\ UNCHANGED <<cr, incarnation, userActs>>
         \/ \E k \in Children \cap (Touched \cup Foreign), o \in Objects :
              /\ api' = [api EXCEPT ![k] = o]
              /\ o.owner \in {0, api[k].owner} /\ (Exists(o) \/ o = Absent)
              /\ UNCHANGED <<cr, incarnation>> /\ userActs' = userActs - 1
<1> USE ConstantFacts DEF InductiveInvariant
<1>k. pc \in {"create", "update", "delete"} => Kid \in Children
  BY DEF TypeOK, Kid
<1>1. CASE CreateChild
  BY <1>1, <1>k DEF CreateChild, Write, NoWrite, EndPass
<1>2. CASE UpdateChild \/ (LostReply /\ UNCHANGED userActs)
  <2>1. /\ pc = "update" /\ UNCHANGED <<cr, incarnation, userActs>> /\ pc' # "delete"
        /\ foundCurrent /\ Write(Kid, [found EXCEPT !.val = Target(Kid, inst.spec)])
    BY <1>2 DEF UpdateChild, LostReply, UpdateAccepted, NoWrite, EndPass
  <2>2. found = api[Kid] /\ Exists(api[Kid])
    BY <2>1 DEF CopiesAreTrue
  <2> QED BY <1>k, <2>1, <2>2 DEF Write
<1>3. CASE DeleteChild
  BY <1>3, <1>k DEF DeleteChild, Write, NoWrite, EndPass
<1>4. ASSUME NEW k \in Children, CollectGarbage(k)
      PROVE  /\ Owned(api[k]) /\ api[k].owner # cr.uid
             /\ api' = [api EXCEPT ![k] = Absent]
             /\ UNCHANGED <<cr, incarnation, userActs>>
  BY <1>4 DEF CollectGarbage, Write
<1>5. CASE User
  BY <1>5, UserWritesCases
<1>6. ASSUME \/ StartPass \/ GetInstance \/ SetDefaultStatus \/ UpdateStatus
             \/ RestartFluentdPods \/ GetChild \/ ApiError \/ RestartFails \/ Crash
             \/ Resync \/ SyncCR \/ StartPods \/ \E k \in Children : Sync(k)
      PROVE  FALSE
  BY <1>6 DEF StartPass, GetInstance, SetDefaultStatus, UpdateStatus, RestartFluentdPods,
              GetChild, ApiError, RestartFails, Crash, Restart, Resync, SyncCR, StartPods,
              Sync, NoWrite
<1>7. CASE Fault
  <2>1. LostReply /\ UNCHANGED userActs
    BY <1>6, <1>7 DEF Fault, LostReply
  <2> QED BY <1>2, <2>1
<1>8. CASE Worker
  <2>1. CreateChild \/ UpdateChild \/ DeleteChild
    BY <1>6, <1>8 DEF Worker
  <2> QED BY <1>1, <1>2, <1>3, <2>1
<1> QED BY <1>4, <1>5, <1>6, <1>7, <1>8 DEF Next

(* The UIDs in use have been given out, and only children that the code     *)
(* replaces are ever about to be deleted.                                  *)
LEMMA LawfulStep ==
  ASSUME InductiveInvariant, Next PROVE WritesAreLawful'
<1> USE ConstantFacts DEF InductiveInvariant
<1>1. \A k \in Kinds : Exists(api'[k]) \/ api'[k] = Absent
  <2> SUFFICES ASSUME api' # api, NEW k \in Kinds PROVE Exists(api'[k]) \/ api'[k] = Absent
    BY DEF WritesAreLawful
  <2>1. Exists(api[k]) \/ api[k] = Absent
    BY DEF WritesAreLawful
  <2>2. ASSUME NEW c \in Children, NEW o, api' = [api EXCEPT ![c] = o], Exists(o) \/ o = Absent
        PROVE  Exists(api'[k]) \/ api'[k] = Absent
    BY <2>1, <2>2 DEF TypeOK
  <2>3. ASSUME Kid \in Children, NEW o, o.val = Target(Kid, inst.spec)
        PROVE  Exists(o)
    BY <2>3, TargetExists DEF Exists, TypeOK, CRs
  <2>4. CASE pc = "create" /\ Kid \in Children
             /\ api' = [api EXCEPT ![Kid] = [val |-> Target(Kid, inst.spec),
                                             owner |-> inst.uid, extra |-> FALSE]]
    BY <2>2, <2>3, <2>4
  <2>5. CASE pc = "update" /\ Kid \in Children
             /\ api' = [api EXCEPT ![Kid] = [api[Kid] EXCEPT !.val = Target(Kid, inst.spec)]]
    <3>1. [api[Kid] EXCEPT !.val = Target(Kid, inst.spec)].val = Target(Kid, inst.spec)
      BY <2>5 DEF TypeOK, Objects
    <3> QED BY <2>2, <2>3, <2>5, <3>1
  <2> QED BY <2>2, <2>4, <2>5, ChildrenStep
<1>2. \A c \in {cr', crCache', inst'} : c.uid <= incarnation'
  <2>1. CASE UNCHANGED <<cr, incarnation>>
    <3>1. inst'.uid \in {inst.uid, crCache.uid, cr.uid, 0} /\ crCache'.uid \in {crCache.uid, cr.uid}
      <4>1. CASE Worker
        BY <4>1 DEF Worker, StartPass, GetInstance, SetDefaultStatus, GetChild, CreateChild,
              UpdateChild, DeleteChild, RestartFluentdPods, UpdateStatus, EndPass, Restart,
              TypeOK, CRs
      <4>2. CASE Fault
        BY <4>2 DEF Fault, ApiError, LostReply, RestartFails, Crash, Restart, Resync, EndPass
      <4>3. CASE SyncCR \/ User \/ StartPods \/ \E k \in Children : Sync(k) \/ CollectGarbage(k)
        BY <4>3 DEF SyncCR, User, StartPods, Sync, CollectGarbage
      <4> QED BY <4>1, <4>2, <4>3 DEF Next
    <3>2. \A c \in {cr, crCache, inst} : c.uid \in Nat
      BY DEF TypeOK, CRs
    <3> QED BY <2>1, <3>1, <3>2 DEF WritesAreLawful, TypeOK
  <2>2. CASE SetDefaultStatus \/ UpdateStatus
    <3>1. UNCHANGED <<crCache, incarnation>> /\ inst'.uid \in {inst.uid, 0}
      BY <2>2 DEF SetDefaultStatus, UpdateStatus, EndPass, TypeOK, CRs
    <3>2. cr'.uid = cr.uid
      BY <2>2 DEF SetDefaultStatus, UpdateStatus, WriteCR, TypeOK, CRs
    <3> QED BY <3>1, <3>2 DEF WritesAreLawful, TypeOK, CRs
  <2>3. CASE User
    <3>1. /\ incarnation' \in Nat /\ incarnation <= incarnation'
          /\ cr'.uid \in {0, cr.uid, incarnation'}
      <4>1. ASSUME NEW s \in Specs, UserCreatesCR(s)
            PROVE  incarnation' = incarnation + 1 /\ cr'.uid = incarnation'
        BY <4>1 DEF UserCreatesCR, WriteCR
      <4>2. ASSUME NEW s \in Specs, UserEditsCR(s) \/ UserDeletesCR
            PROVE  UNCHANGED incarnation /\ cr'.uid \in {0, cr.uid}
        BY <4>2 DEF UserEditsCR, UserDeletesCR, WriteCR, TypeOK, CRs
      <4>3. ASSUME NEW k \in Children, \/ UserEditsChild(k) \/ UserExtendsChild(k)
                                       \/ UserDeletesChild(k) \/ UserCreatesChild(k)
            PROVE  UNCHANGED <<cr, incarnation>>
        BY <4>3 DEF UserEditsChild, UserExtendsChild, UserDeletesChild, UserCreatesChild,
                    UserWrites
      <4>4. Specs # {} /\ incarnation \in Nat
        BY SpecsAssumption DEF TypeOK
      <4> QED BY <2>3, <4>1, <4>2, <4>3, <4>4 DEF User
    <3>2. UNCHANGED <<crCache, inst>>
      BY <2>3 DEF User
    <3> QED BY <3>1, <3>2 DEF WritesAreLawful, TypeOK, CRs
  <2>4. UNCHANGED <<cr, incarnation>> \/ SetDefaultStatus \/ UpdateStatus \/ User
    BY DEF Next, Worker, Fault, StartPass, GetInstance, GetChild, CreateChild, UpdateChild,
           DeleteChild, RestartFluentdPods, ApiError, LostReply, RestartFails, Crash, Restart,
           Resync, SyncCR, StartPods, Sync, CollectGarbage
  <2> QED BY <2>1, <2>2, <2>3, <2>4
<1>3. pc' = "delete" => Kid' \in {"svc"} \cup SIEM
  <2> SUFFICES ASSUME pc' = "delete" PROVE Chain[pos'] \in {"svc"} \cup SIEM
    BY DEF Kid
  <2>1. CASE GetChild
    BY <2>1 DEF GetChild, Restart, Recreates, Kid
  <2>2. CASE UNCHANGED <<pc, pos>>
    BY <2>2 DEF WritesAreLawful, Kid
  <2>3. GetChild \/ UNCHANGED <<pc, pos>>
    BY DEF Next, Worker, Fault, StartPass, GetInstance, SetDefaultStatus, CreateChild,
           UpdateChild, DeleteChild, RestartFluentdPods, UpdateStatus, ApiError, LostReply,
           RestartFails, Crash, Restart, Resync, SyncCR, User, StartPods, Sync,
           CollectGarbage, EndPass
  <2> QED BY <2>1, <2>2, <2>3
<1> QED BY <1>1, <1>2, <1>3 DEF WritesAreLawful

(* The five parts together: every step keeps the inductive invariant.      *)
LEMMA InvStep == ASSUME InductiveInvariant, [Next]_vars PROVE InductiveInvariant'
<1>1. CASE Next
  BY <1>1, TypeStep, CopiesStep, OwnedStep, WakeStep, LawfulStep DEF InductiveInvariant
<1>2. CASE UNCHANGED vars
  BY <1>2, TypeStep DEF InductiveInvariant, CopiesAreTrue, ChildrenAreOwned,
                        NoWakeUpMissed, SettledInCache, WritesAreLawful, Kid, vars
<1> QED BY <1>1, <1>2

(* The invariant holds in every reachable state: the caches are what their *)
(* flags say, owned children keep an owner, and unless the key waits in the *)
(* queue, what the pass has accepted is still acceptable in the cache.     *)
THEOREM InvariantHolds == Spec => []InductiveInvariant
BY InvInit, InvStep, PTL DEF Spec

(* When the copies are current, what the cache shows is what is there.     *)
LEMMA InvSettles == InductiveInvariant => QuiescentIsSettled
<1> SUFFICES ASSUME InductiveInvariant, Quiescent, cr.uid # 0, NEW k \in Children
             PROVE  Settled(k)
  BY DEF QuiescentIsSettled
<1>1. crCache = cr /\ cache[k] = api[k]
  BY ConstantFacts DEF InductiveInvariant, CopiesAreTrue, Quiescent
<1>2. SettledInCache(k)
  BY <1>1 DEF InductiveInvariant, NoWakeUpMissed, Quiescent
<1> QED BY <1>1, <1>2 DEF SettledInCache, Settled

(* No wake-up is missed: whatever users and faults did, an operator that   *)
(* rests with no event on its way has every child it owns as the CR asks.  *)
THEOREM NoMissedWakeUp == Spec => []QuiescentIsSettled
BY InvariantHolds, InvSettles, PTL

-----------------------------------------------------------------------------
(* The order of the chain.                                                 *)

(* How api, cache and ever can change together in a step.                  *)
LEMMA HistoryStep ==
  ASSUME OrderInvariant, Next
  PROVE  /\ ever \subseteq ever'
         /\ \A k \in Kinds : Exists(api'[k]) \/ Exists(cache'[k]) => k \in ever'
         /\ \A k \in ever' \ ever :
              k \in Foreign \/ (pc \in {"create", "update"} /\ k = Kid)
<1> USE ConstantFacts DEF OrderInvariant
<1> DEFINE Goal == /\ ever \subseteq ever'
                   /\ \A k \in Kinds : Exists(api'[k]) \/ Exists(cache'[k]) => k \in ever'
                   /\ \A k \in ever' \ ever :
                        k \in Foreign \/ (pc \in {"create", "update"} /\ k = Kid)
<1>k. pos <= Len(Chain) => Kid \in Kinds
  BY DEF TypeOK, Kid
<1>1. CASE UNCHANGED <<api, cache, ever>>
  BY <1>1
<1>2. CASE Restart
  BY <1>2 DEF Restart
<1>3. ASSUME NEW k \in Kinds, NEW o, Write(k, o), UNCHANGED cache,
             Exists(o) => \/ k \in Foreign \/ Exists(api[k])
                          \/ pc \in {"create", "update"} /\ k = Kid
      PROVE  Goal
  <2>1. ever \subseteq ever' /\ ever' \subseteq ever \cup {k}
    BY <1>3 DEF Write
  <2>2. \A c \in Kinds : api'[c] = IF c = k THEN o ELSE api[c]
    BY <1>3 DEF Write, TypeOK
  <2>3. Exists(o) => k \in ever'
    BY <1>3 DEF Write
  <2>4. k \in ever' \ ever => Exists(o) /\ ~Exists(api[k])
    BY <1>3 DEF Write
  <2> QED BY <1>3, <2>1, <2>2, <2>3, <2>4
<1>a. ~Exists(Absent)
  BY DEF Exists, Absent
<1>4. CASE CreateChild
  <2>1. Kid \in Kinds
    BY <1>4, <1>k DEF CreateChild, TypeOK
  <2>2. CASE NoWrite
    BY <1>1, <1>4, <2>2 DEF CreateChild, NoWrite
  <2>3. CASE ~NoWrite
    BY <1>3, <1>4, <2>1, <2>3 DEF CreateChild
  <2> QED BY <2>2, <2>3
<1>5. CASE UpdateChild \/ LostReply
  <2>1. Kid \in Kinds
    BY <1>5, <1>k DEF UpdateChild, LostReply, TypeOK
  <2>2. CASE NoWrite
    BY <1>1, <1>5, <2>2 DEF UpdateChild, LostReply, NoWrite
  <2>3. CASE ~NoWrite
    BY <1>3, <1>5, <2>1, <2>3 DEF UpdateChild, LostReply
  <2> QED BY <2>2, <2>3
<1>6. CASE DeleteChild
  <2>1. Kid \in Kinds
    BY <1>6, <1>k DEF DeleteChild, TypeOK
  <2>2. CASE NoWrite
    BY <1>1, <1>6, <2>2 DEF DeleteChild, NoWrite
  <2>3. CASE ~NoWrite
    BY <1>3, <1>6, <1>a, <2>1, <2>3 DEF DeleteChild
  <2> QED BY <2>2, <2>3
<1>7. ASSUME NEW k \in Children, Sync(k) PROVE Goal
  BY <1>7 DEF Sync, TypeOK
<1>8. ASSUME NEW k \in Children, CollectGarbage(k) PROVE Goal
  BY <1>3, <1>8, <1>a DEF CollectGarbage
<1>9. CASE User
  <2>1. UNCHANGED cache
    BY <1>9 DEF User
  <2>2. ASSUME NEW k \in Children, NEW o \in Objects, Write(k, o),
               Exists(o) => k \in Foreign \/ Exists(api[k])
        PROVE  Goal
    BY <1>3, <2>1, <2>2
  <2> QED BY <1>1, <1>9, <2>1, <2>2, UserCases DEF NoWrite
<1>10. CASE StartPass \/ GetInstance \/ SetDefaultStatus \/ UpdateStatus \/ RestartFluentdPods
  BY <1>1, <1>10 DEF StartPass, GetInstance, SetDefaultStatus, UpdateStatus,
                     RestartFluentdPods, NoWrite
<1>11. CASE GetChild
  BY <1>1, <1>2, <1>11 DEF GetChild
<1>12. CASE ApiError \/ RestartFails \/ Resync \/ SyncCR \/ StartPods
  BY <1>1, <1>12 DEF ApiError, RestartFails, Resync, SyncCR, StartPods, NoWrite
<1> QED BY <1>2, <1>4, <1>5, <1>6, <1>7, <1>8, <1>9, <1>10, <1>11, <1>12
        DEF Next, Worker, Fault, Crash

(* The worker moves on to the next child only past one that it has seen.   *)
LEMMA PositionStep ==
  ASSUME TypeOK, Next, pc' \in {"chain", "create", "update", "delete", "restart"}
  PROVE  \/ pos' = 1
         \/ /\ pc \in {"chain", "create", "update", "delete", "restart"}
            /\ \/ pos' = pos
               \/ pos' = pos + 1 /\ pos <= Len(Chain) /\ Exists(cache[Kid])
<1>1. CASE GetInstance
  BY <1>1 DEF GetInstance, EndPass, TypeOK
<1>2. CASE SetDefaultStatus
  BY <1>2 DEF SetDefaultStatus, EndPass, TypeOK
<1>3. CASE GetChild
  BY <1>3 DEF GetChild, Restart, Accepts
<1>4. CASE UpdateChild
  BY <1>4 DEF UpdateChild, EndPass
<1>5. CASE \/ StartPass \/ CreateChild \/ DeleteChild \/ RestartFluentdPods \/ UpdateStatus
           \/ ApiError \/ LostReply \/ RestartFails \/ Crash
  <2>1. pc' \in {"idle", "get"}
    BY <1>5 DEF StartPass, CreateChild, DeleteChild, RestartFluentdPods, UpdateStatus,
                ApiError, LostReply, RestartFails, Crash, Restart, EndPass
  <2> QED BY <2>1
<1>6. (Resync \/ SyncCR \/ User \/ StartPods \/ \E k \in Children : Sync(k) \/ CollectGarbage(k))
        => UNCHANGED <<pc, pos>>
  BY DEF Resync, SyncCR, User, StartPods, Sync, CollectGarbage
<1> QED BY <1>1, <1>2, <1>3, <1>4, <1>5, <1>6 DEF Next, Worker, Fault

(* Every step keeps the order: the worker creates a child only past those it *)
(* has seen in the cache, and what has been seen has existed.              *)
LEMMA OrderStep == ASSUME OrderInvariant, [Next]_vars PROVE OrderInvariant'
<1> USE ConstantFacts
<1>1. CASE UNCHANGED vars
  BY <1>1, TypeStep DEF OrderInvariant, PrerequisitesFirst, vars
<1>2. CASE Next
  <2>1. TypeOK /\ TypeOK'
    BY TypeStep DEF OrderInvariant
  <2>2. /\ ever \subseteq ever'
        /\ \A k \in Kinds : Exists(api'[k]) \/ Exists(cache'[k]) => k \in ever'
        /\ \A k \in ever' \ ever : k \in Foreign \/ (pc \in {"create", "update"} /\ k = Kid)
    BY <1>2, HistoryStep
  <2>3. ASSUME pc' \in {"chain", "create", "update", "delete", "restart"},
               NEW i \in 1..(pos' - 1)
        PROVE  Chain[i] \in ever'
    <3>1. CASE pos' = 1
      BY <3>1
    <3>2. CASE pc \in {"chain", "create", "update", "delete", "restart"} /\ pos' = pos
      BY <2>2, <2>3, <3>2 DEF OrderInvariant
    <3>3. CASE /\ pc \in {"chain", "create", "update", "delete", "restart"}
               /\ pos' = pos + 1 /\ pos <= Len(Chain) /\ Exists(cache[Kid])
      <4>1. CASE i = pos
        BY <2>1, <2>2, <3>3, <4>1 DEF OrderInvariant, TypeOK, Kid
      <4>2. CASE i # pos
        <5>1. i \in 1..(pos - 1)
          BY <2>1, <2>3, <3>3, <4>2 DEF TypeOK
        <5> QED BY <2>2, <3>3, <5>1 DEF OrderInvariant
      <4> QED BY <4>1, <4>2
    <3> QED BY <1>2, <2>1, <2>3, <3>1, <3>2, <3>3, PositionStep
  <2>4. PrerequisitesFirst'
    <3> SUFFICES ASSUME NEW i \in 1..Len(Chain), Chain[i] \in ever', Chain[i] \notin Foreign,
                        NEW j \in 1..(i - 1)
                 PROVE  Chain[j] \in ever'
      BY DEF PrerequisitesFirst
    <3>1. CASE Chain[i] \in ever
      BY <2>2, <3>1 DEF OrderInvariant, PrerequisitesFirst
    <3>2. CASE Chain[i] \notin ever
      <4>1. pc \in {"create", "update"} /\ Chain[i] = Chain[pos]
        BY <2>2, <3>2 DEF Kid
      <4>2. pos \in 1..Len(Chain)
        BY <2>1, <4>1 DEF TypeOK
      <4>3. i = pos
        BY <4>1, <4>2, ChainAssumption
      <4> QED BY <2>2, <4>1, <4>3 DEF OrderInvariant
    <3> QED BY <3>1, <3>2
  <2> QED BY <2>1, <2>2, <2>3, <2>4 DEF OrderInvariant
<1> QED BY <1>1, <1>2

(* Everything before the worker's position in the chain has existed, and so*)
(* has what is in a cache, in every reachable state: each pass starts again*)
(* at the first child and moves on only past what it has seen.             *)
THEOREM OrderHolds == Spec => []OrderInvariant
<1>1. Init => OrderInvariant
  <2> SUFFICES ASSUME Init PROVE OrderInvariant
    OBVIOUS
  <2>1. TypeOK
    BY TypeInit
  <2> QED BY <2>1 DEF Init, OrderInvariant, PrerequisitesFirst, Exists, Absent
<1>2. OrderInvariant /\ [Next]_vars => OrderInvariant'
  BY OrderStep
<1> QED BY <1>1, <1>2, PTL DEF Spec

(* A child of the chain has existed only if every child before it has,     *)
(* unless users created it: no pass skips a child it has not seen.         *)
THEOREM OrderKept == Spec => []PrerequisitesFirst
<1>1. OrderInvariant => PrerequisitesFirst
  BY DEF OrderInvariant
<1> QED BY <1>1, OrderHolds, PTL

-----------------------------------------------------------------------------
(* What the operator's writes leave alone.                                 *)

(* One step of the worker's writes: an update replaces the value only, and a *)
(* creation finds nothing under the name.                                  *)
LEMMA WritesStep ==
  ASSUME InductiveInvariant, [Next]_vars, NEW k \in Kinds
  PROVE  /\ pc = "update" /\ pc' # pc /\ api'[k] # api[k]
              => Exists(api[k]) /\ api'[k] = [api[k] EXCEPT !.val = api'[k].val]
         /\ pc = "create" /\ pc' # pc /\ api'[k] # api[k] => ~Exists(api[k])
<1> USE ConstantFacts DEF InductiveInvariant
<1>1. CASE UNCHANGED pc
  BY <1>1
<1>2. CASE UNCHANGED api
  BY <1>2
<1>3. CASE UpdateChild \/ LostReply
  <2>1. CASE NoWrite
    BY <2>1, <1>2 DEF NoWrite
  <2>2. CASE ~NoWrite
    <3>1. /\ pc = "update" /\ foundCurrent
          /\ Write(Kid, [found EXCEPT !.val = Target(Kid, inst.spec)])
      BY <1>3, <2>2 DEF UpdateChild, LostReply, UpdateAccepted
    <3>2. Kid \in Kinds /\ found = api[Kid] /\ Exists(found)
      BY <3>1 DEF CopiesAreTrue, TypeOK, Kid
    <3>3. api' = [api EXCEPT ![Kid] = [found EXCEPT !.val = Target(Kid, inst.spec)]]
      BY <3>1 DEF Write
    <3>4. CASE k = Kid
      <4>1. api'[k] = [api[k] EXCEPT !.val = Target(Kid, inst.spec)]
        BY <3>2, <3>3, <3>4 DEF TypeOK
      <4>2. api'[k].val = Target(Kid, inst.spec)
        BY <4>1 DEF TypeOK, Objects
      <4> QED BY <3>1, <3>2, <3>4, <4>1, <4>2
    <3>5. CASE k # Kid
      BY <3>3, <3>5 DEF TypeOK
    <3> QED BY <3>4, <3>5
  <2> QED BY <2>1, <2>2
<1>4. CASE CreateChild
  <2>1. CASE NoWrite
    BY <2>1, <1>2 DEF NoWrite
  <2>2. CASE ~NoWrite
    BY <1>4, <2>2 DEF CreateChild, Write, TypeOK
  <2> QED BY <2>1, <2>2
<1>5. CASE DeleteChild
  BY <1>5 DEF DeleteChild
<1>6. CASE \/ StartPass \/ GetInstance \/ SetDefaultStatus \/ GetChild
           \/ RestartFluentdPods \/ UpdateStatus
  BY <1>2, <1>6 DEF StartPass, GetInstance, SetDefaultStatus, GetChild,
                    RestartFluentdPods, UpdateStatus, NoWrite
<1>7. CASE ApiError \/ RestartFails \/ Crash \/ Resync
  BY <1>2, <1>7 DEF ApiError, RestartFails, Crash, Restart, Resync, NoWrite
<1>8. CASE SyncCR \/ User \/ StartPods \/ \E c \in Children : Sync(c) \/ CollectGarbage(c)
  BY <1>1, <1>8 DEF SyncCR, User, StartPods, Sync, CollectGarbage
<1>9. CASE UNCHANGED vars
  BY <1>1, <1>9 DEF vars
<1> QED BY <1>3, <1>4, <1>5, <1>6, <1>7, <1>8, <1>9 DEF Next, Worker, Fault

(* No update is lost: what the operator writes over an object was decided  *)
(* on its current version, and it creates nothing over an object.          *)
THEOREM NoLostUpdate == Spec => WritesKeepUnmanagedData
<1>1. InductiveInvariant /\ [Next]_vars =>
        [\A k \in Kinds :
           /\ pc = "update" /\ pc' # pc /\ api'[k] # api[k]
                => Exists(api[k]) /\ api'[k] = [api[k] EXCEPT !.val = api'[k].val]
           /\ pc = "create" /\ pc' # pc /\ api'[k] # api[k]
                => ~Exists(api[k])]_vars
  BY WritesStep
<1> QED BY <1>1, InvariantHolds, PTL DEF Spec, WritesKeepUnmanagedData

-----------------------------------------------------------------------------
(* The refinement: every step of the controller, the users and the cluster *)
(* is one step of DesiredState or leaves its variables alone.              *)

(* The operator starts as DesiredState does: nothing exists, and the key   *)
(* waits in the queue.                                                     *)
LEMMA InitIs == Init => Promise!Init
BY ConstantFacts, BoundsAssumption DEF Init, Promise!Init, Promise!Absent, Absent, Quiescent

(* The value a pass gives a child is what the spec it works with asks of it. *)
LEMMA BuildStep ==
  ASSUME TypeOK, NEW k \in Children, NEW s \in Specs, NEW u \in 1..incarnation, api[k] = Absent,
         api' = [api EXCEPT ![k] = [val |-> Target(k, s), owner |-> u, extra |-> FALSE]],
         UNCHANGED <<cr, incarnation, userActs>>
  PROVE  Promise!Builds(k)
BY ConstantFacts DEF Promise!Builds, Promise!Becomes, Promise!Absent, Absent

(* An update of a child that is there mends its value.                     *)
LEMMA MendStep ==
  ASSUME TypeOK, NEW k \in Children, NEW s \in Specs, Exists(api[k]),
         api' = [api EXCEPT ![k] = [api[k] EXCEPT !.val = Target(k, s)]],
         UNCHANGED <<cr, incarnation, userActs>>
  PROVE  Promise!Mends(k)
<1>1. api[k] # Promise!Absent
  BY DEF Promise!Absent, Exists
<1>2. [api[k] EXCEPT !.val = Target(k, s)]
        = [val |-> Target(k, s), owner |-> api[k].owner, extra |-> api[k].extra]
  BY ConstantFacts DEF TypeOK, Objects
<1>3. Promise!Becomes(k, [val |-> Target(k, s), owner |-> api[k].owner, extra |-> api[k].extra])
  BY <1>2 DEF Promise!Becomes
<1> QED BY <1>1, <1>3 DEF Promise!Mends, Untouched

(* A pass that is about to write has the key, so the operator is not at    *)
(* rest; what it writes to a child is what DesiredState lets it write.     *)
LEMMA OperatorStep ==
  ASSUME InductiveInvariant, Next, api' # api,
         pc \in {"create", "update", "delete"}, Kid \in Children,
         UNCHANGED <<cr, incarnation, userActs>>,
         \/ /\ pc = "create" /\ ~Exists(api[Kid])
            /\ api' = [api EXCEPT ![Kid] = [val |-> Target(Kid, inst.spec),
                                            owner |-> inst.uid, extra |-> FALSE]]
         \/ /\ pc = "update" /\ Exists(api[Kid])
            /\ api' = [api EXCEPT ![Kid] = [api[Kid] EXCEPT !.val = Target(Kid, inst.spec)]]
         \/ /\ pc = "delete" /\ api' = [api EXCEPT ![Kid] = Absent]
  PROVE  Promise!Operator
<1> USE DEF InductiveInvariant
<1>1. ~Quiescent
  BY DEF Quiescent
<1>2. inst.spec \in Specs /\ Kid \in Kinds
  BY ConstantFacts DEF TypeOK, CRs
<1>3. CASE pc = "create" /\ ~Exists(api[Kid])
           /\ api' = [api EXCEPT ![Kid] = [val |-> Target(Kid, inst.spec),
                                           owner |-> inst.uid, extra |-> FALSE]]
  <2>1. api[Kid] = Absent /\ inst.uid \in 1..incarnation
    BY <1>2, <1>3 DEF WritesAreLawful, ChildrenAreOwned, TypeOK, CRs
  <2>2. Promise!Builds(Kid)
    BY <1>2, <1>3, <2>1, BuildStep
  <2> QED BY <1>1, <2>2 DEF Promise!Operator
<1>4. CASE pc = "update" /\ Exists(api[Kid])
           /\ api' = [api EXCEPT ![Kid] = [api[Kid] EXCEPT !.val = Target(Kid, inst.spec)]]
  <2>1. Promise!Mends(Kid)
    BY <1>2, <1>4, MendStep
  <2> QED BY <1>1, <2>1 DEF Promise!Operator
<1>5. CASE pc = "delete" /\ api' = [api EXCEPT ![Kid] = Absent]
  <2>1. Promise!Removes(Kid)
    BY <1>5 DEF WritesAreLawful, Promise!Removes, Promise!Becomes, Promise!Absent, Absent
  <2> QED BY <1>1, <2>1 DEF Promise!Operator
<1> QED BY <1>3, <1>4, <1>5

(* A step that leaves the children alone is a user's who writes the custom *)
(* resource, or none that DesiredState can see: what the worker writes of  *)
(* the custom resource is its status.                                      *)
LEMMA OtherStep ==
  ASSUME InductiveInvariant, InductiveInvariant', Next, api' = api
  PROVE  Promise!Idles \/ Promise!Asks
<1> USE DEF InductiveInvariant
<1>1. CASE User
  <2>1. UNCHANGED api /\ userActs' = userActs - 1 /\ cr'.spec \in Specs
    BY <1>1 DEF User, TypeOK, CRs
  <2>2. ASSUME NEW s \in Specs, UserCreatesCR(s)
        PROVE  incarnation' = incarnation + 1 /\ cr'.uid = incarnation'
    BY <2>2 DEF UserCreatesCR, WriteCR
  <2>3. ASSUME NEW s \in Specs, UserEditsCR(s) \/ UserDeletesCR
        PROVE  UNCHANGED incarnation /\ cr'.uid \in {0, cr.uid}
    BY <2>3, ConstantFacts DEF UserEditsCR, UserDeletesCR, WriteCR, TypeOK, CRs
  <2>4. ASSUME NEW k \in Children, \/ UserEditsChild(k) \/ UserExtendsChild(k)
                                   \/ UserDeletesChild(k) \/ UserCreatesChild(k)
        PROVE  UNCHANGED <<cr, incarnation>>
    BY <2>4 DEF UserEditsChild, UserExtendsChild, UserDeletesChild, UserCreatesChild,
                UserWrites
  <2>5. incarnation' \in {incarnation, incarnation + 1} /\ cr'.uid \in {0, cr.uid, incarnation'}
    BY <1>1, <2>2, <2>3, <2>4, SpecsAssumption DEF User
  <2> QED BY <2>1, <2>5 DEF Promise!Asks
<1>2. CASE SetDefaultStatus \/ UpdateStatus
  <2>1. cr'.uid = cr.uid /\ cr'.spec = cr.spec
    BY <1>2 DEF SetDefaultStatus, UpdateStatus, WriteCR, TypeOK, CRs
  <2>2. UNCHANGED <<incarnation, userActs>>
    BY <1>2 DEF SetDefaultStatus, UpdateStatus
  <2> QED BY <2>1, <2>2 DEF Promise!Idles
<1>3. UNCHANGED <<cr, incarnation, userActs>> \/ User \/ SetDefaultStatus \/ UpdateStatus
  <2>1. Worker => UNCHANGED <<cr, incarnation, userActs>> \/ SetDefaultStatus \/ UpdateStatus
    BY DEF Worker, StartPass, GetInstance, GetChild, CreateChild, UpdateChild, DeleteChild,
           RestartFluentdPods, Restart
  <2>2. Fault => UNCHANGED <<cr, incarnation, userActs>>
    BY DEF Fault, ApiError, LostReply, RestartFails, Crash, Restart, Resync
  <2> QED BY <2>1, <2>2 DEF Next, SyncCR, StartPods, Sync, CollectGarbage
<1>4. CASE UNCHANGED <<cr, incarnation, userActs>>
  BY <1>4 DEF Promise!Idles
<1> QED BY <1>1, <1>2, <1>3, <1>4

(* Where the operator rests, every child is settled in the sense of        *)
(* DesiredState: this is QuiescentIsSettled.                               *)
LEMMA RestStep ==
  ASSUME InductiveInvariant, Quiescent, cr.uid # 0
  PROVE  \A k \in Children : Promise!Settled(k)
<1> SUFFICES ASSUME NEW k \in Children PROVE Promise!Settled(k)
  OBVIOUS
<1> USE DEF InductiveInvariant
<1>1. Settled(k)
  BY InvSettles DEF QuiescentIsSettled
<1>2. api[k] \in Objects /\ (Exists(api[k]) \/ api[k] = Absent)
  BY ConstantFacts DEF TypeOK, WritesAreLawful
<1>3. CASE api[k].owner # 0
  <2>1. Exists(api[k]) /\ Matches(k, api[k].val, cr.spec)
    BY <1>1, <1>2, <1>3 DEF Settled, Owned, Absent
  <2> QED BY <1>2, <2>1 DEF Promise!Settled, Satisfying, Exists, Objects
<1>4. CASE api[k].owner = 0
  <2>1. ~(api[k] = Absent /\ k \notin Foreign)
    BY <1>1 DEF Settled, Exists, Absent
  <2> QED BY <1>4, <2>1 DEF Promise!Settled, Promise!Absent, Absent
<1> QED BY <1>3, <1>4

(* Every step of CommonAudit is a step of DesiredState.                    *)
LEMMA NextIs ==
  ASSUME InductiveInvariant, InductiveInvariant', [Next]_vars
  PROVE  [Promise!Next]_(Promise!vars)
<1>1. CASE UNCHANGED vars
  BY <1>1 DEF vars, Promise!vars, Quiescent
<1>2. CASE Next
  <2>1. Quiescent' \in BOOLEAN
    BY DEF Quiescent
  <2>2. Quiescent' /\ cr'.uid # 0 => \A k \in Children : Promise!Settled(k)'
    <3>1. (InductiveInvariant /\ Quiescent /\ cr.uid # 0 =>
             \A k \in Children : Promise!Settled(k))'
      BY RestStep, PTL
    <3> QED BY <3>1
  <2>3. CASE api' = api
    BY <1>2, <2>1, <2>2, <2>3, OtherStep DEF Promise!Next
  <2>4. CASE api' # api
    <3>1. CASE Promise!Operator
      BY <2>1, <2>2, <3>1 DEF Promise!Next
    <3>2. ASSUME NEW k \in Children, Owned(api[k]), api[k].owner # cr.uid,
                 api' = [api EXCEPT ![k] = Absent], UNCHANGED <<cr, incarnation, userActs>>
          PROVE  Promise!Next
      <4>1. Promise!Collects(k)
        BY <3>2 DEF Promise!Collects, Promise!Becomes, Promise!Absent, Absent, Owned
      <4> QED BY <2>1, <2>2, <4>1 DEF Promise!Next
    <3>3. ASSUME NEW k \in Children \cap (Touched \cup Foreign), NEW o \in Objects,
                 api' = [api EXCEPT ![k] = o], o.owner \in {0, api[k].owner},
                 UNCHANGED <<cr, incarnation>>, userActs' = userActs - 1
          PROVE  Promise!Next
      <4>1. Promise!Touches(k)
        BY <3>3, ConstantFacts DEF Promise!Touches, InductiveInvariant, TypeOK
      <4> QED BY <2>1, <2>2, <3>3, <4>1 DEF Promise!Next
    <3> QED BY <1>2, <2>4, <3>1, <3>2, <3>3, ChildrenStep, OperatorStep
  <2> QED BY <2>3, <2>4
<1> QED BY <1>1, <1>2

(* The controller implements DesiredState: whatever the caches lag behind, *)
(* passes start over, are refused or crash, seen from the API server it    *)
(* makes one change to one child at a time, to what some spec asks of it,  *)
(* leaves the owner and the additions of others alone, and rests only      *)
(* where every child is as the custom resource asks.                       *)
THEOREM Implements == Spec => ImplementsDesiredState
<1>1. Init => Promise!Init
  BY InitIs
<1>2. InductiveInvariant /\ InductiveInvariant' /\ [Next]_vars
        => [Promise!Next]_(Promise!vars)
  BY NextIs
<1> QED BY <1>1, <1>2, InvariantHolds, PTL DEF Spec, ImplementsDesiredState, Promise!Spec
==============================================================================

--------------------------- MODULE TemplatesProofs ---------------------------
(***************************************************************************)
(* Proofs about Templates, for every choice of objects and of what the CRs *)
(* can ask for.                                                            *)
(***************************************************************************)
EXTENDS Templates, SequenceTheorems, TLAPS

-----------------------------------------------------------------------------
(* The builders.                                                           *)

(* The objects are those of the chains, each of its owner's.               *)
LEMMA ChainFacts ==
  /\ \A c \in Controllers : Len(Chain[c]) \in Nat /\ DOMAIN Chain[c] = 1..Len(Chain[c])
  /\ \A c \in Controllers : \A i \in 1..Len(Chain[c]) :
       Chain[c][i] \in Objects /\ Chain[c][i] \in AllObjects /\ Owner(Chain[c][i]) = c
  /\ \A o \in Objects :
       /\ o \in AllObjects /\ Owner(o) \in Controllers /\ Chain[Owner(o)] # <<>>
       /\ \E i \in 1..Len(Chain[Owner(o)]) : o = Chain[Owner(o)][i]
<1>1. \A c \in Controllers : Len(Chain[c]) \in Nat /\ DOMAIN Chain[c] = 1..Len(Chain[c])
  BY ChainAssumption
<1>2. \A c \in Controllers : \A i \in 1..Len(Chain[c]) : Chain[c][i] \in AllObjects
  BY ChainAssumption, ElementOfSeq
<1>3. ASSUME NEW o \in Objects
      PROVE  \E c \in Controllers : \E i \in 1..Len(Chain[c]) : o = Chain[c][i] /\ Owner(o) = c
  BY <1>1, ChainAssumption DEF Objects
<1>4. \A c \in Controllers : Len(Chain[c]) # 0 => Chain[c] # <<>>
  BY ChainAssumption, EmptySeq
<1>5. ASSUME NEW o \in Objects
      PROVE  /\ o \in AllObjects /\ Owner(o) \in Controllers /\ Chain[Owner(o)] # <<>>
             /\ \E i \in 1..Len(Chain[Owner(o)]) : o = Chain[Owner(o)][i]
  BY <1>1, <1>2, <1>3, <1>4
<1> QED BY <1>1, <1>2, <1>5, ChainAssumption DEF Objects

(* The objects of each kind have the same fields whatever the CR asks for. *)
LEMMA BuildFields ==
  ASSUME NEW o \in AllObjects, NEW c \in AllConfs
  PROVE  /\ DOMAIN Build(o, c) = FieldsOf(o)
         /\ o \in Fluentd => Shared \subseteq FieldsOf(o)
<1> USE DEF Build, FieldsOf, BuildDeploymentForFluentd, BuildDaemonForFluentd,
            BuildDeploymentForPolicyController, BuildCertsForAuditLogging, BuildAuditService,
            BuildSecret, Shared
<1>1. CASE o = "deployment"
  BY <1>1
<1>2. CASE o = "daemonset"
  BY <1>2
<1>3. CASE o = "policy"
  BY <1>3 DEF Fluentd
<1>4. CASE o = "certificate"
  BY <1>4 DEF Fluentd
<1>5. CASE o = "service"
  BY <1>5 DEF Fluentd
<1>6. CASE o = "secret"
  BY <1>6 DEF Fluentd
<1> QED BY <1>1, <1>2, <1>3, <1>4, <1>5, <1>6 DEF AllObjects, Workloads, Fluentd

(* Each field is built with a value of its own: the pull policy is one that *)
(* Kubernetes knows, limits and requests are given.                         *)
LEMMA BuildType ==
  ASSUME NEW o \in AllObjects, NEW c \in AllConfs, NEW f \in FieldsOf(o)
  PROVE  Build(o, c)[f] \in Values(f) /\ Stored(f, Build(o, c)[f]) \in Values(f)
<1>1. f \in DOMAIN Build(o, c)
  BY BuildFields
<1>2. getPullPolicy(c.pull) \in {"Always", "Never", "IfNotPresent"}
  BY DEF getPullPolicy
<1>3. buildResources(c.resources) \in (0..9) \X (0..9)
  <2>1. c.resources \in (0..9) \X (0..9)
    BY DEF AllConfs
  <2>2. c.resources[1] \in 0..9 /\ c.resources[2] \in 0..9
    BY <2>1
  <2>3. DefaultResources[1] \in 0..9 /\ DefaultResources[2] \in 0..9
    BY DEF DefaultResources
  <2>4. Default(1, c.resources[1]) \in 0..9 /\ Default(2, c.resources[2]) \in 0..9
    BY <2>2, <2>3 DEF Default
  <2> QED BY <2>4 DEF buildResources
<1>4. (IF c.replicas > 0 THEN c.replicas ELSE 1) \in 0..9 /\ 1 \in 0..9
  <2>1. c.replicas \in 0..9
    BY DEF AllConfs
  <2> QED BY <2>1
<1>5. HostAliases(c.aliases) \in {"nil", "valid", "empty"}
  BY DEF AllConfs, HostAliases
<1>6. c.rest \in {"a", "b"}
  BY DEF AllConfs
<1>7. Build(o, c)[f] \in Values(f)
  <2>1. CASE o = "deployment"
    BY <1>1, <1>2, <1>3, <1>4, <1>5, <2>1
    DEF Build, BuildDeploymentForFluentd, Values, Workloads, Fluentd
  <2>2. CASE o = "daemonset"
    BY <1>1, <1>2, <1>3, <2>2 DEF Build, BuildDaemonForFluentd, Values, Workloads, Fluentd
  <2>3. CASE o = "policy"
    BY <1>1, <1>2, <1>4, <1>6, <2>3 DEF Build, BuildDeploymentForPolicyController, Values
  <2>4. CASE o \in {"certificate", "service", "secret"}
    BY <1>1, <1>6, <2>4 DEF Build, BuildCertsForAuditLogging, BuildAuditService, BuildSecret, Values
  <2> QED BY <2>1, <2>2, <2>3, <2>4 DEF AllObjects, Workloads, Fluentd
<1>8. Stored(f, Build(o, c)[f]) \in Values(f)
  BY <1>7 DEF Stored, Values
<1> QED BY <1>7, <1>8

(* What the API server has stored it would store again.                    *)
LEMMA StoredTwice ==
  ASSUME NEW f, NEW v PROVE Stored(f, Stored(f, v)) = Stored(f, v)
BY DEF Stored

(* The API server stores a value of a field as another value of that field. *)
LEMMA StoredType ==
  ASSUME NEW f, NEW v \in Values(f) PROVE Stored(f, v) \in Values(f)
BY DEF Stored, Values

(* What the API server stores of an object with the right fields.          *)
LEMMA StoredObject ==
  ASSUME NEW o, NEW r, \A f \in FieldsOf(o) : r[f] \in Values(f)
  PROVE  IsStored(o, [f \in FieldsOf(o) |-> Stored(f, r[f])])
BY StoredType, StoredTwice DEF IsStored

(* The CRs, and the values that stand for an object that is not there.     *)
LEMMA ConfFacts ==
  /\ Confs \subseteq AllConfs /\ AnyConf \in Confs /\ AnyConf \in AllConfs
  /\ \A o \in AllObjects : IsStored(o, Blank(o))
  /\ IsContainer(Fresh)
<1>1. Confs \subseteq AllConfs /\ AnyConf \in Confs /\ AnyConf \in AllConfs
  BY ConfsAssumption DEF AnyConf
<1>2. ASSUME NEW o \in AllObjects PROVE IsStored(o, Blank(o))
  BY <1>1, BuildType, StoredObject DEF Blank
<1>3. ASSUME NEW f \in Shared
      PROVE  BuildDaemonForFluentd(AnyConf)[f] \in Values(f)
  <2>1. "daemonset" \in AllObjects /\ "daemonset" \in Fluentd
    BY DEF AllObjects, Workloads, Fluentd
  <2>2. f \in FieldsOf("daemonset")
    BY <1>1, <2>1, BuildFields
  <2>3. Build("daemonset", AnyConf) = BuildDaemonForFluentd(AnyConf)
    BY DEF Build
  <2> QED BY <1>1, <2>1, <2>2, <2>3, BuildType
<1> QED BY <1>1, <1>2, <1>3 DEF Fresh, IsContainer

(* The object that a pass is at belongs to its controller.                 *)
LEMMA ObjectFacts ==
  ASSUME TypeOK, NEW c \in Controllers, at[c].pos # 0
  PROVE  /\ at[c].pos \in 1..Len(Chain[c]) /\ Chain[c] # <<>>
         /\ Object(c) \in Objects /\ Object(c) \in AllObjects /\ Owner(Object(c)) = c
         /\ inst[c] \in AllConfs
<1>1. at[c].pos \in Nat /\ at[c].pos <= Len(Chain[c])
  BY DEF TypeOK
<1>2. at[c].pos \in 1..Len(Chain[c])
  BY <1>1, ChainFacts
<1>3. inst[c] \in AllConfs
  BY ConfFacts DEF TypeOK
<1> QED BY <1>2, <1>3, ChainFacts DEF Object

(* What is expected of an object has values for its fields.                *)
LEMMA ExpectedType ==
  ASSUME TypeOK, NEW c \in Controllers, at[c].pos # 0
  PROVE  \A f \in FieldsOf(Object(c)) : Expected(c)[f] \in Values(f)
<1>1. Object(c) \in AllObjects /\ inst[c] \in AllConfs
  BY ObjectFacts
<1>2. \A f \in Shared : built[c][f] \in Values(f)
  BY DEF TypeOK, IsContainer
<1> QED BY <1>1, <1>2, BuildType DEF Expected

-----------------------------------------------------------------------------
(* Type correctness.                                                       *)

(* The state the operator starts in is well typed.                         *)
LEMMA TypeInit == Init => TypeOK
<1> SUFFICES ASSUME Init PROVE TypeOK
  OBVIOUS
<1>1. DOMAIN obj = Objects /\ \A o \in Objects : IsStored(o, obj[o])
  BY ConfFacts, ChainFacts DEF Init
<1>2. at \in [Controllers -> [pos : Nat, step : {"assign", "copy", "compare"}, n : 1..3]]
  BY DEF Init, Idle
<1>3. \A c \in Controllers : at[c].pos <= Len(Chain[c]) /\ at[c] = Idle
  BY ChainFacts DEF Init, Idle
<1>4. userActs \in 0..MaxUserActs
  BY BoundsAssumption DEF Init
<1>5. queued \in [Controllers -> BOOLEAN] /\ \A c \in Controllers : queued[c] => Chain[c] # <<>>
  BY DEF Init
<1>6. IsContainer(shared) /\ DOMAIN built = Controllers /\ \A c \in Controllers : IsContainer(built[c])
  BY ConfFacts DEF Init
<1>7. \A c \in Controllers : at[c].step = "compare"
  BY DEF Init, Idle
<1>8. present \subseteq Objects /\ lost \subseteq Objects
  BY DEF Init
<1> QED BY <1>1, <1>2, <1>3, <1>4, <1>5, <1>6, <1>7, <1>8 DEF Init, TypeOK

(* Where the workers are.                                                  *)
AtOK ==
  /\ at \in [Controllers -> [pos : Nat, step : {"assign", "copy", "compare"}, n : 1..3]]
  /\ \A c \in Controllers :
       /\ at[c].pos <= Len(Chain[c])
       /\ at[c].pos = 0 => at[c] = Idle
       /\ at[c].step # "compare" => Chain[c][at[c].pos] \in Fluentd

(* A worker that goes on stays in its chain, and assigns and copies for an *)
(* object that has the container.                                          *)
LEMMA AtType ==
  ASSUME TypeOK, NEW c \in Controllers, NEW p \in 1..Len(Chain[c]),
         NEW s \in {"assign", "copy", "compare"}, NEW n \in 1..3, GoTo(c, p, s, n),
         s # "compare" => Chain[c][p] \in Fluentd
  PROVE  AtOK'
<1>1. p \in Nat /\ p <= Len(Chain[c]) /\ p # 0
  BY ChainFacts
<1> DEFINE r == [pos |-> p, step |-> s, n |-> n]
<1>2. r \in [pos : Nat, step : {"assign", "copy", "compare"}, n : 1..3]
  BY <1>1
<1>3. /\ r.pos <= Len(Chain[c]) /\ r.pos # 0
      /\ r.step # "compare" => Chain[c][r.pos] \in Fluentd
  BY <1>1
<1>4. at' = [at EXCEPT ![c] = r]
  BY DEF GoTo
<1> HIDE DEF r
<1> QED BY <1>2, <1>3, <1>4 DEF TypeOK, AtOK

(* The same for the next object, which the worker begins to visit.         *)
LEMMA VisitType ==
  ASSUME TypeOK, NEW c \in Controllers, NEW p \in 1..Len(Chain[c]), Visit(c, p)
  PROVE  AtOK'
BY AtType DEF Visit

(* A pass that ends may leave its key in the queue, of a chain it has.     *)
LEMMA EndPassType ==
  ASSUME TypeOK, NEW c \in Controllers, NEW b \in BOOLEAN, EndPass(c, b), Chain[c] # <<>>
  PROVE  /\ AtOK' /\ queued' \in [Controllers -> BOOLEAN]
         /\ \A d \in Controllers : queued'[d] => Chain[d] # <<>>
<1>1. /\ Idle \in [pos : Nat, step : {"assign", "copy", "compare"}, n : 1..3]
      /\ Idle.pos = 0 /\ Idle.step = "compare"
  BY DEF Idle
<1>2. \A d \in Controllers : Len(Chain[d]) \in Nat
  BY ChainFacts
<1>3. AtOK'
  BY <1>1, <1>2 DEF EndPass, TypeOK, AtOK
<1>4. /\ queued' \in [Controllers -> BOOLEAN]
      /\ \A d \in Controllers : queued'[d] => Chain[d] # <<>>
  BY DEF EndPass, TypeOK
<1> QED BY <1>3, <1>4

(* A pass begins at the first object of a chain that has one.              *)
LEMMA TypeStart ==
  ASSUME TypeOK, NEW c \in Controllers, StartPass(c) PROVE TypeOK'
<1>1. queued[c] /\ Visit(c, 1)
  BY DEF StartPass
<1>2. 1 \in 1..Len(Chain[c])
  <2>1. Len(Chain[c]) \in Nat /\ Len(Chain[c]) # 0
    BY <1>1, ChainAssumption, EmptySeq DEF TypeOK
  <2> QED BY <2>1
<1>3. inst' \in [Controllers -> Confs]
  BY DEF StartPass, TypeOK
<1>4. queued' \in [Controllers -> BOOLEAN] /\ \A d \in Controllers : queued'[d] => Chain[d] # <<>>
  BY DEF StartPass, TypeOK
<1> QED BY <1>1, <1>2, <1>3, <1>4, VisitType DEF StartPass, TypeOK, AtOK, objects

(* The fields that are assigned and copied get values of theirs.           *)
LEMMA TypeFields ==
  ASSUME TypeOK, NEW c \in Controllers, AssignField(c) \/ CopyField(c) PROVE TypeOK'
<1>1. /\ at[c].pos # 0 /\ at[c].n \in 1..3 /\ (at[c].n < 3 => at[c].n + 1 \in 1..3)
      /\ at[c].step # "compare"
  BY DEF AssignField, CopyField, TypeOK
<1>2. /\ at[c].pos \in 1..Len(Chain[c])
      /\ Object(c) \in AllObjects /\ inst[c] \in AllConfs /\ Object(c) \in Fluentd
  BY <1>1, ObjectFacts DEF TypeOK, Object
<1>3. Assigned[at[c].n] \in Shared /\ Declared[at[c].n] \in Shared
  BY <1>1 DEF Assigned, Declared, Shared
<1>4. Len(Assigned) = 3 /\ Len(Declared) = 3
  BY DEF Assigned, Declared
<1>5. AtOK'
  <2>1. PICK s \in {"assign", "copy", "compare"}, n \in 1..3 : GoTo(c, at[c].pos, s, n)
    BY <1>1, <1>4 DEF AssignField, CopyField
  <2> QED BY <1>2, <2>1, AtType DEF Object
<1>6. CASE AssignField(c)
  <2>1. PICK f \in Shared : shared' = [shared EXCEPT ![f] = Build(Object(c), inst[c])[f]]
    BY <1>3, <1>6 DEF AssignField
  <2>2. Build(Object(c), inst[c])[f] \in Values(f)
    BY <1>2, BuildFields, BuildType
  <2>3. IsContainer(shared')
    BY <2>1, <2>2 DEF TypeOK, IsContainer
  <2> QED BY <1>5, <1>6, <2>3 DEF AssignField, TypeOK, AtOK, objects
<1>7. CASE CopyField(c)
  <2>1. PICK f \in Shared : built' = [built EXCEPT ![c][f] = shared[f]]
    BY <1>3, <1>7 DEF CopyField
  <2>2. DOMAIN built' = Controllers /\ \A d \in Controllers : IsContainer(built'[d])
    BY <2>1 DEF TypeOK, IsContainer
  <2> QED BY <1>5, <1>7, <2>2 DEF CopyField, TypeOK, AtOK, objects
<1> QED BY <1>6, <1>7

(* A write stores what is expected, as far as the update does not keep what *)
(* it found.                                                               *)
LEMMA TypeWrite ==
  ASSUME TypeOK, NEW c \in Controllers, Create(c) \/ Update(c) \/ Delete(c) PROVE TypeOK'
<1> DEFINE o == Object(c)
<1>1. at[c].pos # 0 /\ EndPass(c, TRUE) /\ UNCHANGED <<conf, shared, inst, built, userActs>>
  BY DEF Create, Update, Delete, Writing, Comparing
<1>2. o \in Objects /\ o \in AllObjects /\ Chain[c] # <<>>
  BY <1>1, ObjectFacts
<1>3. /\ AtOK' /\ queued' \in [Controllers -> BOOLEAN]
      /\ \A d \in Controllers : queued'[d] => Chain[d] # <<>>
  BY <1>1, <1>2, EndPassType
<1>4. \A f \in FieldsOf(o) : Expected(c)[f] \in Values(f)
  BY <1>1, ExpectedType
<1>5. IsStored(o, obj[o]) /\ IsStored(o, Blank(o))
  BY <1>2, ConfFacts DEF TypeOK
<1>6. /\ present' \subseteq Objects /\ lost' \subseteq Objects
      /\ \/ obj' = obj
         \/ \E r : IsStored(o, r) /\ obj' = [obj EXCEPT ![o] = r]
  <2>1. CASE Create(c)
    <3>1. IsStored(o, [f \in FieldsOf(o) |-> Stored(f, Expected(c)[f])])
      BY <1>4, StoredObject
    <3> QED BY <1>2, <2>1, <3>1 DEF Create, Stores, objects, TypeOK
  <2>2. CASE Update(c)
    <3> DEFINE v == [f \in FieldsOf(o) |-> IF f \in Kept(o) THEN obj[o][f] ELSE Expected(c)[f]]
    <3>1. \A f \in FieldsOf(o) : v[f] \in Values(f)
      BY <1>4, <1>5 DEF IsStored
    <3>2. IsStored(o, [f \in FieldsOf(o) |-> Stored(f, v[f])])
      <4> HIDE DEF v
      <4> QED BY <3>1, StoredObject
    <3> QED BY <2>2, <3>2 DEF Update, Stores, TypeOK
  <2>3. CASE Delete(c)
    BY <1>5, <2>3 DEF Delete, TypeOK
  <2> QED BY <2>1, <2>2, <2>3
<1>7. DOMAIN obj' = Objects /\ \A p \in Objects : IsStored(p, obj'[p])
  <2> HIDE DEF o
  <2> QED BY <1>2, <1>6 DEF TypeOK
<1> QED BY <1>1, <1>3, <1>6, <1>7 DEF TypeOK, AtOK

(* Each step of a pass keeps the state well typed.                         *)
LEMMA TypeWorker ==
  ASSUME TypeOK, NEW c \in Controllers, Worker(c) PROVE TypeOK'
<1>1. CASE Accept(c)
  <2>1. at[c].pos \in 1..Len(Chain[c]) /\ Chain[c] # <<>>
    BY <1>1, ObjectFacts DEF Accept, Comparing
  <2>2. CASE at[c].pos < Len(Chain[c])
    <3>1. at[c].pos + 1 \in 1..Len(Chain[c])
      BY <2>1, <2>2, ChainFacts
    <3>2. AtOK' /\ UNCHANGED queued
      BY <1>1, <2>2, <3>1, VisitType DEF Accept
    <3> QED BY <1>1, <3>2 DEF Accept, TypeOK, AtOK, objects
  <2>3. CASE ~(at[c].pos < Len(Chain[c]))
    <3>1. EndPass(c, FALSE)
      BY <1>1, <2>3 DEF Accept
    <3>2. AtOK' /\ queued' \in [Controllers -> BOOLEAN]
          /\ \A d \in Controllers : queued'[d] => Chain[d] # <<>>
      BY <2>1, <3>1, EndPassType
    <3> QED BY <1>1, <3>2 DEF Accept, TypeOK, AtOK, objects
  <2> QED BY <2>2, <2>3
<1> QED BY <1>1, TypeStart, TypeFields, TypeWrite DEF Worker

(* Users write values that the fields can have.                            *)
LEMMA TypeUser == ASSUME TypeOK, User PROVE TypeOK'
<1>1. userActs' \in 0..MaxUserActs
  <2>1. userActs \in 0..MaxUserActs /\ userActs > 0 /\ userActs' = userActs - 1
    BY DEF User, TypeOK
  <2> QED BY <2>1, BoundsAssumption
<1>2. ASSUME NEW c \in Controllers, Chain[c] # <<>>, UserEditsCR(c)
      PROVE  TypeOK'
  <2>1. conf' \in [Controllers -> Confs]
    BY <1>2 DEF UserEditsCR, TypeOK
  <2>2. queued' \in [Controllers -> BOOLEAN] /\ \A d \in Controllers : queued'[d] => Chain[d] # <<>>
    BY <1>2 DEF UserEditsCR, TypeOK
  <2> QED BY <1>1, <1>2, <2>1, <2>2 DEF UserEditsCR, User, TypeOK, objects
<1>3. ASSUME NEW o \in Objects, UserTouches(o)
      PROVE  TypeOK'
  <2>1. o \in AllObjects /\ Owner(o) \in Controllers /\ Chain[Owner(o)] # <<>>
    BY ChainFacts
  <2>2. queued' \in [Controllers -> BOOLEAN] /\ \A d \in Controllers : queued'[d] => Chain[d] # <<>>
    BY <1>3, <2>1 DEF UserTouches, TypeOK
  <2>3. present' \subseteq Objects /\ lost' \subseteq Objects /\ UNCHANGED conf
    BY <1>3 DEF UserTouches, TypeOK
  <2>4. DOMAIN obj' = Objects /\ \A p \in Objects : IsStored(p, obj'[p])
    <3>1. CASE UNCHANGED obj
      BY <3>1 DEF TypeOK
    <3>2. CASE obj' = [obj EXCEPT ![o] = Blank(o)]
      BY <2>1, <3>2, ConfFacts DEF TypeOK
    <3>3. ASSUME NEW f \in FieldsOf(o), obj' = [obj EXCEPT ![o][f] = Edited(f)]
          PROVE  DOMAIN obj' = Objects /\ \A p \in Objects : IsStored(p, obj'[p])
      <4>1. Edited(f) \in Values(f) /\ Edited(f) = Stored(f, Edited(f))
        BY DEF Edited, Values, Stored
      <4>2. IsStored(o, [obj[o] EXCEPT ![f] = Edited(f)])
        BY <4>1 DEF TypeOK, IsStored
      <4>3. obj' = [obj EXCEPT ![o] = [obj[o] EXCEPT ![f] = Edited(f)]]
        BY <3>3
      <4> QED BY <4>2, <4>3 DEF TypeOK
    <3> QED BY <1>3, <3>1, <3>2, <3>3 DEF UserTouches
  <2> QED BY <1>1, <2>2, <2>3, <2>4 DEF User, TypeOK
<1> QED BY <1>2, <1>3 DEF User

(* Every step keeps the state well typed.                                  *)
LEMMA TypeStep == ASSUME TypeOK, [Next]_vars PROVE TypeOK'
<1>1. CASE UNCHANGED vars
  BY <1>1 DEF vars, objects, TypeOK
<1> QED BY <1>1, TypeWorker, TypeUser DEF Next

(* Every field keeps a value that it can have, also when the passes of the *)
(* two controllers overlap: the shared container may mix what two CRs ask  *)
(* for, but never holds a pull policy that Kubernetes does not know or an  *)
(* omitted resource.                                                       *)
THEOREM TypeCorrect == Spec => []TypeOK
<1>1. TypeOK /\ [Next]_vars => TypeOK'
  BY TypeStep
<1> QED BY <1>1, TypeInit, PTL DEF Spec

-----------------------------------------------------------------------------
(* Rest means that the objects are right, when passes do not overlap.      *)

(* An object that is neither touched nor comes or goes.                    *)
SameObject(o) ==
  obj'[o] = obj[o] /\ (o \in present' <=> o \in present) /\ (o \in lost' <=> o \in lost)

(* It is as right as before if the CR was not touched either.              *)
LEMMA OwnFrame ==
  ASSUME NEW o \in Objects, SameObject(o), conf'[Owner(o)] = conf[Owner(o)]
  PROVE  OwnIfWatched(o)' <=> OwnIfWatched(o)
BY DEF SameObject, OwnIfWatched, Watched, IsOwn

(* A controller whose key went into the queue has nothing to show; nothing *)
(* changes for the other.                                                  *)
LEMMA Undisturbed ==
  ASSUME TypeOK, PassIsCurrent, SettledIsOwn, NEW c \in Controllers, queued'[c],
         \A d \in Controllers \ {c} :
           /\ conf'[d] = conf[d] /\ queued'[d] = queued[d]
           /\ at'[d] = at[d] /\ inst'[d] = inst[d],
         \A o \in Objects : Owner(o) # c => SameObject(o)
  PROVE  PassIsCurrent' /\ SettledIsOwn'
<1>1. ASSUME NEW o \in Objects, Owner(o) # c
      PROVE  OwnIfWatched(o)' <=> OwnIfWatched(o)
  BY <1>1, ChainFacts, OwnFrame
<1>2. ASSUME NEW d \in Controllers, at'[d] # Idle, ~queued'[d]
      PROVE  inst'[d] = conf'[d] /\ \A i \in 1..(at'[d].pos - 1) : OwnIfWatched(Chain[d][i])'
  <2>1. d \in Controllers \ {c} /\ at[d] # Idle /\ ~queued[d] /\ at'[d] = at[d]
    BY <1>2
  <2>2. inst[d] = conf[d] /\ \A i \in 1..(at[d].pos - 1) : OwnIfWatched(Chain[d][i])
    BY <2>1 DEF PassIsCurrent
  <2>3. ASSUME NEW i \in 1..(at[d].pos - 1)
        PROVE  Chain[d][i] \in Objects /\ Owner(Chain[d][i]) # c
    <3>1. at[d].pos \in Nat /\ at[d].pos <= Len(Chain[d])
      BY DEF TypeOK
    <3>2. i \in 1..Len(Chain[d])
      BY <3>1, ChainFacts
    <3> QED BY <2>1, <3>2, ChainFacts
  <2>4. \A i \in 1..(at[d].pos - 1) : OwnIfWatched(Chain[d][i])'
    BY <1>1, <2>2, <2>3
  <2> QED BY <2>1, <2>2, <2>4
<1>3. ASSUME NEW o \in Objects, Resting(Owner(o))'
      PROVE  OwnIfWatched(o)'
  <2>1. Owner(o) \in Controllers \ {c}
    BY <1>3, ChainFacts DEF Resting
  <2>2. Resting(Owner(o))
    BY <1>3, <2>1 DEF Resting
  <2> QED BY <1>1, <2>1, <2>2 DEF SettledIsOwn
<1> QED BY <1>2, <1>3 DEF PassIsCurrent, SettledIsOwn

(* While a pass is under way the other controller is idle, and stays so.   *)
LEMMA OtherIdle ==
  ASSUME TypeOK, OnePass, NEW c \in Controllers, at[c].pos # 0,
         NEW r, at' = [at EXCEPT ![c] = r]
  PROVE  /\ OnePass' /\ at'[c] = r
         /\ \A d \in Controllers \ {c} : at[d] = Idle /\ at'[d] = Idle
<1>1. at[c] # Idle
  BY DEF Idle
<1>2. \A d \in Controllers \ {c} : at[d] = Idle
  BY <1>1 DEF OnePass
<1>3. DOMAIN at = Controllers
  BY DEF TypeOK
<1> QED BY <1>2, <1>3 DEF OnePass

(* A pass starts when no other is under way, with what the CR asks for.    *)
LEMMA StartInv ==
  ASSUME InductiveInvariant, ~Overlap, NEW c \in Controllers, StartPass(c)
  PROVE  InductiveInvariant'
<1> DEFINE s == IF Chain[c][1] \in Fluentd THEN "assign" ELSE "compare"
           r == [pos |-> 1, step |-> s, n |-> 1]
<1>1. TypeOK /\ TypeOK'
  BY TypeStart DEF InductiveInvariant
<1>2. /\ \A d \in Controllers : at[d] = Idle
      /\ at' = [at EXCEPT ![c] = r] /\ DOMAIN at = Controllers
  BY <1>1 DEF StartPass, Visit, GoTo, TypeOK
<1>3. at'[c] = r /\ \A d \in Controllers \ {c} : at'[d] = Idle
  BY <1>2
<1>4. r # Idle /\ r.pos = 1 /\ r.step = s /\ r.n = 1 /\ 1..(1 - 1) = {}
  BY DEF Idle
<1> HIDE DEF r
<1>5. OnePass'
  BY <1>3 DEF OnePass
<1>6. BuiltIsOwn'
  <2>1. Object(c)' = Chain[c][1]
    BY <1>3, <1>4 DEF Object
  <2>2. s # "copy" /\ (s = "compare" => ~(Object(c)' \in Fluentd))
    BY <2>1
  <2> QED BY <1>3, <1>4, <2>2 DEF BuiltIsOwn
<1>7. PassIsCurrent'
  <2>1. inst'[c] = conf'[c]
    BY <1>1 DEF StartPass, TypeOK
  <2> QED BY <1>3, <1>4, <2>1 DEF PassIsCurrent
<1>8. SettledIsOwn'
  <2> SUFFICES ASSUME NEW o \in Objects, Resting(Owner(o))'
               PROVE  OwnIfWatched(o)'
    BY DEF SettledIsOwn
  <2>1. Owner(o) # c /\ Owner(o) \in Controllers
    BY <1>3, <1>4, ChainFacts DEF Resting
  <2>2. Resting(Owner(o))
    BY <1>1, <1>2, <2>1 DEF Resting, StartPass, TypeOK
  <2>3. OwnIfWatched(o)
    BY <2>2 DEF InductiveInvariant, SettledIsOwn
  <2> QED BY <2>3, OwnFrame DEF StartPass, objects, SameObject
<1> QED BY <1>1, <1>5, <1>6, <1>7, <1>8 DEF InductiveInvariant

(* What the pass of c knows of the objects it has accepted does not depend *)
(* on how far it is with building the next one.                            *)
LEMMA BuildingFrame ==
  ASSUME TypeOK, OnePass, PassIsCurrent, SettledIsOwn, NEW c \in Controllers,
         at[c].pos # 0, NEW s, NEW n, GoTo(c, at[c].pos, s, n),
         UNCHANGED <<conf, objects, queued, inst>>
  PROVE  /\ OnePass' /\ PassIsCurrent' /\ SettledIsOwn'
         /\ at'[c] = [pos |-> at[c].pos, step |-> s, n |-> n] /\ Object(c)' = Object(c)
         /\ \A d \in Controllers \ {c} : at'[d] = Idle
<1> DEFINE r == [pos |-> at[c].pos, step |-> s, n |-> n]
<1>1. at' = [at EXCEPT ![c] = r] /\ r.pos = at[c].pos /\ r # Idle /\ at[c] # Idle
  BY DEF GoTo, Idle
<1> HIDE DEF r
<1>2. /\ OnePass' /\ at'[c] = r
      /\ \A d \in Controllers \ {c} : at[d] = Idle /\ at'[d] = Idle
  BY <1>1, OtherIdle
<1>3. \A o : OwnIfWatched(o)' <=> OwnIfWatched(o)
  BY DEF OwnIfWatched, Watched, IsOwn, objects
<1>4. PassIsCurrent'
  BY <1>1, <1>2, <1>3 DEF PassIsCurrent
<1>5. SettledIsOwn'
  <2> SUFFICES ASSUME NEW o \in Objects, Resting(Owner(o))'
               PROVE  OwnIfWatched(o)'
    BY DEF SettledIsOwn
  <2>1. Resting(Owner(o))
    BY <1>1, <1>2, ChainFacts DEF Resting
  <2> QED BY <1>3, <2>1 DEF SettledIsOwn
<1>6. Object(c)' = Object(c)
  BY <1>1, <1>2 DEF Object
<1> QED BY <1>2, <1>4, <1>5, <1>6 DEF r

(* The assignments are of what the object asks for, one after the other,   *)
(* and the last one completes the container.                               *)
LEMMA AssignInv ==
  ASSUME InductiveInvariant, NEW c \in Controllers, AssignField(c)
  PROVE  InductiveInvariant'
<1> DEFINE n == at[c].n
<1>1. /\ TypeOK /\ TypeOK' /\ at[c].pos # 0 /\ n \in 1..3 /\ Len(Assigned) = 3
      /\ at[c].step = "assign" /\ at[c] # Idle
  <2>1. TypeOK /\ TypeOK' /\ at[c].pos # 0 /\ at[c].step = "assign"
    BY TypeFields DEF InductiveInvariant, AssignField
  <2>2. n \in 1..3 /\ at[c] # Idle
    BY <2>1 DEF TypeOK, Idle
  <2> QED BY <2>1, <2>2 DEF Assigned
<1>2. PICK s \in {"assign", "copy"}, m \in Nat :
        /\ GoTo(c, at[c].pos, s, m)
        /\ s = "assign" => m = n + 1 /\ n < 3
        /\ s = "copy" => m = 1 /\ n = 3
  BY <1>1 DEF AssignField
<1>3. /\ OnePass' /\ PassIsCurrent' /\ SettledIsOwn'
      /\ at'[c] = [pos |-> at[c].pos, step |-> s, n |-> m] /\ Object(c)' = Object(c)
      /\ \A d \in Controllers \ {c} : at'[d] = Idle
  BY <1>1, <1>2, BuildingFrame DEF InductiveInvariant, AssignField
<1>4. \A f : Own(c, f)' = Own(c, f)
  BY <1>3 DEF Own, AssignField
<1>5. \A i \in 1..n : shared'[Assigned[i]] = Own(c, Assigned[i])
  <2>1. DOMAIN shared = Shared /\ \A i \in 1..3 : Assigned[i] \in Shared
    BY <1>1 DEF TypeOK, IsContainer, Assigned, Shared
  <2>2. shared' = [shared EXCEPT ![Assigned[n]] = Own(c, Assigned[n])]
    BY DEF AssignField, Own
  <2>3. \A i \in 1..(n - 1) : shared[Assigned[i]] = Own(c, Assigned[i])
    BY <1>1 DEF InductiveInvariant, BuiltIsOwn
  <2> QED BY <1>1, <2>1, <2>2, <2>3
<1>6. s = "copy" => \A f \in Shared : shared'[f] = Own(c, f)
  <2>1. \A f \in Shared : \E i \in 1..3 : f = Assigned[i]
    BY DEF Shared, Assigned
  <2> QED BY <1>2, <1>5, <2>1
<1>7. BuiltIsOwn'
  <2>1. s = "assign" => \A i \in 1..(m - 1) : shared'[Assigned[i]] = Own(c, Assigned[i])
    BY <1>1, <1>2, <1>5
  <2>2. s = "copy" => 1..(m - 1) = {}
    BY <1>2
  <2>3. at'[c].step = s /\ at'[c].n = m /\ s # "compare"
    BY <1>3
  <2>4. \A d \in Controllers : at'[d] # Idle => d = c
    BY <1>3
  <2> QED BY <1>4, <1>6, <2>1, <2>2, <2>3, <2>4 DEF BuiltIsOwn
<1> QED BY <1>1, <1>3, <1>7 DEF InductiveInvariant

(* So are the fields of the copy.                                          *)
LEMMA CopyInv ==
  ASSUME InductiveInvariant, NEW c \in Controllers, CopyField(c)
  PROVE  InductiveInvariant'
<1> DEFINE n == at[c].n
<1>1. /\ TypeOK /\ TypeOK' /\ at[c].pos # 0 /\ n \in 1..3 /\ Len(Declared) = 3
      /\ at[c].step = "copy" /\ at[c] # Idle
  <2>1. TypeOK /\ TypeOK' /\ at[c].pos # 0 /\ at[c].step = "copy"
    BY TypeFields DEF InductiveInvariant, CopyField
  <2>2. n \in 1..3 /\ at[c] # Idle
    BY <2>1 DEF TypeOK, Idle
  <2> QED BY <2>1, <2>2 DEF Declared
<1>2. PICK s \in {"copy", "compare"}, m \in Nat :
        /\ GoTo(c, at[c].pos, s, m)
        /\ s = "copy" => m = n + 1 /\ n < 3
        /\ s = "compare" => n = 3
  BY <1>1 DEF CopyField
<1>3. /\ OnePass' /\ PassIsCurrent' /\ SettledIsOwn'
      /\ at'[c] = [pos |-> at[c].pos, step |-> s, n |-> m] /\ Object(c)' = Object(c)
      /\ \A d \in Controllers \ {c} : at'[d] = Idle
  BY <1>1, <1>2, BuildingFrame DEF InductiveInvariant, CopyField
<1>4. \A f : Own(c, f)' = Own(c, f)
  BY <1>3 DEF Own, CopyField
<1>5. /\ \A f \in Shared : shared'[f] = Own(c, f)
      /\ \A i \in 1..(n - 1) : built[c][Declared[i]] = Own(c, Declared[i])
  BY <1>1 DEF InductiveInvariant, BuiltIsOwn, CopyField
<1>6. \A i \in 1..n : built'[c][Declared[i]] = Own(c, Declared[i])
  <2>1. /\ DOMAIN built = Controllers /\ DOMAIN built[c] = Shared
        /\ \A i \in 1..3 : Declared[i] \in Shared
    BY <1>1 DEF TypeOK, IsContainer, Declared, Shared
  <2>2. built' = [built EXCEPT ![c][Declared[n]] = Own(c, Declared[n])]
    BY <1>1, <1>5, <2>1 DEF CopyField
  <2> QED BY <1>1, <1>5, <2>1, <2>2
<1>7. s = "compare" => \A f \in Shared : built'[c][f] = Own(c, f)
  <2>1. \A f \in Shared : \E i \in 1..3 : f = Declared[i]
    BY DEF Shared, Declared
  <2> QED BY <1>2, <1>6, <2>1
<1>8. BuiltIsOwn'
  <2>1. s = "copy" => \A i \in 1..(m - 1) : built'[c][Declared[i]] = Own(c, Declared[i])
    BY <1>1, <1>2, <1>6
  <2>2. at'[c].step = s /\ at'[c].n = m /\ s # "assign"
    BY <1>3
  <2>3. \A d \in Controllers : at'[d] # Idle => d = c
    BY <1>3
  <2> QED BY <1>4, <1>5, <1>7, <2>1, <2>2, <2>3 DEF BuiltIsOwn
<1> QED BY <1>1, <1>3, <1>8 DEF InductiveInvariant

(* What the operator is about to compare with is what the CR asked for when *)
(* the pass began: nothing that the other builder left is in it.           *)
LEMMA ExpectedIsOwn ==
  ASSUME BuiltIsOwn, NEW c \in Controllers, Comparing(c)
  PROVE  \A f \in FieldsOf(Object(c)) : Expected(c)[f] = Own(c, f)
<1>1. at[c] # Idle
  BY DEF Comparing, Idle
<1>2. Object(c) \in Fluentd => \A f \in Shared : built[c][f] = Own(c, f)
  BY <1>1 DEF BuiltIsOwn, Comparing
<1> QED BY <1>2 DEF Expected, Own

(* An object is accepted when it is what the CR asks for, and at the end of *)
(* a pass that was not overtaken by an event this holds of all of them.    *)
LEMMA AcceptInv ==
  ASSUME InductiveInvariant, NEW c \in Controllers, Accept(c)
  PROVE  InductiveInvariant'
<1> DEFINE p == at[c].pos
<1>1. TypeOK /\ TypeOK' /\ Comparing(c) /\ p # 0 /\ at[c] # Idle
  <2>1. TypeOK /\ TypeOK'
    BY TypeWorker DEF InductiveInvariant, Worker
  <2>2. Comparing(c) /\ p # 0
    BY DEF Accept, Comparing
  <2> QED BY <2>1, <2>2 DEF Idle
<1>2. /\ Object(c) \in Objects /\ Owner(Object(c)) = c
      /\ p \in 1..Len(Chain[c]) /\ Len(Chain[c]) \in Nat
  BY <1>1, ObjectFacts, ChainFacts
<1>3. \A o : OwnIfWatched(o)' <=> OwnIfWatched(o)
  BY DEF OwnIfWatched, Watched, IsOwn, Accept, objects
<1>4. ~queued[c] => inst[c] = conf[c] /\ \A i \in 1..p : OwnIfWatched(Chain[c][i])
  <2> SUFFICES ASSUME ~queued[c]
               PROVE  inst[c] = conf[c] /\ \A i \in 1..p : OwnIfWatched(Chain[c][i])
    OBVIOUS
  <2>1. inst[c] = conf[c] /\ \A i \in 1..(p - 1) : OwnIfWatched(Chain[c][i])
    BY <1>1 DEF InductiveInvariant, PassIsCurrent
  <2>2. Object(c) \in present
    BY <1>1 DEF Accept, Found, TypeOK
  <2>3. ASSUME NEW f \in Compared(Object(c))
        PROVE  obj[Object(c)][f] = Stored(f, Build(Object(c), conf[c])[f])
    <3>1. f \in FieldsOf(Object(c))
      BY DEF Compared
    <3>2. obj[Object(c)][f] = Own(c, f)
      BY <1>1, <3>1, ExpectedIsOwn DEF InductiveInvariant, Accept, Equal
    <3>3. obj[Object(c)][f] = Stored(f, obj[Object(c)][f])
      BY <1>1, <1>2, <3>1 DEF TypeOK, IsStored
    <3> QED BY <2>1, <3>2, <3>3 DEF Own
  <2>4. OwnIfWatched(Chain[c][p])
    BY <1>2, <2>2, <2>3 DEF OwnIfWatched, IsOwn, Object
  <2>5. \A i \in 1..p : i = p \/ i \in 1..(p - 1)
    BY <1>2
  <2> QED BY <2>1, <2>4, <2>5
<1>5. CASE p < Len(Chain[c])
  <2> DEFINE s == IF Chain[c][p + 1] \in Fluentd THEN "assign" ELSE "compare"
             r == [pos |-> p + 1, step |-> s, n |-> 1]
  <2>1. /\ at' = [at EXCEPT ![c] = r] /\ r.pos = p + 1 /\ r.step = s /\ r.n = 1
        /\ UNCHANGED <<conf, shared, objects, queued, inst, built>>
    BY <1>5 DEF Accept, Visit, GoTo
  <2>2. r # Idle
    BY <1>2 DEF Idle
  <2> HIDE DEF r
  <2>3. /\ OnePass' /\ at'[c] = r
        /\ \A d \in Controllers \ {c} : at[d] = Idle /\ at'[d] = Idle
    BY <1>1, <2>1, OtherIdle DEF InductiveInvariant
  <2>4. \A d \in Controllers : at'[d] # Idle => d = c
    BY <2>3
  <2>5. BuiltIsOwn'
    <3>1. Object(c)' = Chain[c][p + 1] /\ 1..(1 - 1) = {}
      BY <2>1, <2>3 DEF Object
    <3>2. s # "copy" /\ (s = "compare" => ~(Object(c)' \in Fluentd))
      BY <3>1
    <3> QED BY <2>1, <2>3, <2>4, <3>1, <3>2 DEF BuiltIsOwn
  <2>6. PassIsCurrent'
    <3>1. (p + 1) - 1 = p
      BY <1>2
    <3> QED BY <1>3, <1>4, <2>1, <2>3, <2>4, <3>1 DEF PassIsCurrent
  <2>7. SettledIsOwn'
    <3> SUFFICES ASSUME NEW o \in Objects, Resting(Owner(o))'
                 PROVE  OwnIfWatched(o)'
      BY DEF SettledIsOwn
    <3>1. Resting(Owner(o))
      BY <2>1, <2>2, <2>3, ChainFacts DEF Resting
    <3> QED BY <1>3, <3>1 DEF InductiveInvariant, SettledIsOwn
  <2> QED BY <1>1, <2>3, <2>5, <2>6, <2>7 DEF InductiveInvariant
<1>6. CASE ~(p < Len(Chain[c]))
  <2>1. at' = [at EXCEPT ![c] = Idle] /\ queued' = queued
    BY <1>1, <1>6 DEF Accept, EndPass, TypeOK
  <2>2. OnePass' /\ \A d \in Controllers : at'[d] = Idle
    BY <1>1, <2>1, OtherIdle DEF InductiveInvariant
  <2>3. BuiltIsOwn' /\ PassIsCurrent'
    BY <2>2 DEF BuiltIsOwn, PassIsCurrent
  <2>4. SettledIsOwn'
    <3> SUFFICES ASSUME NEW o \in Objects, Resting(Owner(o))'
                 PROVE  OwnIfWatched(o)
      BY <1>3 DEF SettledIsOwn
    <3>1. CASE Owner(o) = c
      <4>1. PICK i \in 1..Len(Chain[c]) : o = Chain[c][i]
        BY <3>1, ChainFacts
      <4>2. i \in 1..p
        BY <1>2, <1>6
      <4> QED BY <1>4, <2>1, <3>1, <4>1, <4>2 DEF Resting
    <3>2. CASE Owner(o) # c
      <4>1. Resting(Owner(o))
        BY <1>1, <2>1, <3>2, ChainFacts DEF Resting, TypeOK
      <4> QED BY <4>1 DEF InductiveInvariant, SettledIsOwn
    <3> QED BY <3>1, <3>2
  <2> QED BY <1>1, <2>2, <2>3, <2>4 DEF InductiveInvariant
<1> QED BY <1>5, <1>6

(* A write sends the controller round again, and touches no object of the  *)
(* other.                                                                  *)
LEMMA WriteInv ==
  ASSUME InductiveInvariant, NEW c \in Controllers, Create(c) \/ Update(c) \/ Delete(c)
  PROVE  InductiveInvariant'
<1>1. /\ TypeOK /\ TypeOK' /\ at[c].pos # 0 /\ UNCHANGED <<conf, inst>>
      /\ at' = [at EXCEPT ![c] = Idle] /\ queued' = [queued EXCEPT ![c] = TRUE]
  BY TypeWrite DEF InductiveInvariant, Create, Update, Delete, Writing, Comparing, EndPass
<1>2. Object(c) \in Objects /\ Owner(Object(c)) = c
  BY <1>1, ObjectFacts
<1>3. OnePass' /\ \A d \in Controllers : at'[d] = Idle
  BY <1>1, OtherIdle DEF InductiveInvariant
<1>4. \A d \in Controllers \ {c} : at[d] = Idle
  BY <1>1, OtherIdle DEF InductiveInvariant
<1>5. queued'[c] /\ \A d \in Controllers \ {c} : queued'[d] = queued[d]
  BY <1>1 DEF TypeOK
<1>6. \A o \in Objects : o # Object(c) =>
        SameObject(o)
  <2>1. DOMAIN obj = Objects
    BY <1>1 DEF TypeOK
  <2>2. \/ obj' = obj
        \/ \E r : obj' = [obj EXCEPT ![Object(c)] = r]
    BY DEF Create, Update, Delete, Stores, objects
  <2>3. /\ present' \in {present, present \cup {Object(c)}, present \ {Object(c)}}
        /\ lost' \in {lost, lost \ {Object(c)}}
    BY DEF Create, Update, Delete, objects
  <2>4. \A o \in Objects : o # Object(c) => obj'[o] = obj[o]
    BY <2>1, <2>2
  <2> QED BY <2>3, <2>4 DEF SameObject
<1>7. \A o \in Objects : Owner(o) # c => SameObject(o)
  BY <1>2, <1>6
<1>8. PassIsCurrent' /\ SettledIsOwn'
  <2>1. \A d \in Controllers \ {c} : /\ conf'[d] = conf[d] /\ queued'[d] = queued[d]
                                    /\ at'[d] = at[d] /\ inst'[d] = inst[d]
    BY <1>1, <1>3, <1>4, <1>5
  <2> QED BY <1>1, <1>5, <1>7, <2>1, Undisturbed DEF InductiveInvariant
<1> QED BY <1>1, <1>3, <1>8 DEF InductiveInvariant, BuiltIsOwn

(* What users touch wakes its owner up, or is out of the caches' sight.    *)
LEMMA UserInv ==
  ASSUME InductiveInvariant, User PROVE InductiveInvariant'
<1>1. TypeOK /\ TypeOK' /\ UNCHANGED <<shared, at, inst, built>>
  BY TypeUser DEF InductiveInvariant, User
<1>2. OnePass'
  BY <1>1 DEF InductiveInvariant, OnePass
<1>3. BuiltIsOwn'
  <2>1. \A c \in Controllers : Object(c)' = Object(c) /\ \A f : Own(c, f)' = Own(c, f)
    BY <1>1 DEF Object, Own
  <2> QED BY <1>1, <2>1 DEF InductiveInvariant, BuiltIsOwn
<1>4. ASSUME NEW c \in Controllers, UserEditsCR(c)
      PROVE  PassIsCurrent' /\ SettledIsOwn'
  <2>1. /\ queued'[c]
        /\ \A d \in Controllers \ {c} : conf'[d] = conf[d] /\ queued'[d] = queued[d]
    BY <1>1, <1>4 DEF UserEditsCR, TypeOK
  <2>2. \A o \in Objects : SameObject(o)
    BY <1>4 DEF UserEditsCR, objects, SameObject
  <2> QED BY <1>1, <2>1, <2>2, Undisturbed DEF InductiveInvariant
<1>5. ASSUME NEW o \in Objects, UserTouches(o)
      PROVE  PassIsCurrent' /\ SettledIsOwn'
  <2> DEFINE c == Owner(o)
  <2>1. c \in Controllers /\ conf' = conf /\ DOMAIN queued = Controllers
    BY <1>1, <1>5, ChainFacts DEF UserTouches, TypeOK
  <2>2. \A q \in Objects : q # o => SameObject(q)
    BY <1>1, <1>5 DEF UserTouches, TypeOK, SameObject
  <2>3. queued' = [queued EXCEPT ![c] = queued[c] \/ Watched(o) \/ Watched(o)']
    BY <1>5 DEF UserTouches
  <2>4. CASE Watched(o) \/ Watched(o)'
    <3>1. queued'[c] /\ \A d \in Controllers \ {c} : queued'[d] = queued[d]
      BY <2>1, <2>3, <2>4
    <3>2. \A q \in Objects : Owner(q) # c => SameObject(q)
      BY <2>2
    <3> QED BY <1>1, <2>1, <3>1, <3>2, Undisturbed DEF InductiveInvariant
  <2>5. CASE ~Watched(o) /\ ~Watched(o)'
    <3>1. queued' = queued
      <4>1. queued[c] \in BOOLEAN
        BY <1>1, <2>1 DEF TypeOK
      <4> QED BY <1>1, <2>3, <2>5, <4>1 DEF TypeOK
    <3>2. \A q \in Objects : OwnIfWatched(q) => OwnIfWatched(q)'
      <4>1. OwnIfWatched(o)'
        BY <2>5 DEF OwnIfWatched
      <4>2. ASSUME NEW q \in Objects, q # o PROVE OwnIfWatched(q) => OwnIfWatched(q)'
        BY <2>1, <2>2, <4>2, OwnFrame
      <4> QED BY <4>1, <4>2
    <3>3. \A d \in Controllers : \A i \in 1..(at[d].pos - 1) : Chain[d][i] \in Objects
      <4> SUFFICES ASSUME NEW d \in Controllers, NEW i \in 1..(at[d].pos - 1)
                   PROVE  i \in 1..Len(Chain[d])
        BY ChainFacts
      <4>1. at[d].pos \in Nat /\ at[d].pos <= Len(Chain[d]) /\ Len(Chain[d]) \in Nat
        BY <1>1, ChainFacts DEF TypeOK
      <4> QED BY <4>1
    <3>4. PassIsCurrent'
      BY <1>1, <2>1, <3>1, <3>2, <3>3 DEF InductiveInvariant, PassIsCurrent
    <3>5. SettledIsOwn'
      BY <1>1, <3>1, <3>2 DEF InductiveInvariant, SettledIsOwn, Resting
    <3> QED BY <3>4, <3>5
  <2> QED BY <2>4, <2>5
<1>6. PassIsCurrent' /\ SettledIsOwn'
  BY <1>4, <1>5 DEF User
<1> QED BY <1>1, <1>2, <1>3, <1>6 DEF InductiveInvariant

(* The operator starts with nothing done and both keys in their queues.    *)
LEMMA InvInit == Init => InductiveInvariant
<1> SUFFICES ASSUME Init PROVE InductiveInvariant
  OBVIOUS
<1>1. TypeOK /\ \A c \in Controllers : at[c] = Idle
  BY TypeInit DEF Init
<1>2. SettledIsOwn
  BY ChainFacts DEF SettledIsOwn, Resting, Init
<1> QED BY <1>1, <1>2 DEF InductiveInvariant, OnePass, BuiltIsOwn, PassIsCurrent

(* Every step keeps the invariant, as long as passes do not overlap.       *)
LEMMA InvStep ==
  ASSUME InductiveInvariant, ~Overlap, [Next]_vars PROVE InductiveInvariant'
<1>1. CASE UNCHANGED vars
  <2>1. TypeOK'
    BY <1>1, TypeStep DEF InductiveInvariant
  <2> USE <1>1 DEF vars, objects
  <2>2. OnePass' /\ PassIsCurrent' /\ SettledIsOwn'
    BY DEF InductiveInvariant, OnePass, PassIsCurrent, SettledIsOwn, Resting, OwnIfWatched,
           Watched, IsOwn
  <2>3. BuiltIsOwn'
    BY DEF InductiveInvariant, BuiltIsOwn, Own, Object
  <2> QED BY <2>1, <2>2, <2>3 DEF InductiveInvariant
<1> QED
  BY <1>1, UserInv, StartInv, AssignInv, CopyInv, AcceptInv, WriteInv DEF Next, Worker

(* As long as the passes of the two controllers do not overlap, what a     *)
(* builder assigns to fluentdMainContainer is still there when the struct  *)
(* is copied, and a pass that no event has overtaken works with what the CR*)
(* asks for now.                                                           *)
THEOREM InvariantHolds == ~Overlap => (Spec => []InductiveInvariant)
<1> SUFFICES ASSUME ~Overlap PROVE Spec => []InductiveInvariant
  OBVIOUS
<1>1. InductiveInvariant /\ [Next]_vars => InductiveInvariant'
  BY InvStep
<1> QED BY <1>1, InvInit, PTL DEF Spec

(* So a controller whose key has left the queue and whose worker is idle   *)
(* leaves objects behind that are there and, in all that is compared, what *)
(* its own CR asks for.  The run in which passes overlap shows that the    *)
(* hypothesis cannot be dropped.                                           *)
THEOREM SettledHolds == ~Overlap => (Spec => []SettledIsOwn)
<1>1. InductiveInvariant => SettledIsOwn
  BY DEF InductiveInvariant
<1> QED BY <1>1, InvariantHolds, PTL

-----------------------------------------------------------------------------
(* What an update repairs.                                                 *)

(* The API server changes nothing that is compared, unless the CR's host   *)
(* aliases are all invalid.                                                *)
LEMMA StoredAsBuilt ==
  ASSUME NEW o \in AllObjects, NEW r \in AllConfs, NEW f \in Compared(o),
         ~(o = "deployment" /\ r.aliases = "invalid")
  PROVE  Stored(f, Build(o, r)[f]) = Build(o, r)[f]
<1>1. ASSUME NEW v, f = "aliases" => v # "empty" PROVE Stored(f, v) = v
  BY <1>1 DEF Stored
<1> SUFFICES ASSUME f = "aliases" PROVE Build(o, r)[f] # "empty"
  BY <1>1
<1>2. f \in DOMAIN Build(o, r)
  BY BuildFields DEF Compared
<1>3. CASE o = "deployment"
  <2>1. HostAliases(r.aliases) # "empty"
    BY <1>3 DEF AllConfs, HostAliases
  <2> QED BY <1>3, <2>1 DEF Build, BuildDeploymentForFluentd
<1>4. CASE o \in {"daemonset", "policy"}
  BY <1>4 DEF Build, BuildDaemonForFluentd, BuildDeploymentForPolicyController
<1>5. CASE o \in {"certificate", "service", "secret"}
  BY <1>2, <1>5 DEF Build, BuildCertsForAuditLogging, BuildAuditService, BuildSecret
<1> QED BY <1>3, <1>4, <1>5 DEF AllObjects, Workloads, Fluentd

(* No update keeps what the comparison looks at.                           *)
LEMMA KeptIsNotCompared ==
  ASSUME NEW o \in AllObjects PROVE Kept(o) \cap Compared(o) = {}
<1> USE DEF Kept, Compared, EqualPods, EqualContainers
<1>1. CASE o = "deployment"
  BY <1>1
<1>2. CASE o = "daemonset"
  BY <1>2
<1>3. CASE o = "policy"
  BY <1>3
<1>4. CASE o \in {"certificate", "service", "secret"}
  BY <1>4
<1> QED BY <1>1, <1>2, <1>3, <1>4 DEF AllObjects, Workloads, Fluentd

(* A pass that works with the current CR is refused only where the CR asks *)
(* for more than its limit.                                                *)
LEMMA NotRefused ==
  ASSUME InductiveInvariant, NEW c \in Controllers, Comparing(c), inst[c] = conf[c],
         ~Stuck(Object(c))
  PROVE  ~Refuses(c)
<1> SUFFICES ASSUME Object(c) \in Fluentd
             PROVE  Expected(c)["resources"] = buildResources(inst[c].resources)
  <2>1. Owner(Object(c)) = c
    BY ObjectFacts DEF InductiveInvariant, Comparing
  <2> QED BY <2>1 DEF Refuses, Stuck
<1>1. "resources" \in FieldsOf(Object(c))
  <2>1. Object(c) \in AllObjects
    BY ObjectFacts DEF InductiveInvariant, Comparing
  <2> QED BY <2>1, ConfFacts, BuildFields DEF Shared
<1>2. Expected(c)["resources"] = Build(Object(c), inst[c])["resources"]
  BY <1>1, ExpectedIsOwn DEF InductiveInvariant, Own
<1> QED BY <1>2 DEF Build, BuildDeploymentForFluentd, BuildDaemonForFluentd, Fluentd

(* Accepted, created or updated, the object is one that the next comparison*)
(* accepts.                                                                *)
LEMMA WorkerRepairs ==
  ASSUME InductiveInvariant, NEW c \in Controllers, Comparing(c), inst[c] = conf[c],
         ~Stuck(Object(c)), Accept(c) \/ Create(c) \/ Update(c) \/ Delete(c),
         NEW o \in Objects, Object(c) = o
  PROVE  Acceptable(o, conf[c])' \/ (o = "service" /\ o \notin present')
<1>1. /\ TypeOK /\ o \in AllObjects /\ inst[c] \in AllConfs /\ Owner(o) = c
      /\ DOMAIN obj = Objects /\ conf' = conf
  <2>1. TypeOK /\ conf' = conf
    BY DEF InductiveInvariant, Accept, Create, Update, Delete, Writing
  <2> QED BY <2>1, ObjectFacts DEF Comparing, TypeOK
<1>2. \A f \in Compared(o) : f \in FieldsOf(o) /\ f \notin Kept(o)
  BY <1>1, KeptIsNotCompared DEF Compared
<1>3. \A f \in Compared(o) : Expected(c)[f] = Build(o, conf[c])[f]
  BY <1>2, ExpectedIsOwn DEF InductiveInvariant, Own
<1>4. \A f \in Compared(o) : Stored(f, Expected(c)[f]) = Build(o, conf[c])[f]
  <2>1. ~(o = "deployment" /\ conf[c].aliases = "invalid")
    BY <1>1 DEF Stuck, Owner
  <2> QED BY <1>1, <1>3, <2>1, StoredAsBuilt
<1>5. CASE Accept(c)
  <2>1. o \in present' /\ obj' = obj
    BY <1>5 DEF Accept, Found, objects
  <2>2. \A f \in Compared(o) : obj[o][f] = Expected(c)[f]
    BY <1>5 DEF Accept, Equal
  <2> QED BY <1>1, <1>3, <2>1, <2>2 DEF Acceptable
<1>6. CASE Create(c)
  <2>1. o \notin present /\ ~Refuses(c)
    BY <1>6, NotRefused DEF Create, Found, Stuck
  <2>2. o \in present' /\ Stores(c, o, Expected(c))
    BY <1>6, <2>1 DEF Create
  <2>3. \A f \in Compared(o) : obj'[o][f] = Stored(f, Expected(c)[f])
    BY <1>1, <1>2, <2>2 DEF Stores
  <2> QED BY <1>1, <1>4, <2>2, <2>3 DEF Acceptable
<1>7. CASE Update(c)
  <2> DEFINE r == [f \in FieldsOf(o) |-> IF f \in Kept(o) THEN obj[o][f] ELSE Expected(c)[f]]
  <2>1. o \in present' /\ Stores(c, o, r)
    BY <1>7, NotRefused DEF Update, Found
  <2>2. \A f \in Compared(o) : r[f] = Expected(c)[f]
    BY <1>2
  <2>3. \A f \in Compared(o) : obj'[o][f] = Stored(f, Expected(c)[f])
    BY <1>1, <1>2, <2>1, <2>2 DEF Stores
  <2> QED BY <1>1, <1>4, <2>1, <2>3 DEF Acceptable
<1>8. CASE Delete(c)
  BY <1>8 DEF Delete
<1> QED BY <1>5, <1>6, <1>7, <1>8

(* A worker that compares is taken further by its own step only.           *)
LEMMA RepairStep ==
  ASSUME InductiveInvariant, [Next]_vars, NEW c \in Controllers, NEW o \in Objects
  PROVE  Repaired(c, o)
<1> SUFFICES ASSUME Comparing(c), Object(c) = o, inst[c] = conf[c], ~Stuck(o), at'[c] # at[c]
             PROVE  Acceptable(o, conf[c])' \/ (o = "service" /\ o \notin present')
  BY DEF Repaired
<1>1. DOMAIN at = Controllers
  BY DEF InductiveInvariant, TypeOK
<1>2. PICK d \in Controllers : Worker(d)
  BY DEF Next, User, vars
<1>3. d = c
  <2>1. \E r : at' = [at EXCEPT ![d] = r]
    BY <1>2 DEF Worker, StartPass, AssignField, CopyField, Accept, Create, Update, Delete,
                Visit, GoTo, EndPass
  <2> QED BY <1>1, <2>1
<1>4. Accept(c) \/ Create(c) \/ Update(c) \/ Delete(c)
  BY <1>2, <1>3 DEF Worker, StartPass, AssignField, CopyField, Comparing, Idle
<1> QED BY <1>4, WorkerRepairs

(* What a pass leaves of an object after accepting, creating or updating it *)
(* is what the next comparison accepts: an update repairs whatever the     *)
(* comparison rejects, so that the Equal functions and the updates of      *)
(* reconcileFluentdDeployment, reconcileFluentdDaemonSet and the others do *)
(* not keep the controller busy, unless the object is Stuck.               *)
THEOREM RepairsHold == ~Overlap => (Spec => RepairsAreAccepted)
<1> SUFFICES ASSUME ~Overlap PROVE Spec => RepairsAreAccepted
  OBVIOUS
<1>1. InductiveInvariant /\ [Next]_vars =>
        [\A c \in Controllers, o \in Objects : Repaired(c, o)]_vars
  BY RepairStep
<1>2. Spec => []InductiveInvariant
  BY InvariantHolds
<1> QED BY <1>1, <1>2, PTL DEF Spec, RepairsAreAccepted
==============================================================================

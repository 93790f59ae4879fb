-------------------------- MODULE FluentdPodsProofs --------------------------
(***************************************************************************)
(* Proofs about FluentdPods, for every chain of children, every set of     *)
(* specs, and any number of faults and of changes of the CR.               *)
(***************************************************************************)
EXTENDS FluentdPods, CommonAuditProofs

-----------------------------------------------------------------------------
(* What a step does to the pods and to the ConfigMaps they mount.          *)

(* The pods stay, go, or start with what the ConfigMaps hold; they never   *)
(* outlive a change of their deployment.                                   *)
LEMMA PodsStep ==
  ASSUME Next
  PROVE  /\ pods' = pods \/ pods' = NoPods \/ (StartPods /\ UNCHANGED api)
         /\ api'["deploy"].val # api["deploy"].val => pods' = NoPods
<1>1. CASE NoWrite
  BY <1>1 DEF NoWrite
<1>2. ASSUME NEW k, NEW o, Write(k, o)
      PROVE  /\ pods' = pods \/ pods' = NoPods
             /\ api'["deploy"].val # api["deploy"].val => pods' = NoPods
  BY <1>2 DEF Write
<1>3. CASE Worker
  BY <1>1, <1>2, <1>3 DEF Worker, StartPass, GetInstance, SetDefaultStatus, GetChild, Restart,
     CreateChild, UpdateChild, DeleteChild, RestartFluentdPods, UpdateStatus
<1>4. CASE Fault
  BY <1>1, <1>2, <1>4 DEF Fault, ApiError, LostReply, RestartFails, Crash, Restart, Resync
<1>5. CASE User
  BY <1>1, <1>2, <1>5 DEF User, UserCreatesCR, UserEditsCR, UserDeletesCR, UserEditsChild,
     UserExtendsChild, UserDeletesChild, UserCreatesChild, UserWrites
<1>6. CASE SyncCR \/ StartPods \/ \E k \in Children : Sync(k) \/ CollectGarbage(k)
  BY <1>1, <1>2, <1>6 DEF SyncCR, StartPods, Sync, CollectGarbage
<1> QED BY <1>3, <1>4, <1>5, <1>6 DEF Next

(* A restart that is about to happen happens, is hit by a fault, or waits. *)
LEMMA RestartStep ==
  ASSUME TypeOK, Next, pc = "restart"
  PROVE  pods' = NoPods \/ faults' # faults \/ (pc' = "restart" /\ pos' = pos)
<1>1. CASE Worker
  BY <1>1 DEF Worker, StartPass, GetInstance, SetDefaultStatus, GetChild, CreateChild,
     UpdateChild, DeleteChild, RestartFluentdPods, UpdateStatus
<1>2. CASE Fault
  <2>1. faults \in Nat /\ faults' = faults - 1
    BY <1>2, BoundsAssumption DEF Fault, TypeOK
  <2> QED BY <2>1
<1>3. CASE User \/ SyncCR \/ StartPods \/ \E k \in Children : Sync(k) \/ CollectGarbage(k)
  BY <1>3 DEF User, SyncCR, StartPods, Sync, CollectGarbage
<1> QED BY <1>1, <1>2, <1>3 DEF Next

(* A ConfigMap that changes is gone afterwards, or is recorded because it  *)
(* was created or a fault hit its update, or its restart is next.          *)
LEMMA ConfigStep ==
  ASSUME InductiveInvariant, Next, NEW k \in ConfigMaps, api'[k] # api[k]
  PROVE  /\ k \in Children
         /\ ~Exists(api'[k]) \/ Created(k) \/ Interrupted(k) \/ RestartComing(k)'
<1>1. DOMAIN api = Kinds /\ ~Exists(Absent)
  BY DEF InductiveInvariant, TypeOK, Exists, Absent
<1>2. pc \in {"create", "update", "delete"} => Kid \in Children
  BY ConstantFacts DEF InductiveInvariant, TypeOK, Kid
<1>3. CASE CreateChild
  <2>1. pc = "create" /\ \E o : api' = [api EXCEPT ![Kid] = o]
    BY <1>3 DEF CreateChild, NoWrite, Write
  <2> QED BY <1>1, <1>2, <2>1 DEF Created
<1>4. CASE UpdateChild
  <2>1. pc = "update" /\ Write(Kid, [found EXCEPT !.val = Target(Kid, inst.spec)])
    BY <1>4 DEF UpdateChild, NoWrite
  <2>2. Kid = k
    BY <1>1, <2>1 DEF Write
  <2>3. pc' = "restart" /\ pos' = pos
    BY <1>4, <2>2 DEF UpdateChild, NoWrite, RestartsPods
  <2> QED BY <1>2, <2>1, <2>2, <2>3 DEF RestartComing, Kid
<1>5. CASE Fault
  <2>1. faults' # faults
    <3>1. faults \in Nat /\ faults' = faults - 1
      BY <1>5, BoundsAssumption DEF Fault, InductiveInvariant, TypeOK
    <3> QED BY <3>1
  <2>2. pc = "update" /\ Write(Kid, [found EXCEPT !.val = Target(Kid, inst.spec)])
    BY <1>5 DEF Fault, ApiError, LostReply, RestartFails, Crash, Restart, Resync, NoWrite
  <2>3. Kid = k
    BY <1>1, <2>2 DEF Write
  <2> QED BY <1>2, <2>1, <2>2, <2>3 DEF Interrupted
<1>6. CASE DeleteChild \/ \E c \in Children : CollectGarbage(c)
  <2>1. \E c \in Children : api' = [api EXCEPT ![c] = Absent]
    BY <1>2, <1>6 DEF DeleteChild, CollectGarbage, Write, NoWrite
  <2> QED BY <1>1, <2>1
<1>7. CASE User
  <2>1. \E c \in Touched \cup Foreign : \E o : api' = [api EXCEPT ![c] = o]
    BY <1>7, UserWritesCases DEF InductiveInvariant
  <2> QED BY <1>1, <2>1, ConfigsAreTheOperators
<1>8. CASE \/ StartPass \/ GetInstance \/ SetDefaultStatus \/ GetChild \/ RestartFluentdPods
           \/ UpdateStatus \/ SyncCR \/ StartPods \/ \E c \in Children : Sync(c)
  BY <1>8 DEF StartPass, GetInstance, SetDefaultStatus, GetChild, Restart, RestartFluentdPods,
     UpdateStatus, SyncCR, StartPods, Sync, NoWrite
<1> QED BY <1>3, <1>4, <1>5, <1>6, <1>7, <1>8 DEF Next, Worker

-----------------------------------------------------------------------------
(* The pods follow their configuration.                                    *)

(* Every step keeps the account of what the pods are not served with.      *)
LEMMA ServedStep ==
  ASSUME InductiveInvariant, ServedInvariant, RecordedNext PROVE ServedInvariant'
<1> SUFFICES ASSUME pods'.running
             PROVE  /\ "deploy" \in Children /\ Exists(api'["deploy"])
                    /\ \A k \in ConfigMaps : pods'.conf[k] # api'[k].val =>
                         /\ k \in Children
                         /\ Exists(api'[k]) => k \in unserved' \/ RestartComing(k)'
  BY DEF ServedInvariant
<1>1. TypeOK /\ Next /\ RecordUnserved /\ pods' # NoPods
  BY DEF InductiveInvariant, RecordedNext, NoPods
<1>2. CASE StartPods /\ UNCHANGED api
  BY <1>2 DEF StartPods
<1>3. CASE pods' = pods
  <2>1. /\ pods.running /\ "deploy" \in Children /\ Exists(api["deploy"])
        /\ unserved' = unserved \cup {k \in ConfigMaps : Created(k) \/ Interrupted(k)}
    BY <1>1, <1>3 DEF RecordUnserved, ServedInvariant
  <2>2. Exists(api'["deploy"])
    BY <1>1, <2>1, PodsStep DEF Exists
  <2>3. ASSUME NEW k \in ConfigMaps, pods'.conf[k] # api'[k].val
        PROVE  k \in Children /\ (Exists(api'[k]) => k \in unserved' \/ RestartComing(k)')
    <3>1. CASE api'[k] # api[k]
      BY <1>1, <2>1, <3>1, ConfigStep
    <3>2. CASE api'[k] = api[k]
      <4>1. k \in Children /\ (Exists(api'[k]) => k \in unserved \/ RestartComing(k))
        BY <1>3, <2>1, <2>3, <3>2 DEF ServedInvariant
      <4>2. RestartComing(k) => Interrupted(k) \/ RestartComing(k)'
        BY <1>1, RestartStep DEF RestartComing, Interrupted, Kid
      <4> QED BY <2>1, <4>1, <4>2
    <3> QED BY <3>1, <3>2
  <2> QED BY <2>1, <2>2, <2>3
<1> QED BY <1>1, <1>2, <1>3, PodsStep

(* At rest, a ConfigMap of a running deployment is there: the CR is, or the *)
(* collector would have taken the deployment.                              *)
LEMMA ServedAtRest ==
  ASSUME InductiveInvariant, ServedInvariant PROVE PodsFollowConfig
<1> SUFFICES ASSUME Quiescent, pods.running, NEW k \in ConfigMaps, pods.conf[k] # api[k].val
             PROVE  k \in unserved
  BY DEF PodsFollowConfig
<1>1. /\ "deploy" \in Children /\ Exists(api["deploy"]) /\ k \in Children
      /\ Exists(api[k]) => k \in unserved \/ RestartComing(k)
  BY DEF ServedInvariant
<1>2. ~RestartComing(k)
  BY DEF Quiescent, RestartComing
<1>3. cr.uid # 0
  <2>1. Owned(api["deploy"])
    BY <1>1, ConstantFacts, ConfigsAreTheOperators
    DEF InductiveInvariant, ChildrenAreOwned
  <2>2. api["deploy"].owner = cr.uid
    BY <1>1, <2>1 DEF Quiescent
  <2> QED BY <2>1, <2>2 DEF Owned
<1>4. Exists(api[k])
  BY <1>1, <1>3, InvSettles, ConfigsAreTheOperators DEF QuiescentIsSettled, Settled
<1> QED BY <1>1, <1>2, <1>4

(* The history variable only watches.                                      *)
LEMMA RecordedStep ==
  ASSUME InductiveInvariant /\ ServedInvariant, [RecordedNext]_<<vars, unserved>>
  PROVE  (InductiveInvariant /\ ServedInvariant)'
<1>1. CASE RecordedNext
  BY <1>1, InvStep, ServedStep DEF RecordedNext
<1>2. CASE UNCHANGED <<vars, unserved>>
  <2>1. InductiveInvariant'
    BY <1>2, InvStep
  <2>2. ServedInvariant'
    BY <1>2 DEF vars, ServedInvariant, RestartComing, Kid
  <2> QED BY <2>1, <2>2
<1> QED BY <1>1, <1>2

(* What the pods mounted is what the ConfigMaps hold, except for those that *)
(* are gone, that were created or hit by a fault since, or whose restart is *)
(* next.                                                                   *)
THEOREM ServedHolds == RecordedSpec => []ServedInvariant
<1>1. RecordedInit => InductiveInvariant /\ ServedInvariant
  BY InvInit DEF RecordedInit, Init, NoPods, ServedInvariant
<1> QED BY <1>1, RecordedStep, PTL DEF RecordedSpec

(* At rest, fluentd pods run with the current configuration, whatever the  *)
(* order in which specs, ConfigMaps, deployments and CRs have changed; the *)
(* only exceptions are ConfigMaps that were created while the pods ran, and *)
(* updates and restarts that an error, a lost reply or a crash cut short.  *)
THEOREM PodsAreServed == RecordedSpec => []PodsFollowConfig
<1>1. RecordedInit => InductiveInvariant /\ ServedInvariant
  BY InvInit DEF RecordedInit, Init, NoPods, ServedInvariant
<1> QED BY <1>1, RecordedStep, ServedAtRest, PTL DEF RecordedSpec
==============================================================================

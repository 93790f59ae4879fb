------------------------------ MODULE FluentdPods ------------------------------
(***************************************************************************)
(* The configuration that the fluentd pods of a CommonAudit really run     *)
(* with.  They mount their ConfigMaps with a subPath, so they keep what    *)
(* they started with until they are replaced; the controller deletes them  *)
(* after it has updated a ConfigMap, and at no other time.                 *)
(*                                                                         *)
(* This is CommonAudit with a history variable: the ConfigMaps that have   *)
(* changed, since the pods started, in one of the ways that the code does  *)
(* not answer with a restart.                                              *)
(***************************************************************************)
EXTENDS CommonAudit

VARIABLE unserved

(* ConfigMap k is created, anew or for the first time (the pods may still  *)
(* run with its predecessor), or an error, a lost reply or a crash hits    *)
(* its update or the restart after it.  Users change the CR here, not the  *)
(* ConfigMaps: a change that they take back before the controller has seen *)
(* it is answered by nothing at all.  Nor do they create a deployment,     *)
(* which would outlive the CR and the ConfigMaps that its pods mounted.    *)
ASSUME ConfigsAreTheOperators ==
  (Touched \cup Foreign) \cap ConfigMaps = {} /\ "deploy" \notin Foreign

Created(k)     == pc = "create" /\ Kid = k /\ api'[k] # api[k]
Interrupted(k) == pc \in {"update", "restart"} /\ Kid = k /\ faults' # faults

RecordUnserved ==
  unserved' = IF pods' # pods \/ ~pods.running THEN {}
              ELSE unserved \cup {k \in ConfigMaps : Created(k) \/ Interrupted(k)}

RecordedInit == Init /\ unserved = {}
RecordedNext == Next /\ RecordUnserved
RecordedSpec == RecordedInit /\ [][RecordedNext]_<<vars, unserved>> /\ Fairness

-----------------------------------------------------------------------------
(* Correctness.                                                            *)

(* "restartFluentdPods" after an update of a ConfigMap: at rest, pods that *)
(* run with an old configuration do so for one of the recorded reasons and *)
(* no other.  Two ConfigMaps that are updated one after the other, specs   *)
(* that change in between, pods that start between an update and its       *)
(* restart, deployments that are replaced and re-created CRs leave none.   *)
PodsFollowConfig ==
  Quiescent /\ pods.running =>
    \A k \in ConfigMaps : pods.conf[k] # api[k].val => k \in unserved

-----------------------------------------------------------------------------
(* The inductive invariant behind it, beside CommonAudit's: pods run only  *)
(* with their deployment, and a ConfigMap that is not what they mounted is *)
(* gone, recorded, or the one whose update they are about to be deleted    *)
(* for.                                                                    *)

RestartComing(k) == pc = "restart" /\ Kid = k

ServedInvariant ==
  pods.running =>
    /\ "deploy" \in Children /\ Exists(api["deploy"])
    /\ \A k \in ConfigMaps : pods.conf[k] # api[k].val =>
         k \in Children /\ (Exists(api[k]) => k \in unserved \/ RestartComing(k))
=============================================================================

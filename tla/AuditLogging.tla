---------------------------- MODULE AuditLogging ----------------------------
(***************************************************************************)
(* The AuditLogging controller past its gates: the cluster's one CR, its   *)
(* children in the common services namespace, the informer caches it reads *)
(* them through, and the users and kubelet around it.                      *)
(*                                                                         *)
(* It has the shape of CommonAudit, whose conventions it follows: a pass   *)
(* goes through Chain on caches that lag, writes the first child that is   *)
(* not as expected, and asks for a requeue.  What is its own: a policy     *)
(* controller that a switch of the CR creates and deletes by name, a       *)
(* default for the switch that it writes into the CR, a Job, a DaemonSet   *)
(* and output configs with contents that belong to customers, and an       *)
(* output config it refuses to rewrite, which blocks what follows it.      *)
(* The CR stays; its deletion and a new one are in CommonAudit.            *)
(***************************************************************************)
EXTENDS Naturals, Sequences

CONSTANTS
  Chain,        \* the children in the order Reconcile visits them
  Specs,        \* the specs users give the CR
  Touched,      \* children that users edit, extend or delete
  Foreign,      \* children that users also create themselves, unowned
  Wipes,        \* ConfigMaps that users may spoil
  MaxUserActs,  \* bound on the actions of users
  MaxFaults     \* bound on API errors, failed restarts and crashes

FullChain == <<"job", "policy", "config", "source", "splunk", "qradar", "ingest",
               "httpsCert", "cert", "sa", "svc", "ds">>
Kinds   == {FullChain[i] : i \in DOMAIN FullChain}
Outputs == {"splunk", "qradar"}
ConfigMaps == {"config", "source", "ingest"} \cup Outputs
SpecKinds  == {"policy", "config", "httpsCert", "cert", "ds"}
CreateOnly == {"job", "sa"}

(* The switch, omitted or one of the values the CRD admits, and what the   *)
(* rest of a spec asks for.                                                *)
Switches == {"", "true", "false"}
Settings == {"a", "b"}
AllSpecs == [policy : Switches, conf : Settings]

ASSUME ChainAssumption ==
  /\ Chain \in Seq(Kinds)
  /\ \A i, j \in DOMAIN Chain : Chain[i] = Chain[j] => i = j
ASSUME SpecsAssumption  == Specs \subseteq AllSpecs /\ Specs # {}
ASSUME UsersAssumption  ==
  Touched \subseteq Kinds /\ Foreign \subseteq Kinds /\ Wipes \subseteq ConfigMaps
ASSUME BoundsAssumption == MaxUserActs \in Nat /\ MaxFaults \in Nat

Children == {Chain[i] : i \in DOMAIN Chain}

(* "broken" is a ConfigMap without data, or an output config that          *)
(* OutputConfig calls misformatted; extra is what users add without the    *)
(* comparisons' minding: pod labels and host aliases of the workloads, and *)
(* the settings of output configs.                                         *)
Values  == Settings \cup {"absent", "fixed", "drifted", "broken"}
Additions == {"labels", "aliases", "settings"}
Objects == [val : Values, owned : BOOLEAN, extra : SUBSET Additions]
Absent  == [val |-> "absent", owned |-> FALSE, extra |-> {}]
Exists(o) == o.val # "absent"

(* The workloads; a status lists those that have pods.                     *)
Workloads == {"ds", "policy"}
Extensions(k) ==
  CASE k \in Workloads -> {"labels", "aliases"} [] k \in Outputs -> {"settings"} [] OTHER -> {}

CRs  == [spec : AllSpecs, status : (SUBSET Workloads) \cup {{"unset"}}]
NoCR == [spec |-> CHOOSE s \in Specs : TRUE, status |-> {"unset"}]

Target(k, s) == IF k \in SpecKinds THEN s.conf ELSE "fixed"
Matches(k, v, s) == k \in CreateOnly \/ v = Target(k, s)

(* Only the switch "true" asks for the policy controller.                  *)
Wanted(k, s) == k = "policy" => s.policy = "true"

VARIABLES
  cr,          \* the CR at the API server
  crCache,     \* the CR in the informer's cache
  crFresh,     \* the cached CR is the current version
  api,         \* the children at the API server
  cache,       \* the children in the informers' caches
  fresh,       \* per child: the cached object is the current version
  pods,        \* the workloads that have pods
  queued,      \* the CR's key waits in the work queue
  pc,          \* where the worker is
  pos,         \* the position in Chain of the child the worker is at
  inst,        \* the pass's copy of the CR
  instCurrent, \* inst still has the CR's current resource version
  found,       \* the copy of the child that is being written
  foundCurrent,\* found still has the child's current resource version
  userActs, faults  \* what is left of the bounds

crs    == <<cr, crCache, crFresh>>
worker == <<pc, pos, inst, instCurrent, found, foundCurrent>>
bounds == <<userActs, faults>>
vars   == <<crs, api, cache, fresh, pods, queued, worker, bounds>>

TypeOK ==
  /\ cr \in CRs /\ crCache \in CRs /\ inst \in CRs
  /\ api \in [Kinds -> Objects] /\ cache \in [Kinds -> Objects] /\ found \in Objects
  /\ fresh \in [Kinds -> BOOLEAN] /\ pods \subseteq Workloads
  /\ crFresh \in BOOLEAN /\ queued \in BOOLEAN
  /\ instCurrent \in BOOLEAN /\ foundCurrent \in BOOLEAN
  /\ pc \in {"idle", "get", "default", "enable", "chain", "create", "update", "delete", "restart"}
  /\ pos \in 1..(Len(Chain) + 1)
  /\ pc \in {"create", "update", "delete", "restart"} => pos <= Len(Chain)
  /\ pc \in {"idle", "get", "default", "enable"} => pos = 1
  /\ pc \in {"chain", "create", "update", "delete", "restart"} => inst.spec.policy # ""
  /\ userActs \in 0..MaxUserActs /\ faults \in 0..MaxFaults

Init ==
  /\ \E s \in Specs : cr = [spec |-> s, status |-> {"unset"}]
  /\ crCache = cr /\ crFresh = TRUE
  /\ api = [k \in Kinds |-> Absent] /\ cache = api /\ fresh = [k \in Kinds |-> TRUE]
  /\ pods = {} /\ queued = TRUE
  /\ pc = "idle" /\ pos = 1
  /\ inst = NoCR /\ instCurrent = FALSE
  /\ found = Absent /\ foundCurrent = FALSE
  /\ userActs = MaxUserActs /\ faults = MaxFaults

-----------------------------------------------------------------------------
(* Writes to the API server.                                               *)

WriteCR(c) == cr' = c /\ crFresh' = FALSE /\ UNCHANGED crCache

(* A workload that changes or goes loses its pods.                         *)
Write(k, o) ==
  /\ api' = [api EXCEPT ![k] = o]
  /\ fresh' = [fresh EXCEPT ![k] = FALSE]
  /\ pods' = IF o.val # api[k].val THEN pods \ {k} ELSE pods

Outdate(k) ==
  foundCurrent' = (foundCurrent /\ ~(pos <= Len(Chain) /\ Chain[pos] = k))

NoWrite == UNCHANGED <<api, fresh, pods>>

-----------------------------------------------------------------------------
(* The worker.                                                             *)

(* Reconcile returns; with a requeue or an error the key is added again.   *)
EndPass(requeue) ==
  /\ pc' = "idle" /\ pos' = 1
  /\ inst' = NoCR /\ instCurrent' = FALSE
  /\ found' = Absent /\ foundCurrent' = FALSE
  /\ queued' = (queued \/ requeue)

StartPass ==
  /\ pc = "idle" /\ queued
  /\ queued' = FALSE /\ pc' = "get"
  /\ NoWrite
  /\ UNCHANGED <<crs, cache, pos, inst, instCurrent, found, foundCurrent, bounds>>

(* The spec's next obstacle: no status, no switch, or none.                *)
AfterStatusAtOnce(c) == "chain"  \* mutant: the default is forgotten
AfterStatus(c) == IF c.spec.policy = "" THEN "enable" ELSE "chain"

GetInstance ==
  /\ pc = "get"
  /\ inst' = crCache /\ instCurrent' = crFresh
  /\ pc' = IF crCache.status = {"unset"} THEN "default" ELSE AfterStatus(crCache)
  /\ NoWrite
  /\ UNCHANGED <<crs, cache, queued, pos, found, foundCurrent, bounds>>

SetDefaultStatus ==
  /\ pc = "default"
  /\ \/ /\ instCurrent
        /\ WriteCR([inst EXCEPT !.status = {}])
        /\ inst' = [inst EXCEPT !.status = {}]
        /\ pc' = AfterStatus(inst)
        /\ UNCHANGED <<pos, instCurrent, found, foundCurrent, queued>>
     \/ ~instCurrent /\ EndPass(TRUE) /\ UNCHANGED crs
  /\ NoWrite
  /\ UNCHANGED <<cache, bounds>>

(* The API server refuses an update of an outdated copy.                   *)
InstanceForced   == TRUE  \* mutant: no resource version is sent
InstanceAccepted == instCurrent

(* The whole copy of the CR is written, and the pass ends without a        *)
(* requeue: the event of this update starts the next one.                  *)
enablePolicyControllerByDefault ==
  /\ pc = "enable"
  /\ \/ /\ InstanceAccepted
        /\ WriteCR([inst EXCEPT !.spec.policy = "true"])
        /\ EndPass(FALSE)
     \/ ~InstanceAccepted /\ EndPass(TRUE) /\ UNCHANGED crs
  /\ NoWrite
  /\ UNCHANGED <<cache, bounds>>

(* The process restarts and lists everything again.                        *)
Restart ==
  /\ pc' = "idle" /\ pos' = 1
  /\ inst' = NoCR /\ instCurrent' = FALSE
  /\ found' = Absent /\ foundCurrent' = FALSE
  /\ crCache' = cr /\ crFresh' = TRUE
  /\ cache' = api /\ fresh' = [k \in Kinds |-> TRUE]
  /\ queued' = TRUE
  /\ UNCHANGED <<cr, api, pods>>

Kid == Chain[pos]

(* Reconcile leaves a child alone that is as expected, which for a policy  *)
(* controller that is switched off means that it is not there.             *)
Accepts(k, o, s) ==
  IF Wanted(k, s) THEN Exists(o) /\ Matches(k, o.val, s) ELSE ~Exists(o)

(* An output config in which no settings are found is an error, another    *)
(* ConfigMap without data a write to a nil map.                            *)
Refuses(k, o) == k \in Outputs /\ o.val = "broken"
Panics(k, o)  == k \in ConfigMaps \ Outputs /\ o.val = "broken"

Recreated(k, o, s) ==  \* mutant: output configs are deleted, as in CommonAudit
  IF ~Exists(o) THEN "create"
  ELSE IF k \in Outputs \cup {"svc"} \/ ~Wanted(k, s) THEN "delete" ELSE "update"
Verdict(k, o, s) ==
  IF ~Exists(o) THEN "create"
  ELSE IF k = "svc" \/ ~Wanted(k, s) THEN "delete" ELSE "update"

GetChild ==
  /\ pc = "chain" /\ pos <= Len(Chain)
  /\ LET o == cache[Kid]
         s == inst.spec
     IN  \/ /\ Accepts(Kid, o, s)
            /\ pos' = pos + 1
            /\ NoWrite /\ UNCHANGED <<crs, cache, queued, pc, inst, instCurrent, found, foundCurrent>>
         \/ /\ ~Accepts(Kid, o, s) /\ ~Refuses(Kid, o) /\ ~Panics(Kid, o)
            /\ pc' = Verdict(Kid, o, s)
            /\ found' = o /\ foundCurrent' = fresh[Kid]
            /\ NoWrite /\ UNCHANGED <<crs, cache, queued, pos, inst, instCurrent>>
         \/ /\ ~Accepts(Kid, o, s) /\ Refuses(Kid, o)
            /\ EndPass(TRUE)
            /\ NoWrite /\ UNCHANGED <<crs, cache>>
         \/ /\ ~Accepts(Kid, o, s) /\ Panics(Kid, o)
            /\ Restart
  /\ UNCHANGED bounds

CreateChild ==
  /\ pc = "create"
  /\ IF Exists(api[Kid])
     THEN NoWrite
     ELSE Write(Kid, [val |-> Target(Kid, inst.spec), owned |-> TRUE, extra |-> {}])
  /\ EndPass(TRUE)
  /\ UNCHANGED <<crs, cache, bounds>>

(* What an update leaves of the additions e in the copy that was found: the*)
(* DaemonSet keeps them, the policy controller keeps its labels, and the   *)
(* settings of an output config depend on its form, which OutputConfig has.*)
Remains(k, e) ==
  CASE k = "policy" -> {e \ {"aliases"}} [] k \in Outputs -> SUBSET e [] OTHER -> {e}

Updated(k, o, s, e) == [val |-> Target(k, s), owned |-> o.owned, extra |-> e]

UpdateForced   == TRUE  \* mutant: no resource version is sent
UpdateAccepted == foundCurrent

UpdateChild ==
  /\ pc = "update"
  /\ \/ /\ UpdateAccepted
        /\ \E e \in Remains(Kid, found.extra) : Write(Kid, Updated(Kid, found, inst.spec, e))
        /\ IF Kid \in ConfigMaps
           THEN /\ pc' = "restart"
                /\ found' = Absent /\ foundCurrent' = FALSE
                /\ UNCHANGED <<pos, inst, instCurrent, queued>>
           ELSE EndPass(TRUE)
     \/ ~UpdateAccepted /\ NoWrite /\ EndPass(TRUE)
  /\ UNCHANGED <<crs, cache, bounds>>

(* Deleted is whatever has the name now.                                   *)
DeleteChild ==
  /\ pc = "delete"
  /\ IF Exists(api[Kid]) THEN Write(Kid, Absent) ELSE NoWrite
  /\ EndPass(TRUE)
  /\ UNCHANGED <<crs, cache, bounds>>

restartFluentdPods ==
  /\ pc = "restart"
  /\ pods' = pods \ {"ds"}
  /\ EndPass(TRUE)
  /\ UNCHANGED <<crs, cache, api, fresh, bounds>>

(* The status lists the pods of both workloads.                            *)
updateStatus ==
  /\ pc = "chain" /\ pos = Len(Chain) + 1
  /\ \/ inst.status = pods /\ EndPass(FALSE) /\ UNCHANGED crs
     \/ /\ inst.status # pods /\ instCurrent
        /\ WriteCR([inst EXCEPT !.status = pods])
        /\ EndPass(FALSE)
     \/ inst.status # pods /\ ~instCurrent /\ EndPass(TRUE) /\ UNCHANGED crs
  /\ NoWrite
  /\ UNCHANGED <<cache, bounds>>

Worker ==
  \/ StartPass \/ GetInstance \/ SetDefaultStatus \/ enablePolicyControllerByDefault
  \/ GetChild \/ CreateChild \/ UpdateChild \/ DeleteChild \/ restartFluentdPods
  \/ updateStatus

-----------------------------------------------------------------------------
(* What goes wrong, MaxFaults times: a call is refused, the pods cannot be *)
(* listed or deleted, the process crashes.  A resync only wakes it up more *)
(* often and is left out.                                                  *)

ApiError ==
  /\ \/ pc \in {"default", "enable", "create", "update", "delete", "restart"}
     \/ pc = "chain" /\ pos = Len(Chain) + 1
  /\ EndPass(TRUE)
  /\ NoWrite
  /\ UNCHANGED <<crs, cache>>

Fault ==
  /\ faults > 0
  /\ faults' = faults - 1
  /\ ApiError \/ Restart
  /\ UNCHANGED userActs

-----------------------------------------------------------------------------
(* The informers and the cluster, as in CommonAudit.                       *)

SyncCR ==
  /\ ~crFresh
  /\ crCache' = cr /\ crFresh' = TRUE
  /\ queued' = TRUE
  /\ NoWrite
  /\ UNCHANGED <<cr, cache, worker, bounds>>

Unnoticed(before, after) == after.owned  \* mutant: a deletion wakes nobody
Enqueues(before, after)  == before.owned \/ after.owned

Sync(k) ==
  /\ ~fresh[k]
  /\ cache' = [cache EXCEPT ![k] = api[k]]
  /\ fresh' = [fresh EXCEPT ![k] = TRUE]
  /\ queued' = (queued \/ Enqueues(cache[k], api[k]))
  /\ UNCHANGED <<crs, api, pods, worker, bounds>>

StartPods(k) ==
  /\ Exists(api[k]) /\ k \notin pods
  /\ k = "ds" => \A c \in ConfigMaps \cap Children : Exists(api[c])
  /\ pods' = pods \cup {k}
  /\ fresh' = [fresh EXCEPT ![k] = FALSE]
  /\ Outdate(k)
  /\ UNCHANGED <<crs, api, cache, queued, pc, pos, inst, instCurrent, found, bounds>>

-----------------------------------------------------------------------------
(* The users, MaxUserActs times.                                           *)

UserEditsCR(s) ==
  /\ s # cr.spec
  /\ WriteCR([cr EXCEPT !.spec = s])
  /\ instCurrent' = FALSE
  /\ NoWrite /\ UNCHANGED foundCurrent

UserWrites(k, o) ==
  /\ o # api[k]
  /\ Write(k, o) /\ Outdate(k)
  /\ UNCHANGED <<crs, instCurrent>>

UserEditsChild(k) ==
  /\ Exists(api[k])
  /\ \/ \E v \in {"drifted"} \cup (IF k \in Wipes THEN {"broken"} ELSE {}) :
          UserWrites(k, [api[k] EXCEPT !.val = v])
     \/ UserWrites(k, [api[k] EXCEPT !.extra = Extensions(k)])
     \/ UserWrites(k, Absent)

UserCreatesChild(k) ==
  /\ ~Exists(api[k])
  /\ UserWrites(k, [val |-> "drifted", owned |-> FALSE, extra |-> Extensions(k)])

User ==
  /\ userActs > 0
  /\ userActs' = userActs - 1
  /\ \/ \E s \in Specs : UserEditsCR(s)
     \/ \E k \in Children \cap Touched : UserEditsChild(k)
     \/ \E k \in Children \cap Foreign : UserCreatesChild(k)
  /\ UNCHANGED <<cache, queued, pc, pos, inst, found, faults>>

-----------------------------------------------------------------------------
Next ==
  \/ Worker \/ Fault \/ SyncCR \/ User
  \/ \E k \in Children : Sync(k)
  \/ \E k \in Children \cap Workloads : StartPods(k)

Spec == Init /\ [][Next]_vars

-----------------------------------------------------------------------------
(* Correctness.                                                            *)

Quiescent == pc = "idle" /\ ~queued /\ crFresh /\ \A k \in Children : fresh[k]

(* Child k is what the CR asks for.  Of an object that users created,      *)
(* whose events wake nobody, nothing is promised.                          *)
Asked(k) == k = "policy" => cr.spec.policy = "true"
Settled(k) ==
  /\ api[k].owned => Asked(k) /\ Matches(k, api[k].val, cr.spec)
  /\ Exists(api[k]) \/ ~Asked(k) \/ k \in Foreign

(* When the operator rests, its children are what the CR asks for: above   *)
(* all, the policy controller is there exactly when the switch is on, and  *)
(* the switch has a value, whatever edits raced with its default.          *)
RestIsSettled ==
  Quiescent => cr.spec.policy # "" /\ \A k \in Children : Settled(k)

(* The operator writes to the spec of the CR for one purpose only: to give *)
(* an omitted switch its default.  It never takes back what a user chose,  *)
(* although it writes a copy of the whole spec it read from the cache.     *)
DefaultYields ==
  [][pc = "enable" /\ pc' # pc /\ cr' # cr =>
       cr.spec.policy = "" /\ cr'.spec = [cr.spec EXCEPT !.policy = "true"]]_vars

(* "Keep hostAliases" and "Keep Pod Labels" of the DaemonSet, "Keep label  *)
(* updates" of the policy controller: they are left by an update as they   *)
(* are at the moment of the write, not as they were when the object was    *)
(* read.  So is the owner of every object, no object is made or removed,   *)
(* and nothing appears that users took away.                               *)
Kept(k) == CASE k = "ds" -> {"labels", "aliases"} [] k = "policy" -> {"labels"} [] OTHER -> {}
Left(k, e) == {d \in SUBSET e : e \cap Kept(k) \subseteq d}
DataKept(k) ==
  /\ Exists(api'[k]) = Exists(api[k]) /\ api'[k].owned = api[k].owned
  /\ api'[k].extra \in Left(k, api[k].extra)
CustomersDataKept == [][pc = "update" /\ pc' # pc => \A k \in Kinds : DataKept(k)]_vars

(* The controller implements DesiredState, with specs that it completes by *)
(* the default of the switch, and with children that a spec asks to be     *)
(* absent.                                                                 *)
Satisfying(k, s) ==
  IF Wanted(k, s) THEN {v \in Values \ {"absent"} : Matches(k, v, s)} ELSE {"absent"}
WithDefault(s) == IF s.policy = "" THEN [s EXCEPT !.policy = "true"] ELSE s
Seen(o) == [val |-> o.val, owner |-> IF o.owned THEN 1 ELSE 0, extra |-> o.extra]

Promise == INSTANCE DesiredState WITH
  Specs       <- AllSpecs,
  Goal        <- Target,
  Accepted    <- Satisfying,
  Completed   <- WithDefault,
  Nothing     <- {},
  Left        <- Left,
  Replaceable <- {"svc", "policy"},
  Kinds       <- Children,
  Others      <- Touched \cup Foreign,
  Free        <- Foreign,
  uid         <- 1,
  asked       <- cr.spec,
  uids        <- 1,
  children    <- [k \in Children |-> Seen(api[k])],
  atRest      <- Quiescent,
  turns       <- userActs

ImplementsDesiredState == Promise!Spec

-----------------------------------------------------------------------------
(* The inductive invariant behind the three and ImplementsDesiredState.    *)

(* A copy that is called current is, and what is about to be written is    *)
(* what the pass has seen.                                                 *)
CopiesAreTrue ==
  /\ crFresh => crCache = cr
  /\ instCurrent => inst = cr
  /\ \A k \in Kinds : fresh[k] => cache[k] = api[k]
  /\ pc = "update" => Exists(found)
  /\ pc = "update" /\ foundCurrent => found = api[Kid]
  /\ pc = "enable" => inst.spec.policy = ""

(* A child that no user creates is owned exactly when it exists.           *)
WellOwned(k, o) == (o.owned => Exists(o)) /\ (Exists(o) /\ k \notin Foreign => o.owned)
ChildrenAreOwned == \A k \in Kinds : WellOwned(k, api[k]) /\ WellOwned(k, cache[k])

(* Child k as the cache has it is what the cached CR asks for.             *)
AskedInCache(k) == k = "policy" => crCache.spec.policy = "true"
SettledInCache(k) ==
  /\ cache[k].owned => AskedInCache(k) /\ Matches(k, cache[k].val, crCache.spec)
  /\ Exists(cache[k]) \/ ~AskedInCache(k) \/ k \in Foreign

(* Unless the key is in the queue, the pass works with the cached CR, and  *)
(* what it has accepted so far is still so in the cache; it has ended      *)
(* either with all accepted or with an event of the CR on its way.         *)
NoWakeUpMissed ==
  ~queued =>
    /\ pc = "idle" /\ crFresh =>
         crCache.spec.policy # "" /\ \A k \in Children : SettledInCache(k)
    /\ pc \in {"default", "chain"} => inst.spec = crCache.spec
    /\ pc = "chain" => \A i \in 1..(pos - 1) : SettledInCache(Chain[i])

(* What is gone has left nothing, and what may be about to be deleted.     *)
WritesAreLawful ==
  /\ \A k \in Kinds : Exists(api[k]) \/ api[k] = Absent
  /\ pc = "delete" => Kid \in {"svc", "policy"}

InductiveInvariant ==
  TypeOK /\ CopiesAreTrue /\ ChildrenAreOwned /\ NoWakeUpMissed /\ WritesAreLawful
=============================================================================

----------------------------- MODULE CommonAudit -----------------------------
(***************************************************************************)
(* The CommonAudit controller of the audit logging operator, working on    *)
(* one namespace: the custom resource, the objects ("children") the        *)
(* controller keeps for it, the informer caches it reads them through, its *)
(* one worker, and the users, garbage collector and kubelet around it.     *)
(*                                                                         *)
(* A pass of Reconcile reads the CR and then the children in the order of  *)
(* Chain, always from the caches.  The first child that is missing or      *)
(* wrong is written through the API server and ends the pass with a        *)
(* requeue; a pass that finds every child right ends at updateStatus.      *)
(* The gates of lines 87-107 are open here: this is a namespace with one   *)
(* CommonAudit and no AuditLogging.  Module Gates models the gates.        *)
(*                                                                         *)
(* Data is abstracted to what the code compares: a spec is what it asks of *)
(* each child it reaches, a child is a value, its owner and the presence   *)
(* of data the operator does not manage.  A resource version is only ever  *)
(* compared with the current one, so it is a flag "still current".         *)
(***************************************************************************)
EXTENDS Naturals, Sequences

CONSTANTS
  Chain,        \* the children in the order Reconcile visits them
  Specs,        \* the specs users give the CR
  Touched,      \* children that users edit, extend or delete
  Foreign,      \* children that users also create themselves, unowned
  Wipes,        \* ConfigMaps whose data users may wipe
  MaxUserActs,  \* bound on the actions of users
  MaxFaults     \* bound on API errors, lost replies, crashes and resyncs

Kinds == {"config", "source", "splunk", "qradar", "ingest", "godIssuer",
          "rootCert", "rootIssuer", "httpsCert", "secret", "sa", "svc", "deploy"}

SIEM       == {"splunk", "qradar"}
ConfigMaps == {"config", "source", "ingest"} \cup SIEM
SpecKinds  == {"config", "splunk", "qradar", "httpsCert", "deploy"}
CreateOnly == {"secret", "sa"}

(* A spec maps each child it reaches to a setting; "unset" is an omitted   *)
(* block.  The other values a child can have: "fixed", the one value of a  *)
(* child that no spec reaches; "drifted", an edit; "broken", a ConfigMap   *)
(* without the data the code expects.                                      *)
Settings == {"unset", "a", "b"}
Values   == Settings \cup {"absent", "fixed", "drifted", "broken"}

ASSUME ChainAssumption ==
  /\ Chain \in Seq(Kinds)
  /\ \A i, j \in DOMAIN Chain : Chain[i] = Chain[j] => i = j
ASSUME SpecsAssumption  == Specs \subseteq [SpecKinds -> Settings] /\ Specs # {}
ASSUME UsersAssumption  ==
  Touched \subseteq Kinds /\ Foreign \subseteq Kinds /\ Wipes \subseteq ConfigMaps
ASSUME BoundsAssumption == MaxUserActs \in Nat /\ MaxFaults \in Nat

Children == {Chain[i] : i \in DOMAIN Chain}

(* The order in which the code visits all its children: FluentdConfigMaps, *)
(* then the reconcilers of Reconcile.                                      *)
FullChain == <<"config", "source", "splunk", "qradar", "ingest", "godIssuer",
               "rootCert", "rootIssuer", "httpsCert", "secret", "sa", "svc", "deploy">>

-----------------------------------------------------------------------------
(* Objects.  An owner is the incarnation (UID) of the CR that controls the *)
(* object, 0 for nobody; extra is what users added to it where no update   *)
(* writes: pod labels, other keys of a ConfigMap, metadata, lines of an    *)
(* output config that none of UpdateSIEMConfig's patterns matches.         *)

Objects    == [val : Values, owner : Nat, extra : BOOLEAN]
Absent     == [val |-> "absent", owner |-> 0, extra |-> FALSE]
Exists(o)  == o.val # "absent"
Owned(o)   == Exists(o) /\ o.owner # 0

CRs  == [uid : Nat, spec : Specs, status : {"empty", "none", "pods"}]
NoCR == [uid |-> 0, spec |-> CHOOSE s \in Specs : TRUE, status |-> "empty"]

(* What the Build functions make of a child under spec s.                  *)
Target(k, s) == IF k \in SpecKinds THEN s[k] ELSE "fixed"

(* What the Equal functions accept: a child created once is never compared *)
(* and an output config is not compared when the spec omits its block.     *)
MatchesNoAdditions(k, v, s) ==  \* mutant: what is added to a config is drift
  k # "config" /\ (k \in CreateOnly \/ v = Target(k, s))
Matches(k, v, s) ==
  \/ k \in CreateOnly
  \/ k \in SIEM /\ s[k] = "unset"
  \/ v = Target(k, s)

(* The deployment's pods run with the configuration they mounted at start. *)
Pods   == [running : BOOLEAN, conf : [ConfigMaps -> Values]]
NoPods == [running |-> FALSE, conf |-> [k \in ConfigMaps |-> "absent"]]

VARIABLES
  cr,          \* the CR at the API server, NoCR when there is none
  crCache,     \* the CR in the informer's cache
  crFresh,     \* the cached CR is the current version
  api,         \* the children at the API server
  cache,       \* the children in the informers' caches
  fresh,       \* per child: the cached object is the current version
  ever,        \* children that have existed at some time (history variable)
  pods,        \* the fluentd pods: whether they run, and the configuration they mounted
  queued,      \* the CR's key waits in the work queue (its dirty set)
  pc,          \* where the worker is
  pos,         \* the position in Chain of the child the worker is at
  inst,        \* the pass's copy of the CR
  instCurrent, \* inst still has the CR's current resource version
  found,       \* the copy of the child that is being written
  foundCurrent,\* found still has the child's current resource version
  incarnation, \* UIDs given out so far
  userActs, faults  \* what is left of the bounds

vars == <<cr, crCache, crFresh, api, cache, fresh, ever, pods, queued, pc, pos,
          inst, instCurrent, found, foundCurrent, incarnation, userActs, faults>>

TypeOK ==
  /\ cr \in CRs /\ crCache \in CRs /\ inst \in CRs
  /\ api \in [Kinds -> Objects] /\ cache \in [Kinds -> Objects]
  /\ found \in Objects
  /\ fresh \in [Kinds -> BOOLEAN]
  /\ crFresh \in BOOLEAN /\ queued \in BOOLEAN
  /\ instCurrent \in BOOLEAN /\ foundCurrent \in BOOLEAN
  /\ ever \subseteq Kinds
  /\ pods \in Pods
  /\ pc \in {"idle", "get", "default", "chain", "create", "update", "delete", "restart"}
  /\ pos \in 1..(Len(Chain) + 1)
  /\ pc \in {"create", "update", "delete", "restart"} => pos <= Len(Chain)
  /\ pc \in {"idle", "get", "default"} => pos = 1
  /\ incarnation \in Nat
  /\ userActs \in 0..MaxUserActs /\ faults \in 0..MaxFaults

(* The operator has just started: the informers have listed a CR that was  *)
(* there before and put its key in the queue.                              *)
Init ==
  /\ \E s \in Specs : cr = [uid |-> 1, spec |-> s, status |-> "empty"]
  /\ crCache = cr /\ crFresh = TRUE
  /\ api = [k \in Kinds |-> Absent] /\ cache = api /\ fresh = [k \in Kinds |-> TRUE]
  /\ ever = {} /\ pods = NoPods
  /\ queued = TRUE /\ pc = "idle" /\ pos = 1
  /\ inst = NoCR /\ instCurrent = FALSE
  /\ found = Absent /\ foundCurrent = FALSE
  /\ incarnation = 1
  /\ userActs = MaxUserActs /\ faults = MaxFaults

-----------------------------------------------------------------------------
(* Writes to the API server.                                               *)

(* Child k becomes o; every older copy of it is outdated from now on.  A   *)
(* changed deployment replaces its pods, a changed ConfigMap does not reach*)
(* the running ones: its keys are mounted with a subPath.                  *)
Write(k, o) ==
  /\ api' = [api EXCEPT ![k] = o]
  /\ fresh' = [fresh EXCEPT ![k] = FALSE]
  /\ ever' = IF Exists(o) THEN ever \cup {k} ELSE ever
  /\ pods' = IF k = "deploy" /\ o.val # api[k].val THEN NoPods ELSE pods

Outdate(k) ==
  foundCurrent' = (foundCurrent /\ ~(pos <= Len(Chain) /\ Chain[pos] = k))

WriteCR(c) ==
  /\ cr' = c
  /\ crFresh' = FALSE

NoWrite == UNCHANGED <<api, fresh, ever, pods>>

-----------------------------------------------------------------------------
(* The worker.                                                             *)

(* The key is in the queue after a pass if an event or the pass added it.  *)
KeyForgotten(requeue) == requeue  \* mutant: events during a pass are dropped
KeyAfterPass(requeue) == queued \/ requeue

(* Reconcile returns; with a requeue or an error the key is added again.   *)
EndPass(requeue) ==
  /\ pc' = "idle" /\ pos' = 1
  /\ inst' = NoCR /\ instCurrent' = FALSE
  /\ found' = Absent /\ foundCurrent' = FALSE
  /\ queued' = KeyAfterPass(requeue)

(* The worker takes the key: from here on a new event makes it dirty again.*)
StartPass ==
  /\ pc = "idle" /\ queued
  /\ queued' = FALSE
  /\ pc' = "get"
  /\ NoWrite
  /\ UNCHANGED <<cr, crCache, crFresh, cache, pos, inst, instCurrent, found,
                 foundCurrent, incarnation, userActs, faults>>

GetInstance ==
  /\ pc = "get"
  /\ \/ /\ crCache.uid = 0
        /\ EndPass(FALSE)
     \/ /\ crCache.uid # 0
        /\ inst' = crCache /\ instCurrent' = crFresh
        /\ pc' = IF crCache.status = "empty" THEN "default" ELSE "chain"
        /\ UNCHANGED <<pos, found, foundCurrent, queued>>
  /\ NoWrite
  /\ UNCHANGED <<cr, crCache, crFresh, cache, incarnation, userActs, faults>>

(* Status().Update needs the current resource version; its reply refreshes *)
(* the copy that the rest of the pass works with.                          *)
SetDefaultStatus ==
  /\ pc = "default"
  /\ \/ /\ instCurrent
        /\ WriteCR([cr EXCEPT !.status = "none"])
        /\ inst' = [inst EXCEPT !.status = "none"]
        /\ pc' = "chain"
        /\ UNCHANGED <<pos, instCurrent, found, foundCurrent, queued>>
     \/ /\ ~instCurrent
        /\ EndPass(TRUE)
        /\ UNCHANGED <<cr, crFresh>>
  /\ NoWrite
  /\ UNCHANGED <<crCache, cache, incarnation, userActs, faults>>

(* The process restarts: it loses the pass and the queue, lists everything *)
(* again, and gets a create event for the CR and for every child.          *)
Restart ==
  /\ pc' = "idle" /\ pos' = 1
  /\ inst' = NoCR /\ instCurrent' = FALSE
  /\ found' = Absent /\ foundCurrent' = FALSE
  /\ crCache' = cr /\ crFresh' = TRUE
  /\ cache' = api /\ fresh' = [k \in Kinds |-> TRUE]
  /\ queued' = (cr.uid # 0 \/ \E k \in Kinds : Owned(api[k]))
  /\ UNCHANGED <<cr, api, ever, pods, incarnation>>

Kid == Chain[pos]

(* A ConfigMap without data: assigning to its nil map panics, while the    *)
(* comparison of an output config only finds its fields missing.           *)
Panics(k, o)   == o.val = "broken" /\ k \in ConfigMaps \ SIEM
RecreatesAll(k, o) == TRUE  \* mutant: what is wrong is deleted, never updated
Recreates(k, o) == k = "svc" \/ (k \in SIEM /\ o.val = "broken")

(* Reconcile leaves a child alone that is there and as expected.           *)
AcceptsAbsent(k, o, s) ==  \* mutant: a child created once is not looked for
  k \in CreateOnly \/ (Exists(o) /\ Matches(k, o.val, s))
Accepts(k, o, s) == Exists(o) /\ Matches(k, o.val, s)

(* Get the next child from its cache and compare it with the expected one. *)
GetChild ==
  /\ pc = "chain" /\ pos <= Len(Chain)
  /\ UNCHANGED <<cr, api, ever, pods, incarnation, userActs, faults>>
  /\ LET o == cache[Kid]
         ok == Accepts(Kid, o, inst.spec)
     IN  IF ~ok /\ Panics(Kid, o)
         THEN Restart
         ELSE /\ IF ok
                 THEN pos' = pos + 1 /\ UNCHANGED <<pc, found, foundCurrent>>
                 ELSE /\ pc' = IF ~Exists(o) THEN "create"
                               ELSE IF Recreates(Kid, o) THEN "delete" ELSE "update"
                      /\ found' = o
                      /\ foundCurrent' = fresh[Kid]
                      /\ UNCHANGED pos
              /\ UNCHANGED <<crCache, crFresh, cache, fresh, queued, inst, instCurrent>>

(* Create fails with AlreadyExists when the cache had not seen the object. *)
CreateChild ==
  /\ pc = "create"
  /\ IF Exists(api[Kid])
     THEN NoWrite
     ELSE Write(Kid, [val |-> Target(Kid, inst.spec), owner |-> inst.uid, extra |-> FALSE])
  /\ EndPass(TRUE)
  /\ UNCHANGED <<cr, crCache, crFresh, cache, incarnation, userActs, faults>>

(* The API server refuses an update unless the written copy is current.    *)
UpdateForced   == Exists(api[Kid])  \* mutant: no resource version is sent
UpdateAccepted == foundCurrent

RestartsForMain(k) == k = "config"  \* mutant: output configs forgotten
RestartsPods(k)    == k \in ConfigMaps

(* Update writes the found copy with the managed fields replaced.  Only a  *)
(* ConfigMap's update restarts the pods.                                   *)
UpdateChild ==
  /\ pc = "update"
  /\ \/ /\ UpdateAccepted
        /\ Write(Kid, [found EXCEPT !.val = Target(Kid, inst.spec)])
        /\ IF RestartsPods(Kid)
           THEN /\ pc' = "restart"
                /\ foundCurrent' = FALSE /\ found' = Absent
                /\ UNCHANGED <<pos, inst, instCurrent, queued>>
           ELSE EndPass(TRUE)
     \/ /\ ~UpdateAccepted
        /\ NoWrite
        /\ EndPass(TRUE)
  /\ UNCHANGED <<cr, crCache, crFresh, cache, incarnation, userActs, faults>>

(* Delete names the object only: whatever has that name is deleted.        *)
DeleteChild ==
  /\ pc = "delete"
  /\ IF Exists(api[Kid]) THEN Write(Kid, Absent) ELSE NoWrite
  /\ EndPass(TRUE)
  /\ UNCHANGED <<cr, crCache, crFresh, cache, incarnation, userActs, faults>>

RestartFluentdPods ==
  /\ pc = "restart"
  /\ pods' = NoPods
  /\ EndPass(TRUE)
  /\ UNCHANGED <<cr, crCache, crFresh, api, cache, fresh, ever, incarnation, userActs, faults>>

(* Without pods the status is the default one.                             *)
PodNamesEmpty == IF pods.running THEN "pods" ELSE ""  \* mutant: no default
PodNames == IF pods.running THEN "pods" ELSE "none"

(* Every child matched: record the pods in the status and return.          *)
UpdateStatus ==
  /\ pc = "chain" /\ pos = Len(Chain) + 1
  /\ \/ /\ inst.status = PodNames
        /\ EndPass(FALSE)
        /\ UNCHANGED <<cr, crFresh>>
     \/ /\ inst.status # PodNames /\ instCurrent
        /\ WriteCR([cr EXCEPT !.status = PodNames])
        /\ EndPass(FALSE)
     \/ /\ inst.status # PodNames /\ ~instCurrent
        /\ EndPass(TRUE)
        /\ UNCHANGED <<cr, crFresh>>
  /\ NoWrite
  /\ UNCHANGED <<crCache, cache, incarnation, userActs, faults>>

Worker ==
  \/ StartPass \/ GetInstance \/ SetDefaultStatus \/ GetChild \/ CreateChild
  \/ UpdateChild \/ DeleteChild \/ RestartFluentdPods \/ UpdateStatus

-----------------------------------------------------------------------------
(* What goes wrong around the worker, MaxFaults times.                     *)

(* The write that comes next is refused: an error is returned.             *)
ApiError ==
  /\ \/ pc \in {"default", "create", "update", "delete"}
     \/ pc = "chain" /\ pos = Len(Chain) + 1 /\ inst.status # PodNames
  /\ EndPass(TRUE)
  /\ NoWrite
  /\ UNCHANGED <<cr, crCache, crFresh, cache, incarnation, userActs>>

(* The update is done but its reply is lost: the pass ends without the     *)
(* restart that follows an update.                                         *)
LostReply ==
  /\ pc = "update" /\ UpdateAccepted
  /\ Write(Kid, [found EXCEPT !.val = Target(Kid, inst.spec)])
  /\ EndPass(TRUE)
  /\ UNCHANGED <<cr, crCache, crFresh, cache, incarnation, userActs>>

(* Listing or deleting the pods fails, which is logged and forgotten.      *)
RestartFails ==
  /\ pc = "restart"
  /\ EndPass(TRUE)
  /\ NoWrite
  /\ UNCHANGED <<cr, crCache, crFresh, cache, incarnation, userActs>>

Crash == Restart /\ UNCHANGED userActs

(* The periodic resync of the CR's informer.                               *)
Resync ==
  /\ crCache.uid # 0 /\ ~queued
  /\ queued' = TRUE
  /\ NoWrite
  /\ UNCHANGED <<cr, crCache, crFresh, cache, pc, pos, inst, instCurrent, found,
                 foundCurrent, incarnation, userActs>>

Fault ==
  /\ faults > 0
  /\ faults' = faults - 1
  /\ ApiError \/ LostReply \/ RestartFails \/ Crash \/ Resync

-----------------------------------------------------------------------------
(* The informers: a watch that lags catches up with the latest state.  An  *)
(* event of the CR enqueues it; an event of a child enqueues the name of   *)
(* its owner, before or after the event, whatever the owner's UID.         *)

SyncCR ==
  /\ ~crFresh
  /\ crCache' = cr /\ crFresh' = TRUE
  /\ queued' = TRUE
  /\ NoWrite
  /\ UNCHANGED <<cr, cache, pc, pos, inst, instCurrent, found, foundCurrent,
                 incarnation, userActs, faults>>

EnqueuesNew(before, after) == Owned(after)  \* mutant: a deletion wakes nobody
Enqueues(before, after)    == Owned(before) \/ Owned(after)

Sync(k) ==
  /\ ~fresh[k]
  /\ cache' = [cache EXCEPT ![k] = api[k]]
  /\ fresh' = [fresh EXCEPT ![k] = TRUE]
  /\ queued' = (queued \/ Enqueues(cache[k], api[k]))
  /\ UNCHANGED <<cr, crCache, crFresh, api, ever, pods, pc, pos, inst, instCurrent,
                 found, foundCurrent, incarnation, userActs, faults>>

-----------------------------------------------------------------------------
(* The cluster: the garbage collector and the deployment's pods.           *)

CollectGarbage(k) ==
  /\ Owned(api[k]) /\ api[k].owner # cr.uid
  /\ Write(k, Absent)
  /\ Outdate(k)
  /\ UNCHANGED <<cr, crCache, crFresh, cache, queued, pc, pos, inst, instCurrent,
                 found, incarnation, userActs, faults>>

(* New pods start once everything they mount exists; the deployment's      *)
(* status changes with them, and with it its resource version.             *)
StartPods ==
  /\ ~pods.running
  /\ "deploy" \in Children /\ Exists(api["deploy"])
  /\ \A k \in ConfigMaps \cap Children : Exists(api[k])
  /\ pods' = [running |-> TRUE, conf |-> [k \in ConfigMaps |-> api[k].val]]
  /\ fresh' = [fresh EXCEPT !["deploy"] = FALSE]
  /\ Outdate("deploy")
  /\ UNCHANGED <<cr, crCache, crFresh, api, cache, ever, queued, pc, pos, inst,
                 instCurrent, found, incarnation, userActs, faults>>

-----------------------------------------------------------------------------
(* The users, MaxUserActs times.                                           *)

UserCreatesCR(s) ==
  /\ cr.uid = 0
  /\ incarnation' = incarnation + 1
  /\ WriteCR([uid |-> incarnation + 1, spec |-> s, status |-> "empty"])
  /\ instCurrent' = FALSE
  /\ NoWrite /\ UNCHANGED foundCurrent

UserEditsCR(s) ==
  /\ cr.uid # 0 /\ s # cr.spec
  /\ WriteCR([cr EXCEPT !.spec = s])
  /\ instCurrent' = FALSE
  /\ NoWrite /\ UNCHANGED <<foundCurrent, incarnation>>

UserDeletesCR ==
  /\ cr.uid # 0
  /\ WriteCR(NoCR)
  /\ instCurrent' = FALSE
  /\ NoWrite /\ UNCHANGED <<foundCurrent, incarnation>>

UserWrites(k, o) ==
  /\ o # api[k]
  /\ Write(k, o)
  /\ Outdate(k)
  /\ UNCHANGED <<cr, crFresh, instCurrent, incarnation>>

UserEditsChild(k) ==
  /\ Exists(api[k])
  /\ \E v \in {"drifted", Target(k, cr.spec)} \cup (IF k \in Wipes THEN {"broken"} ELSE {}) :
       UserWrites(k, [api[k] EXCEPT !.val = v])

UserExtendsChild(k) ==
  Exists(api[k]) /\ UserWrites(k, [api[k] EXCEPT !.extra = TRUE])

UserDeletesChild(k) ==
  Exists(api[k]) /\ UserWrites(k, Absent)

UserCreatesChild(k) ==
  /\ ~Exists(api[k])
  /\ UserWrites(k, [val |-> "drifted", owner |-> 0, extra |-> TRUE])

User ==
  /\ userActs > 0
  /\ userActs' = userActs - 1
  /\ \/ \E s \in Specs : UserCreatesCR(s) \/ UserEditsCR(s)
     \/ UserDeletesCR
     \/ \E k \in Children \cap Touched :
          UserEditsChild(k) \/ UserExtendsChild(k) \/ UserDeletesChild(k)
     \/ \E k \in Children \cap Foreign : UserCreatesChild(k)
  /\ UNCHANGED <<crCache, cache, queued, pc, pos, inst, found, faults>>

-----------------------------------------------------------------------------
Next ==
  \/ Worker \/ Fault \/ SyncCR \/ User \/ StartPods
  \/ \E k \in Children : Sync(k) \/ CollectGarbage(k)

Spec == Init /\ [][Next]_vars

(* The worker's goroutine, the watches, the collector and the kubelet keep *)
(* running; users and faults owe nothing.                                  *)
Fairness ==
  /\ WF_vars(Worker) /\ WF_vars(SyncCR) /\ WF_vars(StartPods)
  /\ \A k \in Children : WF_vars(Sync(k)) /\ WF_vars(CollectGarbage(k))

FairSpec == Spec /\ Fairness

-----------------------------------------------------------------------------
(* Correctness.                                                            *)

(* Nothing will move unless a user or a fault does: the worker is idle, no *)
(* event is on its way, nothing is left to collect.                        *)
Quiescent ==
  /\ pc = "idle" /\ ~queued /\ crFresh
  /\ \A k \in Children : /\ fresh[k]
                         /\ Owned(api[k]) => api[k].owner = cr.uid

(* Child k is what the CR asks for.  An object that users created is       *)
(* nobody's: its events wake nobody up, so nothing is promised of it.      *)
Settled(k) ==
  /\ Exists(api[k]) \/ k \in Foreign
  /\ Owned(api[k]) => Matches(k, api[k].val, cr.spec)

(* No wake-up is missed: when the operator rests and nothing is on its way *)
(* to it, every child it owns matches the CR's current spec, whatever      *)
(* edits, deletions, conflicts, errors, crashes and re-creations of the CR *)
(* came before (work queue, watches and Reconcile together).               *)
QuiescentIsSettled ==
  Quiescent /\ cr.uid # 0 => \A k \in Children : Settled(k)

(* The chain's order is kept although every pass restarts it and reads     *)
(* caches that lag: a child has existed only if every child before it has  *)
(* (the deployment's pods mount the ConfigMaps, certificates and account). *)
PrerequisitesFirst ==
  \A i \in DOMAIN Chain : Chain[i] \in ever /\ Chain[i] \notin Foreign =>
    \A j \in 1..(i - 1) : Chain[j] \in ever

(* No update of the operator is lost or overwrites one: a write decided on *)
(* a cached copy leaves the owner and the unmanaged data of the object as  *)
(* they are at that moment, and nothing is created over an object.         *)
WritesKeepUnmanagedData ==
  [][\A k \in Kinds :
       /\ pc = "update" /\ pc' # pc /\ api'[k] # api[k]
            => Exists(api[k]) /\ api'[k] = [api[k] EXCEPT !.val = api'[k].val]
       /\ pc = "create" /\ pc' # pc /\ api'[k] # api[k]
            => ~Exists(api[k])]_vars

(* The operator comes to rest once users and faults do: its own writes,    *)
(* whose events wake it up again, do not keep it busy for ever.            *)
EventuallyQuiet == <>[]Quiescent

(* What the tests say of drift: "Should check and update them with the     *)
(* expected configs accordingly".                                          *)
DriftIsRepaired == <>[](cr.uid # 0 => \A k \in Children : Settled(k))

(* The controller implements DesiredState: behind its caches, its queue and*)
(* passes that start over, are refused and crash, it makes one change to   *)
(* one child at a time, each of which some spec asks for and none of which *)
(* touches what others own, and it rests only where all is as asked.       *)
Satisfying(k, s) == {v \in Values \ {"absent"} : Matches(k, v, s)}
Untouched(k, e)  == {e}

Promise == INSTANCE DesiredState WITH
  Nothing     <- FALSE,
  Left        <- Untouched,
  Goal        <- Target,
  Accepted    <- Satisfying,
  Completed   <- LAMBDA s : s,
  Replaceable <- {"svc"} \cup SIEM,
  Kinds       <- Children,
  Others      <- Touched \cup Foreign,
  Free        <- Foreign,
  uid         <- cr.uid,
  asked       <- cr.spec,
  uids        <- incarnation,
  children    <- api,
  atRest      <- Quiescent,
  turns       <- userActs

ImplementsDesiredState == Promise!Spec

-----------------------------------------------------------------------------
(* The inductive invariant behind QuiescentIsSettled, the action property  *)
(* WritesKeepUnmanagedData and ImplementsDesiredState.                     *)

(* A copy that is called current is.                                       *)
CopiesAreTrue ==
  /\ crFresh => crCache = cr
  /\ \A k \in Kinds : fresh[k] => cache[k] = api[k]
  /\ pc = "update" => Exists(found)
  /\ pc \in {"create", "update", "delete"} /\ foundCurrent => found = api[Kid]

(* A child that no user creates has an owner whenever it exists.           *)
ChildrenAreOwned ==
  /\ \A k \in Kinds \ Foreign : /\ Exists(api[k]) => Owned(api[k])
                                /\ Exists(cache[k]) => Owned(cache[k])
  /\ pc \in {"default", "chain", "create", "update", "delete", "restart"} => inst.uid # 0

(* Child k as the cache has it is what the cached CR asks for.             *)
SettledInCache(k) ==
  /\ Exists(cache[k]) \/ k \in Foreign
  /\ Owned(cache[k]) => Matches(k, cache[k].val, crCache.spec)

(* Unless the key is in the queue, the pass works with the cached CR, and  *)
(* what it has accepted so far, or accepted last, is still so in the cache.*)
NoWakeUpMissed ==
  ~queued =>
    /\ pc = "idle" /\ crCache.uid # 0 => \A k \in Children : SettledInCache(k)
    /\ pc \in {"default", "chain"} => inst.spec = crCache.spec
    /\ pc \in {"default", "chain"} => \A i \in 1..(pos - 1) : SettledInCache(Chain[i])

(* What a pass may write, with which owner, and what it may delete.        *)
WritesAreLawful ==
  /\ \A k \in Kinds : Exists(api[k]) \/ api[k] = Absent
  /\ \A c \in {cr, crCache, inst} : c.uid <= incarnation
  /\ pc = "delete" => Kid \in {"svc"} \cup SIEM

InductiveInvariant ==
  TypeOK /\ CopiesAreTrue /\ ChildrenAreOwned /\ NoWakeUpMissed /\ WritesAreLawful

(* The inductive invariant behind PrerequisitesFirst: the pass has seen    *)
(* every child before the one it is at.                                    *)
OrderInvariant ==
  /\ TypeOK
  /\ \A k \in Kinds : Exists(api[k]) \/ Exists(cache[k]) => k \in ever
  /\ pc \in {"chain", "create", "update", "delete", "restart"} =>
       \A i \in 1..(pos - 1) : Chain[i] \in ever
  /\ PrerequisitesFirst
==============================================================================

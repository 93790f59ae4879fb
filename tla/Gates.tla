------------------------------- MODULE Gates -------------------------------
(***************************************************************************)
(* Admission: which AuditLogging and CommonAudit resources are served.     *)
(*                                                                         *)
(* The two controllers share the process and its caches, and both keep     *)
(* objects of the same names in the common services namespace.  Each pass  *)
(* of either Reconcile therefore lists the resources that could be in its  *)
(* way, from the caches, and returns without a requeue when it finds one.  *)
(* The workers start once the caches have listed what there is.            *)
(*                                                                         *)
(* What an admitted pass does to the children is one step here, on one     *)
(* child that all resources of a place share, and an event of that child   *)
(* comes with its change; module CommonAudit has the details.  What Gates  *)
(* adds is the hand-over: objects that a predecessor has left.             *)
(***************************************************************************)
EXTENDS Naturals, FiniteSets

CONSTANTS
  AuditLoggings,   \* names of AuditLogging resources (cluster scoped)
  CommonAudits,    \* names of CommonAudit resources
  CSNamespaced,    \* the CommonAudits in the common services namespace
  Resynced,        \* the kinds whose informer resyncs periodically
  ListsFail,       \* whether a List of a gate can fail
  MaxUserActs,     \* bound on creations, edits and deletions
  MaxFaults        \* bound on failing calls and crashes

ASSUME NamesAssumption ==
  /\ IsFiniteSet(AuditLoggings) /\ IsFiniteSet(CommonAudits)
  /\ AuditLoggings \cap CommonAudits = {}
  /\ CSNamespaced \subseteq CommonAudits
ASSUME ModeAssumption == Resynced \subseteq {"AL", "CA"} /\ ListsFail \in BOOLEAN
ASSUME BoundsAssumption == MaxUserActs \in Nat /\ MaxFaults \in Nat

Kinds == {"AL", "CA"}
Names == AuditLoggings \cup CommonAudits
NamesOf(kind) == IF kind = "AL" THEN AuditLoggings ELSE CommonAudits
KindMixed(c) == "CA"  \* mutant: a controller is set up For the other kind
KindOf(c) == IF c \in AuditLoggings THEN "AL" ELSE "CA"
NoName == "none"

(* Where the children are: the common services namespace or another one.   *)
Places   == {"cs", "elsewhere"}
Place(c) == IF c \in AuditLoggings \cup CSNamespaced THEN "cs" ELSE "elsewhere"

(* A resource: the user changes that created it (0 when it does not exist) *)
(* and last edited it, whether its status and EnableAuditPolicy are set.   *)
Resources == [born : Nat, change : Nat, status : BOOLEAN, policy : BOOLEAN]
Gone      == [born |-> 0, change |-> 0, status |-> FALSE, policy |-> FALSE]
Exists(r) == r.born # 0

(* The children of a place: the resource that owns them, whose UID is its  *)
(* birth, and the change of a resource that they were last brought to.     *)
Nobody == [owner |-> NoName, born |-> 0, change |-> 0]
Owners == [owner : Names, born : Nat, change : Nat] \cup {Nobody}

VARIABLES
  crs,      \* the resources at the API server
  seen,     \* the resources in the caches
  synced,   \* the kinds whose informer has listed its resources
  queue,    \* the names in the controllers' work queues
  at,       \* per controller: where its worker is
  name,     \* per controller: the name it works on
  inst,     \* per controller: its copy of the resource
  kids,     \* the children in each place
  old,      \* resources that are as old as the process (history variable)
  blind,    \* the process has passed a gate whose List failed (history variable)
  changes,  \* user changes so far
  faults    \* what is left of MaxFaults

worker  == <<at, name, inst>>
history == <<old, blind>>
vars    == <<crs, seen, synced, queue, worker, kids, history, changes, faults>>

TypeOK ==
  /\ crs \in [Names -> Resources] /\ seen \in [Names -> Resources]
  /\ queue \subseteq Names
  /\ at \in [Kinds -> {"idle", "status", "own", "other", "admitted"}]
  /\ name \in [Kinds -> Names \cup {NoName}]
  /\ \A kind \in Kinds : at[kind] # "idle" => name[kind] \in NamesOf(kind)
  /\ inst \in [Kinds -> Resources]
  /\ kids \in [Places -> Owners]
  /\ synced \subseteq Kinds /\ old \subseteq Names /\ blind \in BOOLEAN
  /\ \A c \in Names : Exists(seen[c]) => KindOf(c) \in synced
  /\ \A c \in Names : crs[c].change \in crs[c].born..changes /\ seen[c].change <= changes
  /\ changes \in 0..MaxUserActs /\ faults \in 0..MaxFaults

Init ==
  /\ crs = [c \in Names |-> Gone] /\ seen = crs /\ synced = {}
  /\ queue = {}
  /\ at = [kind \in Kinds |-> "idle"]
  /\ name = [kind \in Kinds |-> NoName]
  /\ inst = [kind \in Kinds |-> Gone]
  /\ kids = [p \in Places |-> Nobody]
  /\ old = {} /\ blind = FALSE
  /\ changes = 0 /\ faults = MaxFaults

-----------------------------------------------------------------------------
(* The gates.  CommonAudit looks at the other kind first, AuditLogging at  *)
(* its own.                                                                *)

OwnLimit == 1

(* What List returns is in the cache's store.                              *)
List(kind) == {c \in NamesOf(kind) : Exists(seen[c])}

(* The resources of c's own kind and scope, c included.                    *)
OwnListed(c) ==
  IF c \in AuditLoggings THEN List("AL")
  ELSE {d \in List("CA") : d \in CSNamespaced <=> c \in CSNamespaced}

(* The resources of the other kind that c must not run alongside.          *)
OtherListed(c) ==
  IF c \in AuditLoggings THEN List("CA") \cap CSNamespaced
  ELSE IF c \in CSNamespaced THEN List("AL") ELSE {}

OwnGateCounts(c)  == Cardinality(OwnListed(c)) < OwnLimit  \* mutant: off by one
OwnGateOpen(c)    == Cardinality(OwnListed(c)) <= OwnLimit
OtherGateFails(c) == Cardinality(OtherListed(c)) <= 1  \* mutant: > 1 for > 0
OtherGateOpen(c)  == OtherListed(c) = {}

GatesForgotten(kind) == "admitted"  \* mutant: nothing is listed
First(kind) == IF kind = "AL" THEN "own" ELSE "other"
Second(gate, kind) == IF gate = First(kind) THEN (IF gate = "own" THEN "other" ELSE "own")
                                            ELSE "admitted"

-----------------------------------------------------------------------------
(* The workers.                                                            *)

GoTo(kind, place) == at' = [at EXCEPT ![kind] = place]

EndPass(kind, requeue) ==
  /\ GoTo(kind, "idle")
  /\ queue' = IF requeue THEN queue \cup {name[kind]} ELSE queue
  /\ name' = [name EXCEPT ![kind] = NoName]
  /\ inst' = [inst EXCEPT ![kind] = Gone]

(* The manager starts the workers after the caches have synced.            *)
AnyCacheSynced == synced # {}  \* mutant: one informer is enough
CachesSynced   == synced = Kinds

(* What a cache does not have, the cache of the watch-namespace mode asks  *)
(* of the API server, for an AuditLogging in the common services namespace;*)
(* AuditLoggings are in no namespace, so neither cache finds more.         *)
FromClient(c) == Gone
Get(c) == IF Exists(seen[c]) THEN seen[c] ELSE FromClient(c)

(* A worker takes a name and reads the resource from the cache.            *)
StartPass(c) ==
  LET kind == KindOf(c) IN
  /\ CachesSynced
  /\ at[kind] = "idle" /\ c \in queue
  /\ queue' = queue \ {c}
  /\ \/ ~Exists(Get(c)) /\ UNCHANGED worker
     \/ /\ Exists(Get(c))
        /\ name' = [name EXCEPT ![kind] = c]
        /\ inst' = [inst EXCEPT ![kind] = Get(c)]
        /\ GoTo(kind, IF Get(c).status THEN First(kind) ELSE "status")
  /\ UNCHANGED <<crs, seen, synced, kids, history, changes, faults>>

(* An update of the resource needs its current version.                    *)
UpdateInstance(kind, r) ==
  /\ crs[name[kind]] = inst[kind]
  /\ crs' = [crs EXCEPT ![name[kind]] = r]

Conflict(kind) == crs[name[kind]] # inst[kind]

SetDefaultStatus(kind) ==
  /\ at[kind] = "status"
  /\ LET r == [inst[kind] EXCEPT !.status = TRUE]
     IN  \/ /\ UpdateInstance(kind, r)
            /\ inst' = [inst EXCEPT ![kind] = r]
            /\ GoTo(kind, First(kind))
            /\ UNCHANGED <<queue, name>>
         \/ /\ Conflict(kind)
            /\ EndPass(kind, TRUE)
            /\ UNCHANGED crs
  /\ UNCHANGED <<seen, synced, kids, history, changes, faults>>

(* A closed gate warns in an event and ends the pass: no requeue.          *)
PassGate(kind) ==
  /\ at[kind] \in {"own", "other"}
  /\ LET c == name[kind]
         open == IF at[kind] = "own" THEN OwnGateOpen(c) ELSE OtherGateOpen(c)
     IN  \/ /\ open
            /\ GoTo(kind, Second(at[kind], kind))
            /\ UNCHANGED <<queue, name, inst>>
         \/ ~open /\ EndPass(kind, FALSE)
  /\ UNCHANGED <<crs, seen, synced, kids, history, changes, faults>>

(* A gate whose List fails is passed.                                      *)
ListFails(kind) ==
  /\ ListsFail
  /\ at[kind] \in {"own", "other"} /\ faults > 0
  /\ faults' = faults - 1
  /\ GoTo(kind, Second(at[kind], kind))
  /\ blind' = TRUE
  /\ UNCHANGED <<crs, seen, synced, queue, name, inst, kids, old, changes>>

NeedsPolicy(kind) == kind = "AL" /\ ~inst[kind].policy

(* An AuditLogging without EnableAuditPolicy gets the default, and nothing *)
(* else in this pass; the update's own event starts the next one.          *)
EnablePolicyControllerByDefault(kind) ==
  /\ at[kind] = "admitted" /\ NeedsPolicy(kind)
  /\ \/ /\ UpdateInstance(kind, [inst[kind] EXCEPT !.policy = TRUE])
        /\ EndPass(kind, FALSE)
     \/ /\ Conflict(kind)
        /\ EndPass(kind, TRUE)
        /\ UNCHANGED crs
  /\ UNCHANGED <<seen, synced, kids, history, changes, faults>>

(* The reconcilers create the children, or bring them to what the copy asks*)
(* for.  What another resource has left under the same names they take as  *)
(* it is or update, which leaves its owner, unless the API server refuses: *)
(* its selector, which names the CR, cannot be changed.                    *)
ReconcileChildren(kind) ==
  /\ at[kind] = "admitted" /\ ~NeedsPolicy(kind)
  /\ LET c    == name[kind]
         p    == Place(c)
         mine == [owner |-> c, born |-> inst[kind].born, change |-> inst[kind].change]
         left == kids[p] # Nobody /\ (kids[p].owner # c \/ kids[p].born # mine.born)
     IN  \/ ~left /\ kids' = [kids EXCEPT ![p] = mine] /\ EndPass(kind, FALSE)
         \/ left /\ kids' = [kids EXCEPT ![p].change = mine.change] /\ EndPass(kind, FALSE)
         \/ left /\ kids[p].owner # c /\ UNCHANGED kids /\ EndPass(kind, TRUE)
  /\ UNCHANGED <<crs, seen, synced, history, changes, faults>>

(* A call of the pass fails and an error is returned.                      *)
PassFails(kind) ==
  /\ at[kind] \in {"status", "admitted"} /\ faults > 0
  /\ faults' = faults - 1
  /\ EndPass(kind, TRUE)
  /\ UNCHANGED <<crs, seen, synced, kids, history, changes>>

Worker(kind) ==
  \/ SetDefaultStatus(kind) \/ PassGate(kind)
  \/ EnablePolicyControllerByDefault(kind) \/ ReconcileChildren(kind)

-----------------------------------------------------------------------------
(* The informers and the process.                                          *)

(* An informer starts with a list.                                         *)
ListSync(kind) ==
  /\ kind \notin synced
  /\ synced' = synced \cup {kind}
  /\ seen' = [c \in Names |-> IF KindOf(c) = kind THEN crs[c] ELSE seen[c]]
  /\ queue' = queue \cup {c \in NamesOf(kind) : Exists(crs[c])}
  /\ UNCHANGED <<crs, worker, kids, history, changes, faults>>

Sync(c) ==
  /\ KindOf(c) \in synced /\ seen[c] # crs[c]
  /\ seen' = [seen EXCEPT ![c] = crs[c]]
  /\ queue' = queue \cup {c}
  /\ UNCHANGED <<crs, synced, worker, kids, history, changes, faults>>

(* A resync delivers an update event for everything in a cache; that of    *)
(* the children's informers, a wake-up of their owners.                    *)
Resync(kind) ==
  /\ queue' = queue \cup {c \in NamesOf(kind) :
                            \/ kind \in Resynced /\ Exists(seen[c])
                            \/ \E p \in Places : kids[p].owner = c}
  /\ UNCHANGED <<crs, seen, synced, worker, kids, history, changes, faults>>

(* The process restarts with empty caches.                                 *)
Crash ==
  /\ faults > 0
  /\ faults' = faults - 1
  /\ seen' = [c \in Names |-> Gone] /\ synced' = {}
  /\ queue' = {}
  /\ at' = [kind \in Kinds |-> "idle"]
  /\ name' = [kind \in Kinds |-> NoName]
  /\ inst' = [kind \in Kinds |-> Gone]
  /\ old' = {c \in Names : Exists(crs[c])} /\ blind' = FALSE
  /\ UNCHANGED <<crs, kids, changes>>

(* The garbage collector removes the children of a resource that is gone;  *)
(* the event wakes up whoever has the name of their owner.                 *)
CollectGarbage(p) ==
  /\ kids[p] # Nobody /\ crs[kids[p].owner].born # kids[p].born
  /\ kids' = [kids EXCEPT ![p] = Nobody]
  /\ queue' = queue \cup {kids[p].owner}
  /\ UNCHANGED <<crs, seen, synced, worker, history, changes, faults>>

(* Users create, edit and delete resources.                                *)
UserCreates(c) ==
  /\ ~Exists(crs[c])
  /\ crs' = [crs EXCEPT ![c] = [Gone EXCEPT !.born = changes + 1, !.change = changes + 1]]
  /\ UNCHANGED old

UserEdits(c) ==
  /\ Exists(crs[c])
  /\ crs' = [crs EXCEPT ![c].change = changes + 1]
  /\ UNCHANGED old

UserDeletes(c) ==
  /\ Exists(crs[c])
  /\ crs' = [crs EXCEPT ![c] = Gone]
  /\ old' = old \ {c}

User(c) ==
  /\ changes < MaxUserActs
  /\ changes' = changes + 1
  /\ UserCreates(c) \/ UserEdits(c) \/ UserDeletes(c)
  /\ UNCHANGED <<seen, synced, queue, worker, kids, blind, faults>>

Next ==
  \/ \E kind \in Kinds : Worker(kind) \/ ListFails(kind) \/ PassFails(kind)
                         \/ ListSync(kind) \/ Resync(kind)
  \/ \E c \in Names : StartPass(c) \/ Sync(c) \/ User(c)
  \/ \E p \in Places : CollectGarbage(p)
  \/ Crash

Spec == Init /\ [][Next]_vars

(* Passes end, watches and the collector go on, a resync comes again and   *)
(* again, and the work queues are first in, first out: a name that shares  *)
(* its queue with others does not wait in it for ever.                     *)
Contended == {c \in Names : NamesOf(KindOf(c)) # {c}}

Fairness ==
  /\ \A kind \in Kinds : WF_vars(Worker(kind)) /\ WF_vars(Resync(kind))
  /\ \A c \in Names \ Contended : WF_vars(StartPass(c))
  /\ \A c \in Contended : SF_vars(StartPass(c))
  /\ WF_vars(\E kind \in Kinds : ListSync(kind))
  /\ WF_vars(\E c \in Names : Sync(c))
  /\ WF_vars(\E p \in Places : CollectGarbage(p))

FairSpec == Spec /\ Fairness

-----------------------------------------------------------------------------
(* Correctness.                                                            *)

(* Resources that must not be served together.                             *)
Rivals(c, d) ==
  /\ c # d
  /\ \/ {c, d} \subseteq AuditLoggings
     \/ {c, d} \subseteq CSNamespaced
     \/ {c, d} \subseteq CommonAudits \ CSNamespaced
     \/ c \in AuditLoggings /\ d \in CSNamespaced
     \/ c \in CSNamespaced /\ d \in AuditLoggings

(* "Delete one or the other to proceed": once a resource is and stays the  *)
(* only one of its scope, the children are its own and at its latest       *)
(* change, whoever was there before, however the deletion of its rivals    *)
(* met the passes they blocked, and whatever its passes made of objects    *)
(* that the garbage collector then took away.                              *)
SurvivorProceeds ==
  \A c \in Names :
    <>[](Exists(crs[c]) /\ \A d \in Names : Rivals(c, d) => ~Exists(crs[d]))
      => <>[](kids[Place(c)] = [owner |-> c, born |-> crs[c].born, change |-> crs[c].change])

(* Rivals that stay are in the end both refused: no pass of either reaches *)
(* the children they would fight over, however stale the lists that        *)
(* admitted them before.                                                   *)
RivalPairs == {p \in SUBSET Names : \E c, d \in Names : p = {c, d} /\ Rivals(c, d)}

RivalsAreRefused ==
  \A p \in RivalPairs :
    <>[](\A c \in p : Exists(crs[c]))
      => <>[](\A kind \in Kinds : at[kind] = "admitted" => name[kind] \notin p)

(* A copy of a resource that still exists.                                 *)
Alive(kind) == crs[name[kind]].born = inst[kind].born

(* "CommonAudit cannot run alongside AuditLogging in the same namespace":  *)
(* no pass of an AuditLogging and pass of a CommonAudit in its namespace   *)
(* are past their gates together, unless a user has meanwhile deleted one. *)
(* Each gate reads a cache that lags; the two caches are the process's own *)
(* and each pass starts from an entry of its resource in one of them.  A   *)
(* gate whose List fails lets a pass through: none may have failed.        *)
NeverAlongside ==
  (/\ ~blind
   /\ at["AL"] = "admitted" /\ at["CA"] = "admitted" /\ name["CA"] \in CSNamespaced)
    => \E kind \in Kinds : ~Alive(kind)

(* A restart opens no gate: resources that were there when the process     *)
(* started keep their rivals out from its very first pass on, although its *)
(* caches start empty and fill one after the other.                        *)
RestartOpensNoGate ==
  \A kind \in Kinds :
    ~blind /\ at[kind] = "admitted" /\ Alive(kind) => ~\E d \in old : Rivals(name[kind], d)

-----------------------------------------------------------------------------
(* The inductive invariant behind NeverAlongside and RestartOpensNoGate.   *)

(* What a pass has found in the cache is there as long as the resource is  *)
(* the one that the pass works for: a successor has another birth.         *)
PassesAreListed ==
  /\ \A c \in Names : seen[c].born <= changes
  /\ \A kind \in Kinds : at[kind] # "idle" =>
       /\ synced = Kinds
       /\ inst[kind].born \in 1..changes
       /\ Alive(kind) => Exists(seen[name[kind]])

(* An informer's first list has all that is as old as the process.         *)
OldAreListed ==
  \A d \in old : Exists(crs[d]) /\ (KindOf(d) \in synced => Exists(seen[d]))

(* The gates that a pass has behind it.                                    *)
Passed(kind, gate) ==
  \/ at[kind] = "admitted"
  \/ at[kind] \in {"own", "other"} /\ at[kind] # gate /\ gate = First(kind)

(* A pass whose resource still exists has met none of the old rivals that  *)
(* its gates look for, and no live pass of the other kind: the later of two*)
(* finds the resource of the earlier one in the cache.                     *)
OwnRivals(c)   == {d \in Names : Rivals(c, d) /\ KindOf(d) = KindOf(c)}
OtherRivals(c) == {d \in Names : Rivals(c, d) /\ KindOf(d) # KindOf(c)}

GatesHold ==
  ~blind =>
    /\ \A kind \in Kinds :
         /\ Passed(kind, "own") /\ Alive(kind) => old \cap OwnRivals(name[kind]) = {}
         /\ Passed(kind, "other") /\ Alive(kind) => old \cap OtherRivals(name[kind]) = {}
    /\ Passed("AL", "other") /\ Passed("CA", "other") /\ name["CA"] \in CSNamespaced =>
         \E kind \in Kinds : ~Alive(kind)

InductiveInvariant == TypeOK /\ PassesAreListed /\ OldAreListed /\ GatesHold
=============================================================================

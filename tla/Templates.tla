------------------------------ MODULE Templates ------------------------------
(***************************************************************************)
(* The objects that both controllers build, field by field: which fields   *)
(* the Build functions fill from the CR, which of them the Equal functions *)
(* compare, which an update keeps, and what the API server makes of the    *)
(* rest.                                                                   *)
(*                                                                         *)
(* The container of the fluentd pods comes from one package variable,      *)
(* fluentdMainContainer.  BuildDeploymentForFluentd (CommonAudit) and      *)
(* BuildDaemonForFluentd (AuditLogging) assign its fields one by one and   *)
(* then copy it into the object they return, without a lock, and the       *)
(* workers of the two controllers are two goroutines.                      *)
(*                                                                         *)
(* One certificate stands for the certificates and issuers, one secret for *)
(* all that is created once, CPU for CPU and memory.  Objects are read     *)
(* without a lag, which is CommonAudit's subject.  The caches of the       *)
(* default mode hold only what has the operator's label: Get reads the API *)
(* server for the rest, but the rest sends no events.                      *)
(***************************************************************************)
EXTENDS Naturals, Sequences

CONSTANTS
  Chain,       \* per controller: the objects in the order it visits them
  Overlap,     \* whether passes of the two controllers overlap
  Filtered,    \* whether the caches select objects by the operator's label
  Confs,       \* what a CR can ask for
  MaxUserActs  \* bound on the actions of users

Controllers == {"CA", "AL"}
FullChain == [CA |-> <<"certificate", "secret", "service", "deployment">>,
              AL |-> <<"policy", "daemonset">>]
Fluentd   == {"deployment", "daemonset"}
Shared    == {"mounts", "pull", "resources"}  \* of fluentdMainContainer
Workloads == Fluentd \cup {"policy"}
AllObjects == Workloads \cup {"certificate", "secret", "service"}
Owner(o)   == IF o \in {"policy", "daemonset"} THEN "AL" ELSE "CA"

(* A requested resource is <<limit, request>>, 0 for an omitted one; the   *)
(* host aliases of a CR are none, some that are valid, or all invalid.     *)
AllConfs == [pull : {"", "Always", "PullNever", "Never"}, resources : (0..9) \X (0..9),
             replicas : 0..9, aliases : {"none", "valid", "invalid"}, rest : {"a", "b"}]

ASSUME ChainAssumption ==
  /\ Chain \in [Controllers -> Seq(AllObjects)]
  /\ \A c \in Controllers : \A i, j \in DOMAIN Chain[c] :
       Owner(Chain[c][i]) = c /\ (Chain[c][i] = Chain[c][j] => i = j)
ASSUME ModeAssumption    == Overlap \in BOOLEAN /\ Filtered \in BOOLEAN
ASSUME ConfsAssumption   == Confs \subseteq AllConfs /\ Confs # {}
ASSUME BoundsAssumption  == MaxUserActs \in Nat

Objects == UNION {{Chain[c][i] : i \in DOMAIN Chain[c]} : c \in Controllers}

-----------------------------------------------------------------------------
(* The builders.  An object is a record of the fields that matter: "pod" is*)
(* what all pod templates of a kind have in common and the comparison looks*)
(* at (annotations, account, image, ports, security context), "unseen" what*)
(* it does not look at (volumes, tolerations, affinity, probes), "labels"  *)
(* the pod's labels.                                                       *)

PullAsIs(p) == p  \* mutant: what the CR says is not translated
getPullPolicy(p) ==
  CASE p = "Always" -> "Always" [] p = "PullNever" -> "Never" [] OTHER -> "IfNotPresent"

DefaultResources == <<3, 1>>
Default(i, v) == IF v # 0 THEN v ELSE DefaultResources[i]
buildResources(r) == <<Default(1, r[1]), Default(2, r[2])>>

(* Invalid addresses are left out; if none is left the list is empty, which*)
(* is not nil, but is so once the API server has stored it.                *)
HostAliases(a) == CASE a = "none" -> "nil" [] a = "valid" -> "valid" [] a = "invalid" -> "empty"
Stored(f, v) == IF f = "aliases" /\ v = "empty" THEN "nil" ELSE v

BuildDeploymentForFluentd(c) ==
  [mounts |-> "deployment", pull |-> getPullPolicy(c.pull),
   resources |-> buildResources(c.resources),
   replicas |-> IF c.replicas > 0 THEN c.replicas ELSE 1,
   aliases |-> HostAliases(c.aliases), pod |-> "built", labels |-> "built", unseen |-> "built"]

BuildDaemonForFluentd(c) ==
  [mounts |-> "daemonset", pull |-> getPullPolicy(c.pull),
   resources |-> buildResources(c.resources),
   aliases |-> "nil", pod |-> "built", labels |-> "built", unseen |-> "built"]

BuildDeploymentForPolicyController(c) ==
  [pull |-> getPullPolicy(c.pull), args |-> c.rest, replicas |-> 1,
   aliases |-> "nil", pod |-> "built", labels |-> "built", unseen |-> "built"]

BuildCertsForAuditLogging(c) == [spec |-> c.rest]
BuildAuditService == [ports |-> "built", selector |-> "built"]
BuildSecret == [data |-> "built"]

Build(o, c) ==
  CASE o = "deployment"  -> BuildDeploymentForFluentd(c)
    [] o = "daemonset"   -> BuildDaemonForFluentd(c)
    [] o = "policy"      -> BuildDeploymentForPolicyController(c)
    [] o = "certificate" -> BuildCertsForAuditLogging(c)
    [] o = "service"     -> BuildAuditService
    [] o = "secret"      -> BuildSecret

AnyConf     == CHOOSE c \in Confs : TRUE
FieldsOf(o) == DOMAIN Build(o, AnyConf)

-----------------------------------------------------------------------------
(* The comparisons, as the fields that must be equal.  With allowModify    *)
(* host aliases are left to users.                                         *)

EqualContainers == {"mounts", "pull", "resources", "args"}
EqualPods(allowModify) ==
  EqualContainers \cup {"pod"} \cup (IF allowModify THEN {} ELSE {"aliases"})

Compared(o) ==
  FieldsOf(o) \cap
    CASE o = "deployment"  -> {"replicas"} \cup EqualPods(FALSE)
      [] o = "daemonset"   -> EqualPods(TRUE)
      [] o = "policy"      -> {"replicas"} \cup EqualPods(TRUE)
      [] o = "certificate" -> {"spec"}
      [] o = "service"     -> {"ports"}
      [] o = "secret"      -> {}

(* What an update takes over from the object that was found.               *)
KeptAliases(o) == {"labels", "aliases"}  \* mutant: users' host aliases survive everywhere
Kept(o) == {"labels"} \cup (IF o = "daemonset" THEN {"aliases"} ELSE {})

(* The API server refuses a pod that requests more than its limit.         *)
Refused(r) == r[2] > r[1]

(* What a user may set a field to.                                         *)
Edited(f) ==
  CASE f = "resources" -> <<9, 9>> [] f = "replicas" -> 9 [] OTHER -> "edited"

Values(f) ==
  CASE f = "resources" -> (0..9) \X (0..9)
    [] f = "replicas"  -> 0..9
    [] OTHER -> Workloads \cup {"built", "edited", "a", "b", "nil", "valid", "empty",
                                "Always", "Never", "IfNotPresent"}

VARIABLES
  conf,      \* per controller: what its CR asks for
  shared,    \* the fields of fluentdMainContainer
  present,   \* the objects that exist
  lost,      \* the objects whose label a user took away, until they are created anew
  obj,       \* per object: its fields
  queued,    \* per controller: its key is in its queue
  at,        \* per controller: the position of its worker in its chain and in the build
  inst,      \* per controller: what the CR asked for when the pass began
  built,     \* per controller: the copy of the container
  userActs   \* what is left of MaxUserActs

objects == <<present, lost, obj>>
vars    == <<conf, shared, objects, queued, at, inst, built, userActs>>

Blank(o) == [f \in FieldsOf(o) |-> Stored(f, Build(o, AnyConf)[f])]
Fresh    == [f \in Shared |-> BuildDaemonForFluentd(AnyConf)[f]]

Idle == [pos |-> 0, step |-> "compare", n |-> 1]

IsContainer(r) == DOMAIN r = Shared /\ \A f \in Shared : r[f] \in Values(f)
IsStored(o, r) ==
  /\ DOMAIN r = FieldsOf(o)
  /\ \A f \in FieldsOf(o) : r[f] \in Values(f) /\ r[f] = Stored(f, r[f])

TypeOK ==
  /\ conf \in [Controllers -> Confs] /\ inst \in [Controllers -> Confs]
  /\ IsContainer(shared)
  /\ DOMAIN built = Controllers /\ \A c \in Controllers : IsContainer(built[c])
  /\ present \subseteq Objects /\ lost \subseteq Objects
  /\ DOMAIN obj = Objects /\ \A o \in Objects : IsStored(o, obj[o])
  /\ queued \in [Controllers -> BOOLEAN]
  /\ at \in [Controllers -> [pos : Nat, step : {"assign", "copy", "compare"}, n : 1..3]]
  /\ \A c \in Controllers :
       /\ at[c].pos <= Len(Chain[c])
       /\ at[c].pos = 0 => at[c] = Idle
       /\ at[c].step # "compare" => Chain[c][at[c].pos] \in Fluentd
       /\ queued[c] => Chain[c] # <<>>
  /\ userActs \in 0..MaxUserActs

Init ==
  /\ conf \in [Controllers -> Confs] /\ inst = conf
  /\ shared = Fresh /\ built = [c \in Controllers |-> Fresh]
  /\ present = {} /\ lost = {} /\ obj = [o \in Objects |-> Blank(o)]
  /\ queued = [c \in Controllers |-> Chain[c] # <<>>]
  /\ at = [c \in Controllers |-> Idle]
  /\ userActs = MaxUserActs

-----------------------------------------------------------------------------
(* The workers.                                                            *)

GoTo(c, pos, step, n) == at' = [at EXCEPT ![c] = [pos |-> pos, step |-> step, n |-> n]]

(* The next object: those with the shared container begin by assigning it. *)
Visit(c, pos) ==
  GoTo(c, pos, IF Chain[c][pos] \in Fluentd THEN "assign" ELSE "compare", 1)

EndPass(c, requeue) ==
  /\ at' = [at EXCEPT ![c] = Idle]
  /\ queued' = [queued EXCEPT ![c] = queued[c] \/ requeue]

Object(c) == Chain[c][at[c].pos]

StartPass(c) ==
  /\ queued[c] /\ at[c] = Idle
  /\ Overlap \/ \A d \in Controllers : at[d] = Idle
  /\ queued' = [queued EXCEPT ![c] = FALSE]
  /\ inst' = [inst EXCEPT ![c] = conf[c]]
  /\ Visit(c, 1)
  /\ UNCHANGED <<conf, shared, objects, built, userActs>>

(* The fields of the container that the builders assign, in that order.    *)
AssignedNoResources == <<"mounts", "pull">>  \* mutant: a forgotten assignment
Assigned == <<"mounts", "pull", "resources">>

AssignField(c) ==
  /\ at[c].pos # 0 /\ at[c].step = "assign"
  /\ LET f == Assigned[at[c].n]
     IN  shared' = [shared EXCEPT ![f] = Build(Object(c), inst[c])[f]]
  /\ IF at[c].n < Len(Assigned) THEN GoTo(c, at[c].pos, "assign", at[c].n + 1)
                                ELSE GoTo(c, at[c].pos, "copy", 1)
  /\ UNCHANGED <<conf, objects, queued, inst, built, userActs>>

(* The struct is copied field by field, in the order of its declaration.   *)
Declared == <<"resources", "mounts", "pull">>

CopyField(c) ==
  /\ at[c].pos # 0 /\ at[c].step = "copy"
  /\ LET f == Declared[at[c].n]
     IN  built' = [built EXCEPT ![c][f] = shared[f]]
  /\ IF at[c].n < Len(Declared) THEN GoTo(c, at[c].pos, "copy", at[c].n + 1)
                                ELSE GoTo(c, at[c].pos, "compare", 1)
  /\ UNCHANGED <<conf, shared, objects, queued, inst, userActs>>

(* The expected object.                                                    *)
Expected(c) ==
  [f \in FieldsOf(Object(c)) |->
     IF Object(c) \in Fluentd /\ f \in Shared THEN built[c][f] ELSE Build(Object(c), inst[c])[f]]

(* Get asks the API server for what the cache does not hold.               *)
Found(o) == o \in present
EqualNoDefaults(c) ==  \* mutant: what others fill in is drift
  Object(c) # "certificate" /\ \A f \in Compared(Object(c)) : obj[Object(c)][f] = Expected(c)[f]
Equal(c) == \A f \in Compared(Object(c)) : obj[Object(c)][f] = Expected(c)[f]

Comparing(c) == at[c].pos # 0 /\ at[c].step = "compare"
Writing(c)   == Comparing(c) /\ UNCHANGED <<conf, shared, inst, built, userActs>>

(* The object is as expected: the pass goes on.                            *)
Accept(c) ==
  /\ Comparing(c) /\ Found(Object(c)) /\ Equal(c)
  /\ IF at[c].pos < Len(Chain[c]) THEN Visit(c, at[c].pos + 1) /\ UNCHANGED queued
                                  ELSE EndPass(c, FALSE)
  /\ UNCHANGED <<conf, shared, objects, inst, built, userActs>>

Refuses(c) == Object(c) \in Fluentd /\ Refused(Expected(c)["resources"])

Stores(c, o, fields) == obj' = [obj EXCEPT ![o] = [f \in FieldsOf(o) |-> Stored(f, fields[f])]]

Create(c) ==
  LET o == Object(c) IN
  /\ Writing(c) /\ ~Found(o)
  /\ IF Refuses(c) THEN UNCHANGED objects
     ELSE /\ present' = present \cup {o} /\ lost' = lost \ {o}
          /\ Stores(c, o, Expected(c))
  /\ EndPass(c, TRUE)

(* An update does not give the label back.                                 *)
Update(c) ==
  LET o == Object(c) IN
  /\ Writing(c) /\ Found(o) /\ ~Equal(c) /\ o # "service"
  /\ IF Refuses(c) THEN UNCHANGED obj
     ELSE Stores(c, o, [f \in FieldsOf(o) |-> IF f \in Kept(o) THEN obj[o][f] ELSE Expected(c)[f]])
  /\ UNCHANGED <<present, lost>>
  /\ EndPass(c, TRUE)

(* A Service whose ports are wrong is deleted.                             *)
Delete(c) ==
  LET o == Object(c) IN
  /\ Writing(c) /\ Found(o) /\ ~Equal(c) /\ o = "service"
  /\ present' = present \ {o} /\ UNCHANGED lost
  /\ obj' = [obj EXCEPT ![o] = Blank(o)]
  /\ EndPass(c, TRUE)

Worker(c) ==
  \/ StartPass(c) \/ AssignField(c) \/ CopyField(c)
  \/ Accept(c) \/ Create(c) \/ Update(c) \/ Delete(c)

-----------------------------------------------------------------------------
(* Users edit the CRs, and edit, delete and unlabel the objects.  An event *)
(* wakes the owner's controller up, if the caches watch the object before  *)
(* the act or after it: to them, losing the label is a deletion.           *)

Watched(o) == ~Filtered \/ o \notin lost

UserEditsCR(c) ==
  /\ \E r \in Confs \ {conf[c]} : conf' = [conf EXCEPT ![c] = r]
  /\ queued' = [queued EXCEPT ![c] = TRUE]
  /\ UNCHANGED objects

UserTouches(o) ==
  /\ o \in present
  /\ \/ /\ \E f \in FieldsOf(o) : obj' = [obj EXCEPT ![o][f] = Edited(f)]
        /\ UNCHANGED <<present, lost>>
     \/ /\ present' = present \ {o} /\ obj' = [obj EXCEPT ![o] = Blank(o)]
        /\ UNCHANGED lost
     \/ /\ lost' = IF o \in lost THEN lost \ {o} ELSE lost \cup {o}
        /\ UNCHANGED <<present, obj>>
  /\ queued' = [queued EXCEPT ![Owner(o)] = @ \/ Watched(o) \/ Watched(o)']
  /\ UNCHANGED conf

User ==
  /\ userActs > 0
  /\ userActs' = userActs - 1
  /\ \/ \E c \in Controllers : Chain[c] # <<>> /\ UserEditsCR(c)
     \/ \E o \in Objects : UserTouches(o)
  /\ UNCHANGED <<shared, at, inst, built>>

Next == User \/ \E c \in Controllers : Worker(c)

Spec == Init /\ [][Next]_vars

(* Each controller's goroutine keeps running.                              *)
FairSpec == Spec /\ \A c \in Controllers : SF_vars(Worker(c))

-----------------------------------------------------------------------------
(* Correctness.                                                            *)

Resting(c) == ~queued[c] /\ at[c] = Idle

(* "If spec is incorrect, update it and requeue": when a controller is     *)
(* content, each of its objects is there, and what is compared of it is    *)
(* what its own CR asks for and nothing the other builder left in the      *)
(* shared container.  This cannot be said of objects that the caches of the*)
(* default mode have lost sight of: edits and deletions of those wait for  *)
(* the next pass, whatever starts it.                                      *)
IsOwn(o) ==
  o \in present /\ \A f \in Compared(o) : obj[o][f] = Stored(f, Build(o, conf[Owner(o)])[f])
OwnIfWatched(o) == Watched(o) => IsOwn(o)
SettledIsOwn    == \A o \in Objects : Resting(Owner(o)) => OwnIfWatched(o)

(* What keeps a controller busy for ever: host aliases that are all        *)
(* invalid, or a request above the limit (the default one, if the CR has no*)
(* other).                                                                 *)
Stuck(o) ==
  \/ o = "deployment" /\ conf["CA"].aliases = "invalid"
  \/ o \in Fluentd /\ Refused(buildResources(conf[Owner(o)].resources))

(* Each controller comes to rest, whatever users did to the objects, or is *)
(* held up at an object in one of these two ways: what the comparison      *)
(* rejects is what the update repairs and what the API server stores.      *)
RestsUnlessStuck ==
  \A c \in Controllers : <>[](Resting(c) \/ \E o \in Objects : Owner(o) = c /\ Stuck(o))

(* The part of it that a single step shows: what is there after the pass   *)
(* has dealt with an object is something that the next comparison accepts  *)
(* (a Service may be gone instead), unless the CR was edited meanwhile.    *)
Acceptable(o, spec) ==
  o \in present /\ \A f \in Compared(o) : obj[o][f] = Build(o, spec)[f]
Repaired(c, o) ==
  Comparing(c) /\ Object(c) = o /\ inst[c] = conf[c] /\ ~Stuck(o) /\ at'[c] # at[c] =>
    Acceptable(o, conf[c])' \/ (o = "service" /\ o \notin present')
RepairsAreAccepted == [][\A c \in Controllers, o \in Objects : Repaired(c, o)]_vars

-----------------------------------------------------------------------------
(* The inductive invariant behind SettledIsOwn, of passes that do not      *)
(* overlap.                                                                *)

OnePass == \A c, d \in Controllers : at[c] # Idle /\ at[d] # Idle => c = d

(* What the pass has assigned and copied is what its object asks for.      *)
Own(c, f) == Build(Object(c), inst[c])[f]
BuiltIsOwn ==
  \A c \in Controllers : at[c] # Idle =>
    /\ at[c].step = "assign" =>
         \A i \in 1..(at[c].n - 1) : shared[Assigned[i]] = Own(c, Assigned[i])
    /\ at[c].step = "copy" =>
         /\ \A f \in Shared : shared[f] = Own(c, f)
         /\ \A i \in 1..(at[c].n - 1) : built[c][Declared[i]] = Own(c, Declared[i])
    /\ at[c].step = "compare" /\ Object(c) \in Fluentd =>
         \A f \in Shared : built[c][f] = Own(c, f)

(* Unless its key is in the queue, a pass works with what the CR asks for  *)
(* now, and the watched objects it has accepted are still as they were.    *)
PassIsCurrent ==
  \A c \in Controllers : at[c] # Idle /\ ~queued[c] =>
    /\ inst[c] = conf[c]
    /\ \A i \in 1..(at[c].pos - 1) : OwnIfWatched(Chain[c][i])

InductiveInvariant == TypeOK /\ OnePass /\ BuiltIsOwn /\ PassIsCurrent /\ SettledIsOwn
=============================================================================

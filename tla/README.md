# A formal model of the IBM audit logging operator

TLA+ modules, TLC configurations and TLAPS proofs about the operator in `src/`:
what its two controllers do to a namespace while users edit the same objects,
caches lag, calls fail and the process crashes. `PROJECT.json` maps every
definition to the lines it is translated from, lists the runs with the mutants
that show each property can fail, the hazards, the findings and the theorems.

## 1. The system

One process runs a controller-runtime manager with two controllers. Each has an
informer per kind it watches, a work queue of names and one worker goroutine
that calls `Reconcile`. The informers, and so the caches `Client.Get` and
`Client.List` read from, are shared.

| part | code | state | operations |
|---|---|---|---|
| CommonAudit controller | `commonaudit_controller.go`, `reconcile_commonaudit.go` | the CR (spec, status), up to 13 child objects, its fluentd pods | `Reconcile`: default status, gates, the reconcilers in order, `updateStatus` |
| AuditLogging controller | `auditlogging_controller.go`, `reconcile_auditlogging.go` | the cluster's one CR, its children in the common services namespace | the same shape; defaults `EnableAuditPolicy`, runs a Job and the policy controller, keeps customers' output configs |
| gates | lines 84-107 of both controllers | none of their own | list the CRs that would be in the way, refuse without a requeue |
| CommonAudit output configs | `configmaps_v1.go` | one ConfigMap per plugin | build, compare field by field, replace lines, or delete |
| AuditLogging output configs | `configmaps_v1alpha1.go` | one ConfigMap per plugin, owned by the customer in content | compare and rewrite the match tags, keep the rest |
| pod templates | `deployments.go`, `containers.go` | **one package variable** `fluentdMainContainer` | build and compare Deployment and DaemonSet |
| other builders | `certificates.go`, `issuers.go`, `service.go`, `secret.go`, `rbac.go`, `job.go` | none | build, compare |
| watch-namespace cache | `k8sutil/cache.go` | informers per kind | `Get`, `List`, `Start`, `WaitForCacheSync` |
| start-up, utilities, types, generated code | `main.go`, `util/`, `api/` | none that changes | |

How they interact:

- **events to queue**: an event of a CR enqueues its name, an event of a child
  the name of the owner in its owner reference (`Owns`). A queue holds a name
  once; a name that is added while its pass runs is processed again after it.
- **worker to API server**: a pass reads from the caches and writes to the API
  server. It makes at most one write to a child, after which it asks for a
  requeue. Updates carry the resource version that was read, deletions only the
  name.
- **controller to controller**: through the gates (each lists the other's CRs),
  through the shared caches and through `fluentdMainContainer`.
- **cluster**: the garbage collector deletes the children of a deleted CR; the
  pods mount their ConfigMaps with a subPath, so a changed ConfigMap reaches them
  only with a restart, which the operator does by deleting them.

What is hard about it: a pass is a long sequence of decisions on caches that lag
behind each other and behind its own writes; every pass starts again at the first
child; nothing but events and the (disabled, in one mode) resync wakes a
controller up; the user edits the same objects; configuration is compared and
rewritten with regular expressions over text that users own; and two goroutines
build pod templates from one variable.

Correct is:

- *CommonAudit*: once nothing more is on its way, every child is what the CR asks
  for; no update of a user is overwritten; children appear in the order they
  depend on each other; pods run with the current configuration; it comes to rest.
- *Gates*: two CRs that exclude each other are never both served, are both refused
  as long as they stay, and the survivor is served without anyone touching it.
- *Output configs*: the file settles in few writes (each costs a restart of all
  fluentd pods), and what the customer wrote is kept as far as the code keeps it.
- *Pod templates*: each object carries the settings of its own CR, and what a comparison
  rejects is what the update repairs, so that passes come to an end.
- *AuditLogging reconcilers*: as for CommonAudit, and the policy controller exists
  exactly when enabled.
- *Cache*: a `Get` or `List` answers what the informer has, and no pass decides on a
  cache that has not been filled.

## 2. The modules

| module | models | properties |
|---|---|---|
| `CommonAudit` | the CommonAudit controller in one namespace, with cluster and users | `TypeOK`, `QuiescentIsSettled`, `PrerequisitesFirst`, `WritesKeepUnmanagedData`, `ImplementsDesiredState`, `EventuallyQuiet`, `DriftIsRepaired`; inductive invariants `InductiveInvariant`, `OrderInvariant` |
| `AuditLogging` | the AuditLogging controller past its gates, with cluster and users | `TypeOK`, `RestIsSettled`, `DefaultYields`, `CustomersDataKept`, `ImplementsDesiredState`; inductive invariant `InductiveInvariant` |
| `DesiredState` | what both controllers promise, seen from the API server | refined by the two modules above |
| `FluentdPods` | `CommonAudit` with a record of why pods may run with an old configuration | `PodsFollowConfig`; inductive invariant `ServedInvariant` |
| `Gates` | start-up, admission and hand-over in both controllers | `TypeOK`, `NeverAlongside`, `RestartOpensNoGate`, `SurvivorProceeds`, `RivalsAreRefused`; inductive invariant `InductiveInvariant` |
| `SiemConfig` | one output ConfigMap of a CommonAudit | `TypeOK`, `SettlesInFourWrites`, `WritesInvariant` |
| `OutputConfig` | one output ConfigMap of an AuditLogging | `TypeOK`, `FramedIsServed`, `FramedIsKept`; refuted: `ConfigsAreKept` |
| `Templates` | the built objects field by field, the comparisons, the shared container variable | `TypeOK`, `SettledIsOwn`, `RepairsAreAccepted`, `RestsUnlessStuck`; inductive invariant `InductiveInvariant` |
| `MCCommonAudit`, `MCFluentdPods`, `MCAuditLogging`, `MCGates`, `MCSiemConfig`, `MCOutputConfig`, `MCTemplates` | constants of the runs | |
| `CommonAuditProofs`, `AuditLoggingProofs`, `FluentdPodsProofs`, `GatesProofs`, `TemplatesProofs`, `SiemConfigProofs`, `OutputConfigProofs` | theorems | |

### CommonAudit

`api` is what the API server stores, `cache` what the informers have; `fresh[k]`
says that the two agree on the version of child `k`. A worker goes through
`pc = "get"`, `"default"` (default status), `"chain"` (at position `pos` of
`Chain`) and, for the child it found missing or wrong, `"create"`, `"update"` or
`"delete"`, and `"restart"` after the update of a ConfigMap. `inst` and `found`
are its copies of the CR and of the child; `instCurrent` and `foundCurrent` stand
for their resource versions, which the API server only ever compares with the
current one. `GetChild` is the read and comparison of every reconciler, and the
write actions are their writes:

| action | code |
|---|---|
| `StartPass`, `GetInstance`, `SetDefaultStatus` | `Reconcile` up to the gates |
| `GetChild` | `Client.Get` and the `Equal...` call of `reconcileConfig`, `reconcileAuditCertificate`, `reconcileSecret`, `reconcileServiceAccount`, `reconcileService`, `reconcileFluentdDeployment`; `Restart` inside it is the panic on a nil map |
| `CreateChild`, `UpdateChild`, `DeleteChild` | the writes of the same functions |
| `RestartFluentdPods`, `UpdateStatus` | the functions of that name |
| `ApiError`, `LostReply`, `RestartFails`, `Crash`, `Resync` | what goes wrong, or comes unasked, at most `MaxFaults` times |
| `SyncCR`, `Sync` | informers |
| `CollectGarbage`, `StartPods`, `User` | the cluster around the operator |

Abstractions. A spec is what it asks of each child it reaches (`SpecKinds`); a
child is a value, an owner (the CR's UID) and whether it holds data the operator
does not manage. A watch that lags jumps to the latest state: the intermediate
events would enqueue the same name. The pod list `updateStatus` reads has no lag
of its own. The delay of a requeue is left out. Recorded events are write-only
and left out. The gates are open. The pods are one pod, replaced whenever the deployment
changes (a change of its replicas alone replaces none). `Get` answers from the cache, as
it does in the watch-namespace mode; in the default mode it also asks the API server for
a child that the cache lacks, so a pass may accept a child before its event, which wakes
the controller up once more. An error of `BuildFluentdConfigMap` (a YAML error in
constants of the code) is left out. A user's object that the
operator finds under a name of its own is nobody's (`Foreign`): its events wake
nobody, and nothing is promised of it.

### AuditLogging

The same shape and the same conventions; the CR is the cluster's one, and stays
(what a deletion and a re-creation do is in `CommonAudit` and `Gates`). What it adds:

| action | code |
|---|---|
| `GetInstance`, `SetDefaultStatus`, `enablePolicyControllerByDefault` | the head of `Reconcile`: the status, then the default of `policyController.enabled`, written with the whole copy of the CR and without a requeue (`pc = "default"`, `"enable"`, `"chain"`) |
| `GetChild` | read and comparison of `reconcileJob`, `reconcilePolicyControllerDeployment`, `reconcileConfig`, `reconcileAuditCertificate`, `reconcileServiceAccount`, `reconcileService`, `reconcileFluentdDaemonSet`; `Wanted` is the switch, `Refuses` the error of `BuildWithSIEMConfigs`, `Panics` the nil map |
| `DeleteChild` | of a Service that is wrong, and of a policy controller that is switched off |
| `UpdateChild` | what the update leaves of users' additions (`Remains`): the DaemonSet keeps host aliases and pod labels, the policy controller its pod labels only |
| `updateStatus` | lists the pods of the DaemonSet and of the policy controller |

`extra` is the set of what users added to an object without the comparison's minding:
host aliases, pod labels, settings of output configs; `owned` tells the operator's
objects from those users created under the same name. What the rewriting of an output
config keeps of its settings is the subject of `OutputConfig`; here it may keep any part. A workload whose template changes loses its pods
until `StartPods`; a restart deletes the DaemonSet's.

### DesiredState

The abstract specification of both controllers. It has the CR (`uid`, `asked`), the
children with value, owner and what users added, and `atRest`; no caches, queue,
passes, versions, faults or pods. The operator may build a child for some spec
(`Builds`), replace its value and leave of users' additions what `Left` says (`Mends`), delete one of the few
kinds it deletes (`Removes`) or fill in the CR's defaults (`Completes`), one object
at a time and never at rest; `Next` lets it come to rest, and stay at rest, only
where every child is `Settled`. A concrete pass that is retried, refused, fed by an
old cache or killed maps to stutters and single changes. In both detailed modules the
refinement maps `atRest` to `Quiescent` (nothing is on its way to the operator) and
`Goal` and `Accepted` to what the Build functions make and the Equal functions accept.
`Left` is everything in `CommonAudit`; in `AuditLogging` it is what the code's comments
promise: the DaemonSet's host aliases and labels and the policy controller's labels stay.
That a build uses *some* spec, not the current one, is the code's doing: it works with
a cached copy.

### FluentdPods

`CommonAudit` with one history variable, `unserved`: the ConfigMaps that have changed
since the pods started in one of the two ways that the code does not answer with a
restart. One is a creation (`reconcileConfig` restarts after an update only), the other
a fault in the update or the restart after it. `PodsFollowConfig` says that at rest the
pods run with the API server's ConfigMaps except for recorded ones. It is stated for users
who neither touch nor create ConfigMaps, nor create a deployment under the operator's
name (`ConfigsAreTheOperators`).

### Gates

`crs` and `seen` are the CRs at the API server and in the caches; a pass reads the
CR, sets the status, goes through the two gates in its controller's order
(`First`, `Second`) and either ends, sets the `EnableAuditPolicy` default, or
brings the children to the change it has read (`kids`, in one step; the details
are in `CommonAudit`). `Resynced` is the set of kinds whose informer resyncs:
both, or only CommonAudit's, in the watch-namespace mode whose cache builds the
AuditLogging informer without a resync period. Children wake their owner when
their informers resync.

The process starts, and restarts, with empty caches: `ListSync` is the first list of an
informer (`filteredCache.Start`), and workers start after all of them (`CachesSynced`).
The loop of `filteredCache.WaitForCacheSync` ends when *one* informer of its map has
synced; the two entries of the map lead to the same informer, so with the wait for the
fallback cache it is all of them. `Get` falls back to the API server for what its store
lacks, but asks for an AuditLogging inside a namespace, where there is none
(`FromClient`).

`kids` is the hand-over. All resources of a place (the common services namespace, or
another) share their children's names, so a pass may meet objects of a predecessor. It
finds them as it would make them, updates them and leaves their owner, or is refused
because a selector names the predecessor and cannot be changed; the garbage collector
then removes them, which wakes up whoever has the old owner's *name*.

### SiemConfig

A field is looked for by its name, a space and the rest of the line, anywhere in the
file. A line is a sequence of *marks*, the places where a field's pattern matches when
nothing before it in the line is taken; so a comment that names a host has one, and lines
that no pattern matches are left out. A value is its first word, whether more words follow
and whether it holds a `$`: what the comparison (`strings.Split`, second word) and the
replacement (`ReplaceAllString`, which expands `$`) tell apart. The comparison looks at
a field's first match in the file (`Found`), the replacement at every line (`Replaced`):
all from the first match to the end of the line becomes the field's value, whoever wrote
it. Users insert, change and remove lines, delete the file and edit the block of the CR.
A pass is one step; the races are in `CommonAudit`, which abstracts this comparison to
`Matches`.

### OutputConfig

A file is a sequence of lines, and a line is what the regular expressions tell of it:
what it is (a tag of matches, with the expected or with others, of kube-audit's matches,
of another section, one of the end tags, an inner tag, a line with a `]`, any other) and
its form (plain, indented, followed by more text, commented out). `Matches` and
`FindMatch` are the leftmost-longest match of `>\n([^]]+)\n<`, in which `[^]]` also
matches line ends. The YAML error that `BuildWithSIEMConfigs` returns besides is left out.

What the code keeps is said of *framed* files (`Framed`): apart from kube-audit's section
at the end, which `removeK8sAudit` cuts off on purpose, they begin with a match tag and
end with the line `</match>`. Those are served and keep every line between the two,
whatever it is. `Usable` is meant for more: files that fluentd can use, with comments
anywhere and tags indented, of which `ConfigsAreKept` says what the code's comment does.
It fails (finding 4, and what is known besides).

### Templates

The objects that both controllers build as records of fields (`Build`), the fields the
Equal functions look at (`Compared`), those an update keeps (`Kept`), and what the API
server does: an empty list is stored as none (`Stored`), a request above its limit is
refused (`Refused`). One certificate stands for certificates and issuers, which are all
compared as a whole; one Secret for what is created and never compared.

Two workers assign the fields of `shared` (`fluentdMainContainer`) one by one and then
copy them one by one into the object they build, with no lock, as the code does; then
they compare with what they found and accept, create, update or delete. Objects are
read without lag, which is `CommonAudit`'s subject, and `Get` finds whatever the API
server has (`Found`), because it asks there for what its store lacks. In the default mode
(`Filtered`) the caches watch only what has the operator's label: acts on an object that
has lost it wake nobody (`Watched`, `lost`), and an update does not give it back. In the
watch-namespace mode there is no such filter. A resync is left out. Fields that the builders neither compute nor share are one field: `pod`
if it is compared, `unseen` if not. The workers overlap in a real deployment whenever
an AuditLogging and a CommonAudit *outside* the common services namespace exist, which
the gates allow. (The policy controller has a container variable of its own, which one
worker writes; it is part of its builder.) `Chain` gives each controller's objects in the
order of its reconcilers: the certificate, the Service and the two fluentd workloads in
the serial run, the two workloads in the overlapping one. The Secret (created, never
compared) and the policy controller's Deployment (treated as the DaemonSet is, but
without the shared container) are covered by the theorems, which hold for every chain.

## 3. The runs

| run | module, cfg | result | what it shows |
|---|---|---|---|
| `drift` | `MCCommonAudit`, `CommonAudit_drift` | pass | with two acts of users (edits, extensions, deletions, wiped data, spec changes, CR deleted and created anew, a Secret of the users' own) and two faults at any point, on lagging caches, no drift of an owned child survives the operator's rest, children appear in order, no write loses an edit and every step is one of `DesiredState`; the invariants of the proofs hold |
| `switch` | `MCAuditLogging`, `AuditLogging_switch` | pass | with two acts of users (the switch of the policy controller moved or omitted, children edited, extended, deleted, spoilt, a policy controller of the users' own) and one fault at any point: at rest the switch has a value and the children are as asked, the default never overrides a choice, updates keep what customers added to the DaemonSet and the policy controller's labels, and every step is one of `DesiredState` |
| `quiet` | `MCFluentdPods`, `FluentdPods_quiet` | pass | with two edits, deletions or re-creations of the CR and one fault: under fairness the operator comes to rest, and pods that run with an old configuration then do so for a recorded reason, although two ConfigMaps are updated one after the other while the spec changes again and pods start in between |
| `wiped` | `MCCommonAudit`, `CommonAudit_wiped` | violation of `DriftIsRepaired` | finding 1 |
| `gates` | `MCGates`, `Gates_default` | pass | an AuditLogging and two CommonAudits of its namespace: never two kinds past the gates together, a restart lets nobody past a resource that was there, rivals that stay are all refused, the last one standing is served and owns the children |
| `gates_watch` | `MCGates`, `Gates_watch` | violation of `SurvivorProceeds` | finding 2 |
| `siem_plain` | `MCSiemConfig`, `SiemConfig_plain` | pass | for one-word values a file settles in at most four writes, whatever lines users leave in it |
| `siem_dollar` | `MCSiemConfig`, `SiemConfig_dollar` | violation of `SettlesInFourWrites` | finding 3 |
| `output_plain` | `MCOutputConfig`, `OutputConfig_plain` | pass | every syslog file of up to six lines without `]`: a framed one is never refused, and keeps every line between its tags |
| `output_bracket` | `MCOutputConfig`, `OutputConfig_bracket` | violation of `ConfigsAreKept` | finding 4 |
| `templates` | `MCTemplates`, `Templates_serial` | pass | passes that do not overlap leave nothing of one container in the other, and what a pass has repaired is what the next comparison accepts, and each controller rests unless its CR is of one of the two kinds that the code cannot settle, also when objects lose their label |
| `templates_overlap` | `MCTemplates`, `Templates_overlap` | violation of `SettledIsOwn` | finding 5 |

Bounds. `MaxUserActs` and `MaxFaults` are the budgets of the environment. Two acts
are enough for the patterns the properties are about (break and mend, edit between
read and write, delete and create anew, change the spec twice during one pass), and
one fault (`drift` has two) can fall before, between or after them. A shorter `Chain` keeps `drift`,
`switch` and `quiet` small: one child of each way of being handled (updated, deleted,
created only, updated with a restart, switched, refused), in the order of the code's
`FullChain`. (The panic on a nil map is taken in `switch` and `wiped`.) The theorems hold for every chain, set of specs and bound. In `quiet` users
touch the CR only (`ConfigsAreTheOperators`): a ConfigMap that a user changes and changes
back before the operator sees it is answered by nothing, and the CR is where the changes
that need a restart come from. Nor do they create a deployment of the operator's name, which would outlive the CR and
the ConfigMaps its pods have mounted. `Gates`: three changes
are the shortest history with a rival (create, create, delete) and with a successor, and
one fault can be the restart between them. `Templates`: four objects, with two CRs that
differ in every field and one that cannot be settled; two acts are enough to spoil two
fields, or to spoil one and edit the CR. `SiemConfig`: four
acts reach every combination of right, wrong, spaced, doubled and missing fields; four
writes is tight (three are not enough). `OutputConfig`: six lines are two sections, or one
with an inner tag, or one with comments around it; lines are put at the end and taken
from anywhere, so that every such file comes about; the default files fit, which `BoundsAssumption` asks for.
`WritesCap` only keeps the counter of `SiemConfig` finite. Deadlock is not checked
where the system may rest for good (users and faults spent, nothing to do); it is
checked in the `OutputConfig` runs, where a pass can always run.

Fairness. Weak fairness of the worker (a goroutine that is scheduled), of the
informers (watches are re-established), of the garbage collector and the kubelet.
`Gates` also assumes strong fairness of `StartPass` for the names that share a queue,
because the work queue is first in, first out, and weak fairness of the periodic resync
of the kinds that have one. `Templates` assumes strong fairness of each controller's
worker because the run that uses it serialises their passes: each is enabled again and
again, not all the time. Users and faults owe nothing.

## 4. Findings

1. **A ConfigMap without data stops the controller for good** (`wiped`). When a
   ConfigMap's `data` is removed, `found.Data` is nil and
   `reconcile_commonaudit.go:122` (and the assignments below it) panic; the
   restarted process finds the same CR and panics again. `reconcile_auditlogging.go:151`
   (and 156, 161) is the same; `Panics` of `AuditLogging` takes the step.
2. **A refused AuditLogging is not woken up** (`gates_watch`). The gate tells the
   user to "Delete one or the other to proceed", and returns without a requeue.
   The deletion's event enqueues only the deleted CommonAudit, and in the
   watch-namespace mode the AuditLogging informer never resyncs.
3. **A `$` in a token means restarts without end** (`siem_dollar`).
   `ReplaceAllString` expands `$name` in the replacement, so the line is never what
   `EqualSIEMConfig` expects, and every pass updates the ConfigMap, restarts the
   fluentd pods and requeues.
4. **A `]` in a customer's output config loses lines** (`output_bracket`). When the
   match tags have to be rewritten, `getConfig` captures the longest text without
   `]` that starts after a `>` at a line's end: of a file with a `]` in it, only what
   follows the next tag. The rest, a whole section in the run's trace, is written over.
   (When no tag follows, the file is refused as misformatted in every pass.)
5. **The two controllers race on `fluentdMainContainer`** (`templates_overlap`). A
   pass can compare its object with a container that has the other controller's
   settings, find them equal and end.

Known and modelled, without a run of its own:

- `EqualSIEMConfig` compares the first word of a field's first match only, so words
  appended to it stay, and so does a second match with another value (`Found`,
  `FirstWord`).
- An update of an output config overwrites *every* place where a field's pattern matches,
  such as a second `<store>` or a comment "# report to ops" (`Replaced`). No doc says
  whether users may have such lines, so no property does.
- `BuildWithSIEMConfigs` keeps of a customer's file what is between the first tag that
  ends a line and the last that starts one, and puts that between `<match ...>` and
  `</match>`. So comments before the first section and after the last are dropped; when
  the last section is not of matches, its end tag (such as `</filter>`) becomes
  `</match>`, which fluentd cannot use; and a file whose end tags are all indented, which
  fluentd can use, is refused as misformatted in every pass, which keeps it from the
  children after it. `Framed` excludes these files, the model does not.
- A Service that was mended after it was read is deleted, as the deletion names it only
  (`DeleteChild`). Its selector is not compared (`Compared`).
- A gate whose List fails is passed (`ListFails`), so `NeverAlongside` and
  `RestartOpensNoGate` are stated for processes without a failed List.
- There are two ways to pods with an old configuration (`FluentdPods`).
- `RestsUnlessStuck` names two ways in which passes never end (`Stuck`): host aliases of
  a CR that are all invalid build an empty list, which is not nil and so never equal to
  what the API server has stored; and a request above the limit, which a CR gets by
  setting only a request above the default limit, is refused each time.
- The comparison leaves the host aliases of the policy controller to users, and an update
  of its Deployment takes them away (`Remains` of `AuditLogging`, `Kept` of `Templates`).
- In the default mode an object that has lost the operator's label is still read, through
  the API server, and accepted or mended by every pass; but it sends no events, so its
  edits and its deletion wait for a pass that something else starts (`Watched`).
  `SettledIsOwn` is stated of the objects that the caches watch.
- The forwarding ConfigMaps of an AuditLogging have the nil map of finding 1 too
  (`Panics`).

## 5. The proofs

Checked by `tlapm` for every value of the constants.

`CommonAuditProofs`, from the named assumptions of `CommonAudit` (a chain without
repetition, specs over `SpecKinds`, natural bounds):

- `TypeCorrect`: `Spec => []TypeOK`.
- `InvariantHolds`, `NoMissedWakeUp`: `Spec => []QuiescentIsSettled`. The property
  speaks of the API server at rest, while the worker only knows caches, and the
  acceptance of a child may be long ago when the pass ends. So it is not inductive;
  `InductiveInvariant` adds
  - `CopiesAreTrue`: what is called fresh or current is (so that caches at rest are
    the API server's state),
  - `ChildrenAreOwned`: a child that no user creates has an owner whenever it
    exists, in the caches too (so that its events wake someone),
  - `NoWakeUpMissed`: unless the name is in the queue, the pass works with the
    cached spec and everything it has accepted, or has accepted last, is still
    acceptable in the cache.
  The proof has a step per action and part: the worker advances only past what it
  accepts; every event that could unsettle an accepted child sets `queued`; a pass
  that ends otherwise than by accepting everything sets `queued`.
- `OrderHolds`, `OrderKept`: `Spec => []PrerequisitesFirst`, from `OrderInvariant`: everything
  before the worker's position has existed, and what is in a cache has existed.
- `NoLostUpdate`: `Spec => WritesKeepUnmanagedData`, from `CopiesAreTrue`: a write is
  accepted only if `found` is the object's current value.
- `Implements`: `Spec => ImplementsDesiredState`. Each action is shown to be a stutter or
  one lawful change of one child (`ChildrenStep`), or an act of the users or the cluster.
  That the operator comes to rest, and stays there, only where all is as asked is
  `QuiescentIsSettled`. A create or update is lawful because of `CopiesAreTrue` and of
  `WritesAreLawful`, a part of `InductiveInvariant`: an object that does not exist has
  no owner and no data, every CR that is read was given its UID by the API server, and a
  deletion is only ever of a Service or of an output ConfigMap.

`FluentdPodsProofs`, with `ConfigsAreTheOperators` on top of these assumptions:

- `ServedHolds`, `PodsAreServed`: `RecordedSpec => []PodsFollowConfig`, from
  `ServedInvariant`, which holds in the middle of a pass as well: running pods have a
  deployment, and what they mounted is what a ConfigMap of the chain holds, unless that
  is gone, recorded, or its restart is the worker's next step (`RestartComing`). It is
  inductive beside the `InductiveInvariant` of `CommonAudit`, which `RecordedSpec`
  inherits because the record changes no step.

`AuditLoggingProofs`, from the assumptions of `AuditLogging`:

- `TypeCorrect`: `Spec => []TypeOK`; it says among others that no reconciler runs on a
  CR without a switch, which holds because `enable` ends the pass.
- `InvariantHolds`, `RestSettled`: `Spec => []RestIsSettled`, with an
  `InductiveInvariant` of the same parts as above. New in it: an object of the cache is
  owned exactly when it exists unless users create it, so that a *deletion* wakes the
  operator too; and a pass that ends without a requeue has either accepted every child
  for the cached spec, or written the CR, whose event is then still to come
  (`crFresh = FALSE`). The second case is what the default of the switch relies on.
- `DefaultNeverOverrides`: `Spec => DefaultYields`, and `CustomersKeepData`:
  `Spec => CustomersDataKept`, from `CopiesAreTrue`: the API server accepts an update
  only of a copy that is the current object, and of that `Remains` keeps what the
  comments promise.
- `Implements`: `Spec => ImplementsDesiredState`, along the same lines as above, with
  `RestIsSettled` for the rest. The default of the switch is the one step that
  completes the CR.

`GatesProofs`, for any finite set of AuditLogging and CommonAudit resources, in both
modes and with or without failing Lists:

- `TypeCorrect`: `Spec => []TypeOK`.
- `InvariantHolds`, `AlongsideNever`, `RestartGuarded`: `NeverAlongside` and
  `RestartOpensNoGate`, which speak of passes that have *both* gates behind them. The
  proof has to know what a pass has met at each of them, and that what it met is still
  there. `InductiveInvariant` says so in three parts. `PassesAreListed`: passes run with
  all caches filled, and the cache lists the resource that a pass works for as long as
  that exists; a successor of the same name has another `born`. `OldAreListed`: what is
  as old as the process is in every cache that has been filled. `GatesHold`: behind a
  gate a live pass has met none of the old rivals that this gate looks for, and of two
  passes of different kinds that have both asked for each other, one works for a resource
  that is gone; the later of the two would have found the earlier one in the cache.

`TemplatesProofs`, for all chains and sets of CRs:

- `TypeCorrect`: `Spec => []TypeOK`, whether passes overlap or not.
- `InvariantHolds`, `SettledHolds`: `~Overlap => (Spec => []SettledIsOwn)`. Finding 5
  shows that the hypothesis is necessary. `InductiveInvariant` adds that there is one
  pass at a time (`OnePass`); that what the builder has assigned is still in the shared
  container when it is copied (`BuiltIsOwn`), field by field up to where it is; and that
  a pass whose key is not in the queue works with the current CR and leaves accepted
  objects behind, as far as they are watched (`PassIsCurrent`).
- `RepairsHold`: `~Overlap => (Spec => RepairsAreAccepted)`, from `BuiltIsOwn` and three
  facts about the code's operators, for every CR: no update keeps a field that the
  comparison looks at (`KeptIsNotCompared`), the API server stores what is compared as it
  was built (`StoredAsBuilt`), and it refuses nothing (`NotRefused`), each unless the
  CR is one of those of `Stuck`. It is the safety half of `RestsUnlessStuck`.

`SiemConfigProofs`:

- `TypeCorrect`, for all blocks and lines, those included that the comparison never
  accepts.
- `WritesAreProgress` and `FileSettles`, for blocks of plain words (`PlainBlocksOnly`;
  finding 3 shows it is necessary) and any lines of users, with the rank `WritesLeft`:
  every write lowers it, and it is never more than four. The lemmas behind it: a
  replacement makes every match of its field the value and brings up no new match of
  another field (`ReplacedFacts`), so after an update what is not missing is right
  (`UpdatedIsRight`), and a file that was built is right after one update (`BuildFacts`).

`OutputConfigProofs`, for both plugins and files of any length: `TypeCorrect` without
further hypotheses, and for lines without `]` (`NoBrackets`, which finding 4 shows
necessary) `FramedFilesAreKept` and `FramedFilesAreServed`. A framed file starts with a
tag that ends its line and ends with `</match>`, so `<<1, Len>>` of its own part is a
match, and the leftmost longest one.

Every invariant and action property of a passing run has its theorem. Only model-checked
is liveness under fairness (`EventuallyQuiet`, `SurvivorProceeds`, `RivalsAreRefused`,
`RestsUnlessStuck`), which the prover has no means for: it reasons neither about `ENABLED`
nor about the fairness conditions built on it.

## 6. Not modelled, and the plan

Left out for good: logging and recorded events, layout of the built objects, flag
parsing and scheme registration, generated deep copies, test data, and code that no
controller calls (`IndexField` and the field selectors of the cache, `EqualRoles`,
`GetImageID`, `CopyLables` and the like).

Model-checked in a smaller form than the code has it: one pod stands for all pods; the
garbage collector of `Gates` removes a place's children at once; `Templates` reads
without lag, and `CommonAudit` and `AuditLogging` have no fields, so that the two
hazards do not multiply. Liveness of `AuditLogging` has no run of its own: what could
keep its passes going is in `Templates`, and its wake-ups are in `RestIsSettled`.

What is left is the safety half of `EventuallyQuiet`: that between two acts of users or
faults, every write to a child that the API server accepts lowers a rank, as `WritesLeft`
does for one file.

----------------------------- MODULE DesiredState -----------------------------
(***************************************************************************)
(* What both controllers promise, as seen from the API server: a custom    *)
(* resource asks, its children follow, and what others added to a child    *)
(* stays as far as Left says.  There are no caches, queues, passes,        *)
(* resource versions, faults or pods here; CommonAudit and AuditLogging    *)
(* have them and implement this specification.                             *)
(***************************************************************************)
EXTENDS Naturals

CONSTANTS
  Kinds,          \* the children
  Specs,          \* what a custom resource can ask for
  Goal(_, _),     \* Goal(k, s): the value the operator gives child k under s
  Accepted(_, _), \* Accepted(k, s): the values of child k that satisfy s
  Completed(_),   \* Completed(s): s with its defaults
  Nothing,        \* what users added to a child that is new
  Left(_, _),     \* Left(k, e): what mending child k may leave of users' additions e
  Replaceable,    \* the children the operator also deletes
  Others,         \* the children that users touch
  Free            \* the children in whose place users may put their own
VARIABLES
  uid, asked,   \* the custom resource: its uid, 0 for none, and its spec
  uids,         \* uids given out so far
  children,     \* the children: value, owner (0 for none), data users added
  atRest,       \* nothing is on its way to the operator
  turns         \* the actions users have left

vars == <<uid, asked, uids, children, atRest, turns>>

Absent == [val |-> "absent", owner |-> 0, extra |-> Nothing]

(* A child is settled when it satisfies the spec.  Nothing is said of an   *)
(* object of the users' own, nor of its place when it is gone.             *)
Settled(k) ==
  LET o == children[k] IN
    o.owner # 0 \/ (o = Absent /\ k \notin Free) => o.val \in Accepted(k, asked)

Init ==
  /\ uid = 1 /\ uids = 1 /\ asked \in Specs
  /\ \A k \in Kinds : children[k] = Absent
  /\ atRest = FALSE
  /\ turns \in Nat

-----------------------------------------------------------------------------
(* The operator: one change to one object at a time, and none at rest.     *)

Becomes(k, o) == children' = [children EXCEPT ![k] = o] /\ UNCHANGED <<uid, asked, uids, turns>>

Builds(k) ==
  /\ children[k] = Absent
  /\ \E s \in Specs, u \in 1..uids :
       Becomes(k, [val |-> Goal(k, s), owner |-> u, extra |-> Nothing])

Mends(k) ==
  /\ children[k] # Absent
  /\ \E s \in Specs, e \in Left(k, children[k].extra) :
       Becomes(k, [val |-> Goal(k, s), owner |-> children[k].owner, extra |-> e])

Removes(k) == k \in Replaceable /\ Becomes(k, Absent)

Completes ==
  /\ asked' = Completed(asked)
  /\ UNCHANGED <<uid, uids, children, turns>>

Operator ==
  /\ ~atRest
  /\ Completes \/ \E k \in Kinds : Builds(k) \/ Mends(k) \/ Removes(k)

-----------------------------------------------------------------------------
(* Everybody else.                                                         *)

Collects(k) == children[k].owner \notin {0, uid} /\ Becomes(k, Absent)

Asks ==
  /\ turns' = turns - 1
  /\ asked' \in Specs /\ uid' \in {0, uid, uids'}
  /\ uids' \in {uids, uids + 1}
  /\ UNCHANGED children

Touches(k) ==
  /\ turns' = turns - 1
  /\ \A j \in Kinds \ {k} : children'[j] = children[j]
  /\ children'[k].owner \in {0, children[k].owner}
  /\ UNCHANGED <<uid, asked, uids>>

Idles == UNCHANGED <<uid, asked, uids, children, turns>>

-----------------------------------------------------------------------------
(* Whatever happens, the operator comes to rest, and stays at rest, only   *)
(* where every child is settled.                                           *)
Next ==
  /\ \/ Idles \/ Operator \/ Asks
     \/ \E k \in Kinds : Collects(k)
     \/ \E k \in Others : Touches(k)
  /\ atRest' \in BOOLEAN
  /\ atRest' /\ uid' # 0 => \A k \in Kinds : Settled(k)'

Spec == Init /\ [][Next]_vars
=============================================================================

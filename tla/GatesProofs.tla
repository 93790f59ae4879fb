----------------------------- MODULE GatesProofs -----------------------------
(***************************************************************************)
(* Proofs about Gates, for every set of resources, every choice of those   *)
(* that resync and every bound on users and faults.                        *)
(***************************************************************************)
EXTENDS Gates, FiniteSetTheorems, TLAPS

-----------------------------------------------------------------------------
(* Helpers.                                                                *)

(* The two kinds of names do not overlap.                                  *)
LEMMA NameFacts ==
  /\ \A c \in Names : KindOf(c) \in Kinds /\ c \in NamesOf(KindOf(c)) /\ Place(c) \in Places
  /\ \A kind \in Kinds : NamesOf(kind) \subseteq Names
  /\ \A kind \in Kinds : \A c \in NamesOf(kind) : KindOf(c) = kind
  /\ Gone \in Resources
BY NamesAssumption DEF Names, KindOf, NamesOf, Kinds, Place, Places, Gone, Resources

(* To set a flag of a copy is to leave its birth and change.               *)
LEMMA FlagFacts ==
  ASSUME NEW r \in Resources
  PROVE  /\ [r EXCEPT !.status = TRUE] \in Resources /\ [r EXCEPT !.policy = TRUE] \in Resources
         /\ [r EXCEPT !.status = TRUE].born = r.born /\ [r EXCEPT !.status = TRUE].change = r.change
         /\ [r EXCEPT !.policy = TRUE].born = r.born /\ [r EXCEPT !.policy = TRUE].change = r.change
BY DEF Resources

(* What a pass that ends leaves of its controller's variables is well typed. *)
LEMMA EndPassType ==
  ASSUME TypeOK, NEW kind \in Kinds, NEW b \in BOOLEAN, at[kind] # "idle", EndPass(kind, b)
  PROVE  /\ queue' \subseteq Names
         /\ at' \in [Kinds -> {"idle", "status", "own", "other", "admitted"}]
         /\ name' \in [Kinds -> Names \cup {NoName}]
         /\ \A k \in Kinds : at'[k] # "idle" => name'[k] \in NamesOf(k)
         /\ inst' \in [Kinds -> Resources]
BY NameFacts DEF EndPass, GoTo, TypeOK

(* An update of a resource brings its version up to date with the copy.    *)
LEMMA UpdateType ==
  ASSUME TypeOK, NEW kind \in Kinds, at[kind] # "idle", NEW r \in Resources,
         r.born = inst[kind].born, r.change = inst[kind].change,
         UpdateInstance(kind, r)
  PROVE  /\ crs' \in [Names -> Resources]
         /\ \A c \in Names : crs'[c].born = crs[c].born /\ crs'[c].change = crs[c].change
BY NameFacts DEF UpdateInstance, TypeOK

-----------------------------------------------------------------------------
(* Type correctness.                                                       *)

(* The process starts with resources, empty caches and no pass.            *)
LEMMA TypeInit == Init => TypeOK
<1> SUFFICES ASSUME Init PROVE TypeOK
  OBVIOUS
<1>1. crs \in [Names -> Resources] /\ inst \in [Kinds -> Resources]
  BY NameFacts DEF Init
<1>2. changes \in 0..MaxUserActs /\ faults \in 0..MaxFaults
  BY BoundsAssumption DEF Init
<1>3. \A c \in Names : crs[c].change \in crs[c].born..changes /\ seen[c].change <= changes
  BY DEF Init, Gone
<1>4. kids \in [Places -> Owners]
  BY DEF Init, Owners
<1>5. \A c \in Names : ~Exists(seen[c])
  BY DEF Init, Gone, Exists
<1> QED BY <1>1, <1>2, <1>3, <1>4, <1>5 DEF Init, TypeOK

(* A worker's step keeps the state well typed: among others, a pass that   *)
(* is on its way has a name of its controller's own kind.                  *)
LEMMA TypeWorker ==
  ASSUME TypeOK, NEW kind \in Kinds, Worker(kind) \/ ListFails(kind) \/ PassFails(kind)
  PROVE  TypeOK'
<1> USE NameFacts
<1>1. CASE SetDefaultStatus(kind)
  <2> DEFINE r == [inst[kind] EXCEPT !.status = TRUE]
  <2>1. r \in Resources /\ r.born = inst[kind].born /\ r.change = inst[kind].change
    BY FlagFacts DEF TypeOK
  <2>2. CASE UpdateInstance(kind, r) /\ inst' = [inst EXCEPT ![kind] = r]
             /\ GoTo(kind, First(kind)) /\ UNCHANGED <<queue, name>>
    <3>1. crs' \in [Names -> Resources]
          /\ \A c \in Names : crs'[c].born = crs[c].born /\ crs'[c].change = crs[c].change
      BY <1>1, <2>1, <2>2, UpdateType DEF SetDefaultStatus
    <3>2. at' \in [Kinds -> {"idle", "status", "own", "other", "admitted"}]
      BY <2>2 DEF GoTo, First, TypeOK
    <3>3. \A k \in Kinds : at'[k] # "idle" => name'[k] \in NamesOf(k)
      BY <1>1, <2>2 DEF SetDefaultStatus, GoTo, TypeOK
    <3> QED BY <1>1, <2>1, <2>2, <3>1, <3>2, <3>3 DEF SetDefaultStatus, history, TypeOK
  <2>3. CASE EndPass(kind, TRUE) /\ UNCHANGED crs
    BY <1>1, <2>3, EndPassType DEF SetDefaultStatus, history, TypeOK
  <2> QED BY <1>1, <2>2, <2>3 DEF SetDefaultStatus
<1>2. CASE PassGate(kind)
  <2>1. CASE GoTo(kind, Second(at[kind], kind)) /\ UNCHANGED <<queue, name, inst>>
    <3>1. at' \in [Kinds -> {"idle", "status", "own", "other", "admitted"}]
      BY <2>1 DEF GoTo, Second, TypeOK
    <3>2. \A k \in Kinds : at'[k] # "idle" => name'[k] \in NamesOf(k)
      BY <1>2, <2>1 DEF PassGate, GoTo, TypeOK
    <3> QED BY <1>2, <2>1, <3>1, <3>2 DEF PassGate, history, TypeOK
  <2>2. CASE EndPass(kind, FALSE)
    BY <1>2, <2>2, EndPassType DEF PassGate, history, TypeOK
  <2> QED BY <1>2, <2>1, <2>2 DEF PassGate
<1>3. CASE EnablePolicyControllerByDefault(kind)
  <2> DEFINE r == [inst[kind] EXCEPT !.policy = TRUE]
  <2>1. r \in Resources /\ r.born = inst[kind].born /\ r.change = inst[kind].change
    BY FlagFacts DEF TypeOK
  <2>2. \E b \in BOOLEAN : EndPass(kind, b)
    BY <1>3 DEF EnablePolicyControllerByDefault
  <2>3. crs' \in [Names -> Resources]
        /\ \A c \in Names : crs'[c].born = crs[c].born /\ crs'[c].change = crs[c].change
    BY <1>3, <2>1, UpdateType DEF EnablePolicyControllerByDefault, TypeOK
  <2> QED BY <1>3, <2>2, <2>3, EndPassType DEF EnablePolicyControllerByDefault, history, TypeOK
<1>4. CASE ReconcileChildren(kind)
  <2>1. name[kind] \in Names /\ Place(name[kind]) \in Places
    BY <1>4 DEF ReconcileChildren, TypeOK
  <2>2. \E b \in BOOLEAN : EndPass(kind, b)
    BY <1>4 DEF ReconcileChildren
  <2>3. kids' \in [Places -> Owners]
    <3> DEFINE mine == [owner |-> name[kind], born |-> inst[kind].born,
                        change |-> inst[kind].change]
               p    == Place(name[kind])
    <3>1. mine \in Owners
      BY <2>1 DEF TypeOK, Resources, Owners
    <3>2. kids[p] # Nobody => [kids[p] EXCEPT !.change = mine.change] \in Owners
      BY <2>1, SMTT(30) DEF TypeOK, Resources, Owners
    <3>3. \/ kids' = kids
          \/ kids' = [kids EXCEPT ![p] = mine]
          \/ kids[p] # Nobody /\ kids' = [kids EXCEPT ![p] = [kids[p] EXCEPT !.change = mine.change]]
      BY <1>4 DEF ReconcileChildren
    <3> QED BY <2>1, <3>1, <3>2, <3>3 DEF TypeOK
  <2> QED BY <1>4, <2>2, <2>3, EndPassType DEF ReconcileChildren, history, TypeOK
<1>5. CASE ListFails(kind)
  <2>1. at' \in [Kinds -> {"idle", "status", "own", "other", "admitted"}]
    BY <1>5 DEF ListFails, GoTo, Second, TypeOK
  <2>2. \A k \in Kinds : at'[k] # "idle" => name'[k] \in NamesOf(k)
    BY <1>5 DEF ListFails, GoTo, TypeOK
  <2>3. faults' \in 0..MaxFaults /\ blind' \in BOOLEAN
    BY <1>5, BoundsAssumption DEF ListFails, TypeOK
  <2> QED BY <1>5, <2>1, <2>2, <2>3 DEF ListFails, TypeOK
<1>6. CASE PassFails(kind)
  <2>1. at[kind] # "idle" /\ EndPass(kind, TRUE)
    BY <1>6 DEF PassFails
  <2>2. faults' \in 0..MaxFaults
    BY <1>6, BoundsAssumption DEF PassFails, TypeOK
  <2> QED BY <1>6, <2>1, <2>2, EndPassType DEF PassFails, history, TypeOK
<1> QED BY <1>1, <1>2, <1>3, <1>4, <1>5, <1>6 DEF Worker

(* Start-up, informers and the end of the process.                         *)
LEMMA TypeProcess ==
  ASSUME TypeOK,
         \/ \E kind \in Kinds : ListSync(kind) \/ Resync(kind)
         \/ \E c \in Names : StartPass(c) \/ Sync(c)
         \/ Crash
  PROVE  TypeOK'
<1> USE NameFacts
<1>1. ASSUME NEW kind \in Kinds, ListSync(kind) PROVE TypeOK'
  <2>1. seen' \in [Names -> Resources]
    BY <1>1 DEF ListSync, TypeOK
  <2>2. \A c \in Names : Exists(seen'[c]) => KindOf(c) \in synced'
    BY <1>1 DEF ListSync, TypeOK
  <2>3. \A c \in Names : seen'[c].change <= changes
    BY <1>1 DEF ListSync, TypeOK, Resources
  <2> QED BY <1>1, <2>1, <2>2, <2>3 DEF ListSync, worker, history, TypeOK
<1>2. ASSUME NEW kind \in Kinds, Resync(kind) PROVE TypeOK'
  BY <1>2 DEF Resync, worker, history, TypeOK
<1>3. ASSUME NEW c \in Names, StartPass(c) PROVE TypeOK'
  <2>1. CASE UNCHANGED worker
    BY <1>3, <2>1 DEF StartPass, worker, history, TypeOK
  <2>2. CASE ~UNCHANGED worker
    <3> DEFINE kind == KindOf(c)
    <3>1. /\ Exists(Get(c)) /\ name' = [name EXCEPT ![kind] = c]
          /\ inst' = [inst EXCEPT ![kind] = Get(c)]
          /\ GoTo(kind, IF Get(c).status THEN First(kind) ELSE "status")
      BY <1>3, <2>2 DEF StartPass
    <3>2. Get(c) \in Resources
      BY DEF Get, FromClient, TypeOK
    <3>3. at' \in [Kinds -> {"idle", "status", "own", "other", "admitted"}]
      BY <3>1 DEF GoTo, First, TypeOK
    <3>4. \A k \in Kinds : at'[k] # "idle" => name'[k] \in NamesOf(k)
      BY <3>1 DEF GoTo, TypeOK
    <3> QED BY <1>3, <3>1, <3>2, <3>3, <3>4 DEF StartPass, history, TypeOK
  <2> QED BY <2>1, <2>2
<1>4. ASSUME NEW c \in Names, Sync(c) PROVE TypeOK'
  <2>1. seen' \in [Names -> Resources]
    BY <1>4 DEF Sync, TypeOK
  <2>2. \A d \in Names : Exists(seen'[d]) => KindOf(d) \in synced'
    BY <1>4 DEF Sync, TypeOK
  <2>3. \A d \in Names : seen'[d].change <= changes
    BY <1>4 DEF Sync, TypeOK, Resources
  <2> QED BY <1>4, <2>1, <2>2, <2>3 DEF Sync, worker, history, TypeOK
<1>5. CASE Crash
  <2>1. faults' \in 0..MaxFaults
    BY <1>5, BoundsAssumption DEF Crash, TypeOK
  <2>2. \A c \in Names : ~Exists(seen'[c]) /\ seen'[c].change = 0
    BY <1>5 DEF Crash, Exists, Gone
  <2>3. /\ at' \in [Kinds -> {"idle", "status", "own", "other", "admitted"}]
        /\ name' \in [Kinds -> Names \cup {NoName}]
        /\ inst' \in [Kinds -> Resources] /\ seen' \in [Names -> Resources]
        /\ synced' = {} /\ old' \subseteq Names /\ blind' = FALSE /\ queue' = {}
    BY <1>5 DEF Crash
  <2>4. \A kind \in Kinds : at'[kind] = "idle"
    BY <1>5 DEF Crash
  <2>5. UNCHANGED <<crs, kids, changes>>
    BY <1>5 DEF Crash
  <2>6. \A c \in Names : crs'[c].change \in crs'[c].born..changes' /\ seen'[c].change <= changes'
    BY <2>2, <2>5 DEF TypeOK
  <2> QED BY <2>1, <2>2, <2>3, <2>4, <2>5, <2>6 DEF TypeOK
<1> QED BY <1>1, <1>2, <1>3, <1>4, <1>5

(* Users give every change a number of its own.                            *)
LEMMA UserFacts ==
  ASSUME TypeOK, NEW c \in Names, User(c)
  PROVE  /\ crs' \in [Names -> Resources] /\ changes' = changes + 1
         /\ \A d \in Names \ {c} : crs'[d] = crs[d]
         /\ \/ crs'[c] = Gone /\ old' = old \ {c}
            \/ ~Exists(crs[c]) /\ crs'[c].born = changes + 1
                               /\ crs'[c].change = changes + 1 /\ old' = old
            \/ /\ Exists(crs[c]) /\ crs'[c].born = crs[c].born
               /\ crs'[c].change = changes + 1 /\ old' = old
<1>1. changes + 1 \in Nat
  BY DEF TypeOK
<1>2. CASE UserCreates(c)
  <2>1. [Gone EXCEPT !.born = changes + 1, !.change = changes + 1] \in Resources
    BY <1>1 DEF Gone, Resources
  <2> QED BY <1>2, <2>1 DEF UserCreates, User, TypeOK, Gone
<1>3. CASE UserEdits(c)
  <2>1. [crs[c] EXCEPT !.change = changes + 1] \in Resources
    BY <1>1 DEF TypeOK, Resources
  <2>2. crs' = [crs EXCEPT ![c] = [crs[c] EXCEPT !.change = changes + 1]]
    BY <1>3 DEF UserEdits
  <2>3. [crs[c] EXCEPT !.change = changes + 1].born = crs[c].born
    BY DEF TypeOK, Resources
  <2>4. [crs[c] EXCEPT !.change = changes + 1].change = changes + 1
    BY DEF TypeOK, Resources
  <2> QED BY <1>3, <2>1, <2>2, <2>3, <2>4 DEF UserEdits, User, TypeOK
<1>4. CASE UserDeletes(c)
  BY <1>4, NameFacts DEF UserDeletes, User, TypeOK
<1> QED BY <1>2, <1>3, <1>4 DEF User

(* Users and the garbage collector keep the state well typed.              *)
LEMMA TypeOthers ==
  ASSUME TypeOK, (\E c \in Names : User(c)) \/ \E p \in Places : CollectGarbage(p)
  PROVE  TypeOK'
<1> USE NameFacts
<1>1. ASSUME NEW c \in Names, User(c) PROVE TypeOK'
  <2>1. ASSUME NEW d \in Names
        PROVE  crs'[d].change \in crs'[d].born..changes' /\ seen[d].change <= changes'
    <3>1. /\ changes \in Nat /\ changes' = changes + 1
          /\ seen[d].change \in Nat /\ seen[d].change <= changes
          /\ crs[d].born \in Nat /\ crs[d].change \in crs[d].born..changes
      BY <1>1, UserFacts DEF TypeOK, Resources
    <3>2. CASE d # c
      BY <1>1, <3>1, <3>2, UserFacts
    <3>3. CASE d = c
      BY <1>1, <3>1, <3>3, UserFacts DEF Gone
    <3> QED BY <3>2, <3>3
  <2>2. changes' \in 0..MaxUserActs
    BY <1>1, BoundsAssumption DEF User, TypeOK
  <2>3. old' \subseteq Names
    BY <1>1, UserFacts DEF TypeOK
  <2> QED BY <1>1, <2>1, <2>2, <2>3, UserFacts DEF User, worker, TypeOK
<1>2. ASSUME NEW p \in Places, CollectGarbage(p) PROVE TypeOK'
  <2>1. kids[p].owner \in Names
    BY <1>2 DEF CollectGarbage, TypeOK, Owners
  <2>2. kids' \in [Places -> Owners]
    BY <1>2 DEF CollectGarbage, TypeOK, Owners
  <2> QED BY <1>2, <2>1, <2>2 DEF CollectGarbage, worker, history, TypeOK
<1> QED BY <1>1, <1>2

(* Every step keeps the state well typed.                                  *)
LEMMA TypeStep == ASSUME TypeOK, [Next]_vars PROVE TypeOK'
<1>1. CASE UNCHANGED vars
  BY <1>1 DEF vars, worker, history, TypeOK
<1>2. CASE Next
  BY <1>2, TypeWorker, TypeProcess, TypeOthers DEF Next
<1> QED BY <1>1, <1>2

(* Every variable keeps its type: in particular a worker never holds a     *)
(* resource of the other controller's kind, and no cache has resources that*)
(* its informer has not listed.                                            *)
THEOREM TypeCorrect == Spec => []TypeOK
<1>1. Init => TypeOK
  BY TypeInit
<1>2. TypeOK /\ [Next]_vars => TypeOK'
  BY TypeStep
<1> QED BY <1>1, <1>2, PTL DEF Spec
-----------------------------------------------------------------------------
(* Two passes, two lists, one process.                                     *)

(* What a worker does to its own pass and to the resources: it ends the    *)
(* pass, sets the status, passes an open gate or one whose List fails.     *)
LEMMA WorkerCases ==
  ASSUME TypeOK, NEW kind \in Kinds, Worker(kind) \/ ListFails(kind) \/ PassFails(kind)
  PROVE  /\ UNCHANGED <<seen, synced, old, changes>>
         /\ \A c \in Names : crs'[c].born = crs[c].born
         /\ at[kind] # "idle"
         /\ \A k \in Kinds \ {kind} : /\ at'[k] = at[k] /\ name'[k] = name[k]
                                       /\ inst'[k] = inst[k]
         /\ \/ at'[kind] = "idle" /\ blind' = blind
            \/ /\ at[kind] = "status" /\ at'[kind] = First(kind) /\ blind' = blind
               /\ name'[kind] = name[kind] /\ inst'[kind].born = inst[kind].born
            \/ /\ PassGate(kind) /\ at'[kind] = Second(at[kind], kind)
               /\ UNCHANGED <<crs, name, inst, blind>>
               /\ IF at[kind] = "own" THEN OwnGateOpen(name[kind]) ELSE OtherGateOpen(name[kind])
            \/ blind' = TRUE /\ UNCHANGED <<name, inst>>
<1> USE NameFacts
<1>1. CASE SetDefaultStatus(kind)
  <2> DEFINE r == [inst[kind] EXCEPT !.status = TRUE]
  <2>1. r \in Resources /\ r.born = inst[kind].born /\ r.change = inst[kind].change
    BY FlagFacts DEF TypeOK
  <2>2. CASE UpdateInstance(kind, r) /\ inst' = [inst EXCEPT ![kind] = r]
             /\ GoTo(kind, First(kind)) /\ UNCHANGED <<queue, name>>
    <3>1. \A c \in Names : crs'[c].born = crs[c].born
      BY <1>1, <2>1, <2>2, UpdateType DEF SetDefaultStatus
    <3>2. at[kind] = "status" /\ UNCHANGED <<seen, synced, old, changes, blind>>
      BY <1>1 DEF SetDefaultStatus, history
    <3> QED BY <2>1, <2>2, <3>1, <3>2 DEF GoTo, TypeOK
  <2>3. CASE EndPass(kind, TRUE) /\ UNCHANGED crs
    BY <1>1, <2>3 DEF SetDefaultStatus, history, EndPass, GoTo, TypeOK
  <2> QED BY <1>1, <2>2, <2>3 DEF SetDefaultStatus
<1>2. CASE PassGate(kind)
  <2>1. UNCHANGED <<crs, seen, synced, old, changes, blind>> /\ at[kind] # "idle"
    BY <1>2 DEF PassGate, history
  <2>2. CASE EndPass(kind, FALSE)
    BY <2>1, <2>2 DEF EndPass, GoTo, TypeOK
  <2>3. CASE ~EndPass(kind, FALSE)
    <3>1. /\ GoTo(kind, Second(at[kind], kind)) /\ UNCHANGED <<queue, name, inst>>
          /\ IF at[kind] = "own" THEN OwnGateOpen(name[kind]) ELSE OtherGateOpen(name[kind])
      BY <1>2, <2>3 DEF PassGate
    <3> QED BY <1>2, <2>1, <3>1 DEF GoTo, TypeOK
  <2> QED BY <2>2, <2>3
<1>3. CASE EnablePolicyControllerByDefault(kind)
  <2> DEFINE r == [inst[kind] EXCEPT !.policy = TRUE]
  <2>1. r \in Resources /\ r.born = inst[kind].born /\ r.change = inst[kind].change
    BY FlagFacts DEF TypeOK
  <2>2. \A c \in Names : crs'[c].born = crs[c].born
    BY <1>3, <2>1, UpdateType DEF EnablePolicyControllerByDefault
  <2>3. UNCHANGED <<seen, synced, old, changes, blind>> /\ at[kind] # "idle"
    BY <1>3 DEF EnablePolicyControllerByDefault, history
  <2>4. \E b \in BOOLEAN : EndPass(kind, b)
    BY <1>3 DEF EnablePolicyControllerByDefault
  <2> QED BY <2>2, <2>3, <2>4 DEF EndPass, GoTo, TypeOK
<1>4. CASE ReconcileChildren(kind) \/ PassFails(kind)
  <2>1. UNCHANGED <<crs, seen, synced, old, changes, blind>> /\ at[kind] # "idle"
    BY <1>4 DEF ReconcileChildren, PassFails, history
  <2>2. \E b \in BOOLEAN : EndPass(kind, b)
    BY <1>4 DEF ReconcileChildren, PassFails
  <2> QED BY <2>1, <2>2 DEF EndPass, GoTo, TypeOK
<1>5. CASE ListFails(kind)
  BY <1>5 DEF ListFails, GoTo, TypeOK
<1> QED BY <1>1, <1>2, <1>3, <1>4, <1>5 DEF Worker

(* A birth is given once: what has one now that is not new had it before.  *)
LEMMA BirthsAreNew ==
  ASSUME TypeOK, Next
  PROVE  /\ changes \in Nat /\ changes' \in Nat /\ changes' >= changes
         /\ \A c \in Names : \A b \in 1..changes : crs'[c].born = b => crs[c].born = b
<1>0. changes \in Nat
  BY DEF TypeOK
<1>1. ASSUME NEW kind \in Kinds, Worker(kind) \/ ListFails(kind) \/ PassFails(kind)
      PROVE  changes' = changes /\ \A c \in Names : crs'[c].born = crs[c].born
  BY <1>1, WorkerCases
<1>2. ASSUME NEW c \in Names, User(c)
      PROVE  /\ changes' = changes + 1
             /\ \A d \in Names : \A b \in 1..changes : crs'[d].born = b => crs[d].born = b
  BY <1>0, <1>2, UserFacts DEF Gone
<1>3. CASE \/ \E kind \in Kinds : ListSync(kind) \/ Resync(kind)
           \/ \E c \in Names : StartPass(c) \/ Sync(c)
           \/ \E p \in Places : CollectGarbage(p)
           \/ Crash
  BY <1>0, <1>3 DEF ListSync, Resync, StartPass, Sync, CollectGarbage, Crash
<1> QED BY <1>0, <1>1, <1>2, <1>3 DEF Next

(* What a step must leave alone for every pass to stay listed: a cache     *)
(* changes only to what the API server has, and no pass begins.            *)
LEMMA ListedFrame ==
  ASSUME TypeOK, TypeOK', Next, PassesAreListed,
         \A c \in Names : seen'[c] = seen[c] \/ seen'[c] = crs[c] \/ seen'[c] = Gone,
         \A kind \in Kinds :
           \/ at'[kind] = "idle"
           \/ /\ at[kind] # "idle" /\ synced' = synced
              /\ name'[kind] = name[kind] /\ inst'[kind].born = inst[kind].born
              /\ \/ seen'[name[kind]] = seen[name[kind]]
                 \/ seen'[name[kind]] = crs[name[kind]]
  PROVE  PassesAreListed'
<1> USE NameFacts
<1>1. ASSUME NEW c \in Names PROVE seen'[c].born <= changes'
  <2>1. /\ seen[c].born \in Nat /\ seen[c].born <= changes
        /\ crs[c].born \in Nat /\ crs[c].born <= changes
    BY DEF PassesAreListed, TypeOK, Resources
  <2> QED BY <2>1, BirthsAreNew DEF Gone
<1>2. ASSUME NEW kind \in Kinds, at'[kind] # "idle"
      PROVE  /\ synced' = Kinds
             /\ inst'[kind].born \in 1..changes'
             /\ Alive(kind)' => Exists(seen'[name'[kind]])
  <2>1. /\ synced = Kinds /\ inst[kind].born \in 1..changes
        /\ Alive(kind) => Exists(seen[name[kind]])
        /\ name[kind] \in Names
    BY <1>2 DEF PassesAreListed, TypeOK
  <2>2. Alive(kind)' => Alive(kind)
    BY <1>2, <2>1, BirthsAreNew DEF Alive
  <2>3. Alive(kind) => Exists(crs[name[kind]])
    BY <2>1 DEF Alive, Exists
  <2> QED BY <1>2, <2>1, <2>2, <2>3, BirthsAreNew
<1> QED BY <1>1, <1>2 DEF PassesAreListed

(* Every step keeps what the passes have found in the caches listed there. *)
LEMMA ListedStep ==
  ASSUME TypeOK, TypeOK', Next, PassesAreListed PROVE PassesAreListed'
<1> USE NameFacts
<1>1. ASSUME NEW kind \in Kinds, Worker(kind) \/ ListFails(kind) \/ PassFails(kind)
      PROVE  PassesAreListed'
  <2>1. seen' = seen /\ synced' = synced
    BY <1>1, WorkerCases
  <2>2. ASSUME NEW k \in Kinds
        PROVE  \/ at'[k] = "idle"
               \/ /\ at[k] # "idle" /\ name'[k] = name[k] /\ inst'[k].born = inst[k].born
    BY <1>1, WorkerCases
  <2> QED BY <2>1, <2>2, ListedFrame
<1>2. ASSUME NEW kind \in Kinds, ListSync(kind) PROVE PassesAreListed'
  <2>1. \A k \in Kinds : at'[k] = "idle"
    BY <1>2 DEF ListSync, worker, PassesAreListed
  <2>2. \A c \in Names : seen'[c] = seen[c] \/ seen'[c] = crs[c]
    BY <1>2 DEF ListSync
  <2> QED BY <2>1, <2>2, ListedFrame
<1>3. ASSUME NEW c \in Names, StartPass(c) PROVE PassesAreListed'
  <2>1. CASE UNCHANGED worker
    BY <1>3, <2>1, ListedFrame DEF StartPass, worker
  <2>2. CASE ~UNCHANGED worker
    <3> DEFINE kind == KindOf(c)
    <3>1. /\ Exists(Get(c)) /\ name' = [name EXCEPT ![kind] = c]
          /\ inst' = [inst EXCEPT ![kind] = Get(c)]
          /\ \A k \in Kinds \ {kind} : at'[k] = at[k]
          /\ synced = Kinds /\ UNCHANGED <<crs, seen, synced, changes>>
      BY <1>3, <2>2 DEF StartPass, GoTo, CachesSynced, TypeOK
    <3>2. Get(c) = seen[c] /\ Exists(seen[c])
      BY <3>1 DEF Get, FromClient, Gone, Exists
    <3>3. seen[c].born \in 1..changes
      BY <3>2 DEF PassesAreListed, TypeOK, Resources, Exists
    <3>4. inst'[kind].born \in 1..changes /\ name'[kind] = c
      BY <3>1, <3>2, <3>3 DEF TypeOK
    <3>5. \A k \in Kinds \ {kind} : inst'[k] = inst[k] /\ name'[k] = name[k]
      BY <3>1 DEF TypeOK
    <3> QED BY <3>1, <3>2, <3>4, <3>5 DEF PassesAreListed, Alive
  <2> QED BY <2>1, <2>2
<1>4. ASSUME NEW c \in Names, Sync(c) PROVE PassesAreListed'
  <2>1. \A d \in Names : seen'[d] = seen[d] \/ seen'[d] = crs[d]
    BY <1>4 DEF Sync, TypeOK
  <2>2. \A k \in Kinds : at[k] # "idle" => name[k] \in Names
    BY DEF TypeOK
  <2>3. UNCHANGED <<at, name, inst, synced>>
    BY <1>4 DEF Sync, worker
  <2> QED BY <2>1, <2>2, <2>3, ListedFrame
<1>5. CASE Crash
  BY <1>5, ListedFrame DEF Crash
<1>6. CASE \/ \E kind \in Kinds : Resync(kind)
           \/ \E c \in Names : User(c)
           \/ \E p \in Places : CollectGarbage(p)
  BY <1>6, ListedFrame DEF Resync, User, CollectGarbage, worker
<1> QED BY <1>1, <1>2, <1>3, <1>4, <1>5, <1>6 DEF Next

(* What is as old as the process stays so until it is deleted, and is in   *)
(* the first list of its informer.                                         *)
LEMMA OldStep ==
  ASSUME TypeOK, TypeOK', Next, OldAreListed PROVE OldAreListed'
<1> USE NameFacts
<1>1. ASSUME NEW kind \in Kinds, Worker(kind) \/ ListFails(kind) \/ PassFails(kind)
      PROVE  OldAreListed'
  BY <1>1, WorkerCases DEF OldAreListed, Exists, TypeOK
<1>2. ASSUME NEW kind \in Kinds, ListSync(kind) PROVE OldAreListed'
  BY <1>2 DEF ListSync, history, OldAreListed, TypeOK
<1>3. ASSUME NEW c \in Names, Sync(c) PROVE OldAreListed'
  BY <1>3 DEF Sync, history, OldAreListed, TypeOK
<1>4. CASE Crash
  BY <1>4 DEF Crash, OldAreListed
<1>5. ASSUME NEW c \in Names, User(c) PROVE OldAreListed'
  <2>1. UNCHANGED <<seen, synced>> /\ changes + 1 # 0
    BY <1>5 DEF User, TypeOK
  <2>2. ASSUME NEW d \in old' PROVE d \in old /\ d \in Names /\ Exists(crs'[d])
    BY <1>5, <2>1, UserFacts DEF OldAreListed, Exists, TypeOK
  <2> QED BY <2>1, <2>2 DEF OldAreListed
<1>6. CASE \/ \E kind \in Kinds : Resync(kind)
           \/ \E c \in Names : StartPass(c)
           \/ \E p \in Places : CollectGarbage(p)
  BY <1>6 DEF Resync, StartPass, CollectGarbage, history, OldAreListed
<1> QED BY <1>1, <1>2, <1>3, <1>4, <1>5, <1>6 DEF Next

(* A step that takes no pass past a gate keeps what the gates have         *)
(* established: no resource comes back to life.                            *)
LEMMA GatesFrame ==
  ASSUME TypeOK, TypeOK', Next, PassesAreListed, GatesHold,
         blind' = blind, old' \subseteq old,
         \A kind \in Kinds :
           \/ at'[kind] \in {"idle", "status", First(kind)}
           \/ /\ at'[kind] = at[kind] /\ name'[kind] = name[kind]
              /\ inst'[kind].born = inst[kind].born
  PROVE  GatesHold'
<1> USE NameFacts
<1>1. ASSUME NEW kind \in Kinds, NEW gate \in {"own", "other"}, Passed(kind, gate)'
      PROVE  /\ Passed(kind, gate) /\ name'[kind] = name[kind]
             /\ Alive(kind)' => Alive(kind)
  <2>1. at'[kind] \notin {"idle", "status", First(kind)}
    BY <1>1 DEF Passed, First
  <2>2. /\ at'[kind] = at[kind] /\ name'[kind] = name[kind]
        /\ inst'[kind].born = inst[kind].born
    BY <2>1
  <2>3. inst[kind].born \in 1..changes /\ name[kind] \in Names
    BY <2>1, <2>2 DEF PassesAreListed, TypeOK
  <2> QED BY <1>1, <2>2, <2>3, BirthsAreNew DEF Passed, Alive
<1>2. SUFFICES ASSUME ~blind' PROVE
        /\ \A kind \in Kinds :
             /\ Passed(kind, "own")' /\ Alive(kind)' => old' \cap OwnRivals(name'[kind]) = {}
             /\ Passed(kind, "other")' /\ Alive(kind)' => old' \cap OtherRivals(name'[kind]) = {}
        /\ Passed("AL", "other")' /\ Passed("CA", "other")' /\ name'["CA"] \in CSNamespaced =>
             \E kind \in Kinds : ~Alive(kind)'
  BY DEF GatesHold
<1>3. ASSUME NEW kind \in Kinds
      PROVE  /\ Passed(kind, "own")' /\ Alive(kind)' => old' \cap OwnRivals(name'[kind]) = {}
             /\ Passed(kind, "other")' /\ Alive(kind)' => old' \cap OtherRivals(name'[kind]) = {}
  BY <1>1, <1>2 DEF GatesHold
<1>4. Passed("AL", "other")' /\ Passed("CA", "other")' /\ name'["CA"] \in CSNamespaced =>
        \E kind \in Kinds : ~Alive(kind)'
  <2> SUFFICES ASSUME Passed("AL", "other")', Passed("CA", "other")', name'["CA"] \in CSNamespaced
               PROVE  \E kind \in Kinds : ~Alive(kind)'
    OBVIOUS
  <2>1. \A kind \in Kinds : /\ Passed(kind, "other") /\ name'[kind] = name[kind]
                            /\ Alive(kind)' => Alive(kind)
    BY <1>1 DEF Kinds
  <2>2. "AL" \in Kinds /\ "CA" \in Kinds
    BY DEF Kinds
  <2>3. \E kind \in Kinds : ~Alive(kind)
    BY <1>2, <2>1, <2>2 DEF GatesHold
  <2> QED BY <2>1, <2>3
<1> QED BY <1>3, <1>4

(* Two members are one too many for a gate.                                *)
LEMMA TwoAreTooMany ==
  ASSUME NEW S, IsFiniteSet(S), NEW c \in S, NEW d \in S, c # d
  PROVE  ~(Cardinality(S) <= OwnLimit)
<1>1. IsFiniteSet({c}) /\ Cardinality({c}) = 1
  BY FS_Singleton
<1>2. IsFiniteSet({c} \cup {d}) /\ Cardinality({c} \cup {d}) = 2
  <2>1. /\ IsFiniteSet({c} \cup {d})
        /\ Cardinality({c} \cup {d}) = Cardinality({c}) + 1
    <3>1. d \notin {c}
      OBVIOUS
    <3> QED BY <1>1, <3>1, FS_AddElement
  <2> QED BY <1>1, <2>1
<1>3. ({c} \cup {d}) \in SUBSET S
  OBVIOUS
<1>4. Cardinality({c} \cup {d}) <= Cardinality(S)
  BY <1>3, FS_Subset
<1>5. Cardinality(S) \in Nat
  BY FS_CardinalityType
<1> QED BY <1>2, <1>4, <1>5 DEF OwnLimit

(* A resource and its rivals are in the lists of the gates once they are   *)
(* in the caches.                                                          *)
LEMMA OwnGateSees ==
  ASSUME NEW c \in Names, NEW d \in OwnRivals(c), Exists(seen[c]), Exists(seen[d])
  PROVE  ~OwnGateOpen(c)
<1> USE NameFacts
<1>1. d \in Names /\ Rivals(c, d) /\ KindOf(d) = KindOf(c)
  BY DEF OwnRivals
<1>2. c # d
  BY <1>1 DEF Rivals
<1>3. c \in OwnListed(c) /\ d \in OwnListed(c)
  BY <1>1, NamesAssumption DEF OwnListed, List, NamesOf, KindOf, Rivals, Names
<1>4. IsFiniteSet(OwnListed(c))
  <2>1. OwnListed(c) \in SUBSET AuditLoggings \/ OwnListed(c) \in SUBSET CommonAudits
    BY DEF OwnListed, List, NamesOf
  <2> QED BY <2>1, NamesAssumption, FS_Subset
<1> QED BY <1>2, <1>3, <1>4, TwoAreTooMany DEF OwnGateOpen

(* A rival of the other kind that is in the cache shuts the gate.          *)
LEMMA OtherGateSees ==
  ASSUME NEW c \in Names, NEW d \in OtherRivals(c), Exists(seen[d])
  PROVE  ~OtherGateOpen(c)
<1>1. d \in Names /\ Rivals(c, d) /\ KindOf(d) # KindOf(c)
  BY DEF OtherRivals
<1>2. d \in OtherListed(c)
  BY <1>1, NamesAssumption DEF OtherListed, List, NamesOf, KindOf, Rivals, Names
<1> QED BY <1>2 DEF OtherGateOpen

(* A gate that opens keeps out what it looks for.                          *)
LEMMA GatePassed ==
  ASSUME TypeOK, TypeOK', Next, PassesAreListed, OldAreListed, GatesHold,
         NEW kind \in Kinds, PassGate(kind), at'[kind] = Second(at[kind], kind),
         UNCHANGED <<crs, seen, synced, old, changes, name, inst, blind>>,
         IF at[kind] = "own" THEN OwnGateOpen(name[kind]) ELSE OtherGateOpen(name[kind]),
         \A k \in Kinds \ {kind} : at'[k] = at[k]
  PROVE  GatesHold'
<1> USE NameFacts
<1> DEFINE c == name[kind]
<1>1. /\ at[kind] \in {"own", "other"} /\ synced = Kinds
      /\ c \in Names /\ KindOf(c) = kind
      /\ Alive(kind) => Exists(seen[c])
  BY DEF PassGate, PassesAreListed, TypeOK
<1>2. \A d \in old : d \in Names /\ Exists(seen[d])
  BY <1>1 DEF OldAreListed, TypeOK
<1>3. at[kind] = "own" /\ Alive(kind) => old \cap OwnRivals(c) = {}
  BY <1>1, <1>2, OwnGateSees
<1>4. at[kind] = "other" => old \cap OtherRivals(c) = {}
  BY <1>1, <1>2, OtherGateSees
<1>5. ASSUME NEW k \in Kinds
      PROVE  Alive(k)' = Alive(k)
  BY DEF Alive
<1>6. ASSUME NEW gate \in {"own", "other"}, Passed(kind, gate)'
      PROVE  Passed(kind, gate) \/ gate = at[kind]
  BY <1>1, <1>6 DEF Passed, First, Second, Kinds
<1>7. ASSUME NEW k \in Kinds, k # kind, NEW gate \in {"own", "other"}
      PROVE  Passed(k, gate)' = Passed(k, gate)
  BY <1>7 DEF Passed
<1>8. ASSUME ~blind, NEW k \in Kinds
      PROVE  /\ Passed(k, "own")' /\ Alive(k)' => old' \cap OwnRivals(name'[k]) = {}
             /\ Passed(k, "other")' /\ Alive(k)' => old' \cap OtherRivals(name'[k]) = {}
  <2>1. CASE k = kind
    BY <1>3, <1>4, <1>5, <1>6, <1>8, <2>1 DEF GatesHold
  <2>2. CASE k # kind
    BY <1>5, <1>7, <1>8, <2>2 DEF GatesHold
  <2> QED BY <2>1, <2>2
<1>9. ASSUME ~blind, Passed("AL", "other")', Passed("CA", "other")', name'["CA"] \in CSNamespaced
      PROVE  \E k \in Kinds : ~Alive(k)'
  <2>0. "AL" \in Kinds /\ "CA" \in Kinds
    BY DEF Kinds
  <2>1. CASE Passed("AL", "other") /\ Passed("CA", "other")
    BY <1>5, <1>9, <2>0, <2>1 DEF GatesHold
  <2>2. CASE ~(Passed("AL", "other") /\ Passed("CA", "other"))
    <3>1. at[kind] = "other"
      BY <1>6, <1>7, <1>9, <2>0, <2>2
    <3>2. PICK k \in Kinds : k # kind /\ Passed(k, "other")
      BY <1>7, <1>9, <2>0
    <3>3. at[k] # "idle"
      BY <3>2 DEF Passed
    <3>4. name[k] \in OtherRivals(c)
      <4>1. at["AL"] # "idle" /\ at["CA"] # "idle"
        BY <1>1, <3>2, <3>3 DEF Kinds
      <4>2. name["AL"] \in AuditLoggings /\ name["CA"] \in CommonAudits
        BY <2>0, <4>1 DEF TypeOK, NamesOf
      <4> QED BY <1>9, <3>2, <4>2, NamesAssumption DEF OtherRivals, Rivals, KindOf, Kinds, Names
    <3>5. ~Exists(seen[name[k]])
      BY <1>1, <3>1, <3>4, OtherGateSees
    <3>6. ~Alive(k)
      BY <3>2, <3>3, <3>5 DEF PassesAreListed
    <3> QED BY <1>5, <3>6
  <2> QED BY <2>1, <2>2
<1> QED BY <1>8, <1>9 DEF GatesHold

(* Every step keeps what the gates that a pass has behind it have promised.*)
LEMMA GatesStep ==
  ASSUME TypeOK, TypeOK', Next, PassesAreListed, OldAreListed, GatesHold PROVE GatesHold'
<1> USE NameFacts
<1>1. ASSUME NEW kind \in Kinds, Worker(kind) \/ ListFails(kind) \/ PassFails(kind)
      PROVE  GatesHold'
  <2>1. old' = old
    BY <1>1, WorkerCases
  <2>2. \A k \in Kinds \ {kind} : /\ at'[k] = at[k] /\ name'[k] = name[k]
                                  /\ inst'[k] = inst[k]
    BY <1>1, WorkerCases
  <2>3. CASE at'[kind] \in {"idle", First(kind)} /\ blind' = blind
    BY <2>1, <2>2, <2>3, GatesFrame
  <2>4. CASE /\ PassGate(kind) /\ at'[kind] = Second(at[kind], kind)
             /\ UNCHANGED <<crs, name, inst, blind>>
             /\ IF at[kind] = "own" THEN OwnGateOpen(name[kind]) ELSE OtherGateOpen(name[kind])
    <3>1. UNCHANGED <<seen, synced, old, changes>>
      BY <1>1, WorkerCases
    <3> QED BY <2>2, <2>4, <3>1, GatePassed
  <2>5. CASE blind' = TRUE
    BY <2>5 DEF GatesHold
  <2> QED BY <1>1, <2>3, <2>4, <2>5, WorkerCases
<1>2. ASSUME NEW c \in Names, StartPass(c) PROVE GatesHold'
  <2>1. CASE UNCHANGED worker
    BY <1>2, <2>1, GatesFrame DEF StartPass, worker, history
  <2>2. CASE ~UNCHANGED worker
    <3> DEFINE kind == KindOf(c)
    <3>1. /\ at'[kind] \in {"status", First(kind)}
          /\ \A k \in Kinds \ {kind} : /\ at'[k] = at[k] /\ name'[k] = name[k]
                                       /\ inst'[k] = inst[k]
          /\ UNCHANGED <<old, blind>>
      BY <1>2, <2>2 DEF StartPass, GoTo, history, TypeOK
    <3> QED BY <3>1, GatesFrame
  <2> QED BY <2>1, <2>2
<1>3. CASE Crash
  <2>1. \A kind \in Kinds : at'[kind] = "idle"
    BY <1>3 DEF Crash
  <2>2. \A kind \in Kinds, gate \in {"own", "other"} : ~Passed(kind, gate)'
    BY <2>1 DEF Passed
  <2> QED BY <2>2 DEF GatesHold, Kinds
<1>4. ASSUME NEW c \in Names, User(c) PROVE GatesHold'
  <2>1. old' \subseteq old /\ UNCHANGED <<at, name, inst, blind>>
    BY <1>4, UserFacts DEF User, worker
  <2> QED BY <2>1, GatesFrame
<1>5. CASE \/ \E kind \in Kinds : ListSync(kind) \/ Resync(kind)
           \/ \E c \in Names : Sync(c)
           \/ \E p \in Places : CollectGarbage(p)
  <2>1. UNCHANGED <<at, name, inst, old, blind>>
    BY <1>5 DEF ListSync, Resync, Sync, CollectGarbage, worker, history
  <2> QED BY <2>1, GatesFrame
<1> QED BY <1>1, <1>2, <1>3, <1>4, <1>5 DEF Next

(* The invariant holds before any cache has been filled.                   *)
LEMMA InvInit == Init => InductiveInvariant
<1> SUFFICES ASSUME Init PROVE InductiveInvariant
  OBVIOUS
<1>1. TypeOK
  BY TypeInit
<1>2. PassesAreListed
  BY DEF Init, PassesAreListed, Gone
<1>3. OldAreListed
  BY DEF Init, OldAreListed
<1>4. GatesHold
  BY DEF Init, GatesHold, Passed, Kinds
<1> QED BY <1>1, <1>2, <1>3, <1>4 DEF InductiveInvariant

(* Every step keeps the invariant.                                         *)
LEMMA InvStep == ASSUME InductiveInvariant, [Next]_vars PROVE InductiveInvariant'
<1> USE DEF InductiveInvariant
<1>1. TypeOK'
  BY TypeStep
<1>2. CASE Next
  BY <1>1, <1>2, ListedStep, OldStep, GatesStep
<1>3. CASE UNCHANGED vars
  <2>1. UNCHANGED <<crs, seen, synced, at, name, inst, old, blind, changes>>
    BY <1>3 DEF vars, worker, history
  <2>2. PassesAreListed'
    BY <2>1 DEF PassesAreListed, Alive
  <2>3. OldAreListed'
    BY <2>1 DEF OldAreListed
  <2>4. GatesHold'
    BY <2>1 DEF GatesHold, Passed, Alive
  <2> QED BY <1>1, <2>2, <2>3, <2>4
<1> QED BY <1>2, <1>3

(* What a pass found in its cache when it began stays there as long as the *)
(* resource lives, and its gates have met no live rival.                   *)
THEOREM InvariantHolds == Spec => []InductiveInvariant
<1>1. Init => InductiveInvariant
  BY InvInit
<1>2. InductiveInvariant /\ [Next]_vars => InductiveInvariant'
  BY InvStep
<1> QED BY <1>1, <1>2, PTL DEF Spec

(* "CommonAudit cannot run alongside AuditLogging in the same namespace":  *)
(* whichever of the two passes its gate last finds the other's resource in *)
(* the cache from which the other's pass has begun.                        *)
THEOREM AlongsideNever == Spec => []NeverAlongside
<1>1. InductiveInvariant => NeverAlongside
  <2>1. \A kind \in Kinds : at[kind] = "admitted" => Passed(kind, "other")
    BY DEF Passed
  <2> QED BY <2>1 DEF InductiveInvariant, GatesHold, NeverAlongside, Kinds
<1> QED BY <1>1, InvariantHolds, PTL

(* A restart opens no gate: the workers wait for both caches, and what is  *)
(* as old as the process is in the first list of its informer.             *)
THEOREM RestartGuarded == Spec => []RestartOpensNoGate
<1>1. InductiveInvariant => RestartOpensNoGate
  <2> SUFFICES ASSUME InductiveInvariant, NEW kind \in Kinds, ~blind, at[kind] = "admitted",
                      Alive(kind), NEW d \in old, Rivals(name[kind], d)
               PROVE  FALSE
    BY DEF RestartOpensNoGate
  <2>1. d \in OwnRivals(name[kind]) \cup OtherRivals(name[kind])
    BY DEF InductiveInvariant, TypeOK, OwnRivals, OtherRivals
  <2>2. Passed(kind, "own") /\ Passed(kind, "other")
    BY DEF Passed
  <2> QED BY <2>1, <2>2 DEF InductiveInvariant, GatesHold
<1> QED BY <1>1, InvariantHolds, PTL
==============================================================================

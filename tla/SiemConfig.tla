----------------------------- MODULE SiemConfig -----------------------------
(***************************************************************************)
(* The ConfigMap of one output plugin (splunk or syslog): how reconcile-   *)
(* Config builds it from the block of the CR's spec, compares it field by  *)
(* field, and rewrites, deletes and creates it until it agrees.            *)
(*                                                                         *)
(* A field is looked for by a pattern, its name, a space and the rest of   *)
(* the line, which may match anywhere in a file and more than once: in a   *)
(* comment too.  A line is therefore a sequence of marks, the places where *)
(* a field's pattern matches if nothing before it in the line is taken;    *)
(* lines that no pattern matches are never touched and left out.           *)
(*                                                                         *)
(* This is the comparison module CommonAudit abstracts to Matches.  A pass *)
(* is one step here; the races between its read and its write are there.   *)
(* The other direction, of a user editing the file between two passes, is  *)
(* here.                                                                   *)
(***************************************************************************)
EXTENDS Naturals, Sequences

CONSTANTS
  Texts,       \* what a value starts with: its first word
  Blocks,      \* the blocks users put into the CR
  Lines,       \* the lines users write
  MaxUserActs  \* bound on the actions of users

(* The fields of a file in the order EqualSIEMConfig looks at them: Host,  *)
(* Port, Token or Hostname, and Protocol or TLS.                           *)
Host == 1
Port == 2
Ident == 3
Mode == 4
Fields == Host..Mode

(* A value is its first word, whether more words follow, and whether it    *)
(* holds a "$", which the expansion of a replacement string does not keep. *)
Values    == [text : Texts, spaced : BOOLEAN, dollar : BOOLEAN]
Plain(t)  == [text |-> t, spaced |-> FALSE, dollar |-> FALSE]
Empty     == Plain("")
Zero      == Plain("0")
Off       == Plain("off")
Placeholder == Plain("placeholder")
IsPlain(v)  == ~v.spaced /\ ~v.dollar

Marks    == [field : Fields, val : Values]
Mark(f, v) == [field |-> f, val |-> v]
AllLines == Seq(Marks)

(* A block of the spec: enableSIEM and the values of the fields.           *)
BlockType == [enable : BOOLEAN, val : [Fields -> Values]]
Omitted   == [enable |-> FALSE,
              val |-> [f \in Fields |-> CASE f = Port -> Zero [] f = Mode -> Off [] OTHER -> Empty]]

ASSUME TextsAssumption == {"", "0", "off", "placeholder", "expanded"} \subseteq Texts
ASSUME BlocksAssumption == Blocks \subseteq BlockType /\ Blocks # {}
ASSUME LinesAssumption  == Lines \subseteq AllLines
ASSUME BoundsAssumption == MaxUserActs \in Nat

VARIABLES
  block,     \* the block in the CR
  exists,    \* the ConfigMap is there
  file,      \* its lines
  writes,    \* writes of the operator since a user last acted
  userActs   \* what is left of MaxUserActs

vars == <<block, exists, file, writes, userActs>>

(* More writes than this are not told apart.                               *)
WritesCap == 9

TypeOK ==
  /\ block \in Blocks
  /\ exists \in BOOLEAN /\ file \in Seq(AllLines) /\ (~exists => file = <<>>)
  /\ writes \in 0..WritesCap
  /\ userActs \in 0..MaxUserActs

Init ==
  /\ block \in Blocks
  /\ exists = FALSE /\ file = <<>>
  /\ writes = 0
  /\ userActs = MaxUserActs

-----------------------------------------------------------------------------
(* Building and comparing.                                                 *)

(* The block's values are used when Host, Port and Token are all there.    *)
Complete(b) == b.val[Host] # Empty /\ b.val[Port] # Zero /\ b.val[Ident] # Empty

Build(b) ==
  [f \in Fields |->
     <<Mark(f, IF f = Mode \/ Complete(b) THEN b.val[f] ELSE Placeholder)>>]

(* Where a field's pattern matches first in a line, and in a file.         *)
First(S)     == CHOOSE i \in S : \A j \in S : i <= j
In(l, f)     == {i \in DOMAIN l : l[i].field = f}
With(ls, f)  == {n \in DOMAIN ls : In(ls[n], f) # {}}
Found(ls, f) == LET l == ls[First(With(ls, f))] IN l[First(In(l, f))].val

(* Only the first word of a match is compared, with the whole value.       *)
FirstWord(v)    == [v EXCEPT !.spaced = FALSE]
Missing(ls, f)  == With(ls, f) = {}
Right(b, ls, f) == ~Missing(ls, f) /\ FirstWord(Found(ls, f)) = b.val[f]

(* The comparison stops at the first field that is not right.              *)
FirstWrong(b, ls) ==
  {f \in Fields : ~Right(b, ls, f) /\ \A g \in Fields : g < f => Right(b, ls, g)}

EqualSIEMConfig(b, ls) == b = Omitted \/ \A f \in Fields : Right(b, ls, f)
MissingField(b, ls)    == \E f \in FirstWrong(b, ls) : Missing(ls, f)

(* In every line a field matches, all from its first match on is replaced; *)
(* "$" and what follows it in the value is expanded.                       *)
Expand(v) == IF v.dollar THEN [v EXCEPT !.text = "expanded", !.dollar = FALSE] ELSE v
Replaced(l, f, v) ==
  IF In(l, f) = {} THEN l ELSE Append(SubSeq(l, 1, First(In(l, f)) - 1), Mark(f, Expand(v)))

(* The four fields are replaced one after the other.                       *)
HostAndPort(b, l) == Replaced(Replaced(l, Host, b.val[Host]), Port, b.val[Port])
UpdateFirstOnly(b, ls) ==  \* mutant: no field after the port is replaced
  [n \in DOMAIN ls |-> HostAndPort(b, ls[n])]
UpdateSIEMConfig(b, ls) ==
  [n \in DOMAIN ls |->
     Replaced(Replaced(HostAndPort(b, ls[n]), Ident, b.val[Ident]), Mode, b.val[Mode])]

-----------------------------------------------------------------------------
(* reconcileConfig for this ConfigMap; every branch requeues.              *)

Written == writes' = IF writes < WritesCap THEN writes + 1 ELSE writes

Create ==
  /\ ~exists
  /\ exists' = TRUE /\ file' = Build(block)
  /\ Written /\ UNCHANGED <<block, userActs>>

LeftBehind == file  \* mutant: the contents outlive the object
Deleted    == <<>>

Delete ==
  /\ exists /\ ~EqualSIEMConfig(block, file) /\ MissingField(block, file)
  /\ exists' = FALSE /\ file' = Deleted
  /\ Written /\ UNCHANGED <<block, userActs>>

Update ==
  /\ exists /\ ~EqualSIEMConfig(block, file) /\ ~MissingField(block, file)
  /\ file' = UpdateSIEMConfig(block, file)
  /\ Written /\ UNCHANGED <<block, exists, userActs>>

reconcileConfig == Create \/ Delete \/ Update

-----------------------------------------------------------------------------
(* Users.                                                                  *)

UserAct ==
  /\ userActs > 0
  /\ userActs' = userActs - 1
  /\ writes' = 0

UserEditsBlock ==
  /\ UserAct
  /\ block' \in Blocks \ {block}
  /\ UNCHANGED <<exists, file>>

(* A line is inserted, changed or removed.                                 *)
UserEditsFile ==
  /\ UserAct /\ exists
  /\ \E m \in 1..(Len(file) + 1), new \in {<<>>} \cup {<<l>> : l \in Lines} :
       \E n \in {m - 1, m} \cap 0..Len(file) :
         file' = SubSeq(file, 1, m - 1) \o new \o SubSeq(file, n + 1, Len(file))
  /\ UNCHANGED <<block, exists>>

UserDeletesFile ==
  /\ UserAct /\ exists
  /\ exists' = FALSE /\ file' = <<>>
  /\ UNCHANGED block

User == UserEditsBlock \/ UserEditsFile \/ UserDeletesFile

Next == reconcileConfig \/ User

Spec == Init /\ [][Next]_vars

-----------------------------------------------------------------------------
(* Correctness.                                                            *)

(* Every update of this ConfigMap restarts the fluentd pods, and every one *)
(* is followed by a requeue: the file must settle.  Whatever users made of *)
(* it, four writes are enough: what is there is corrected, what is missing *)
(* shows, so the file is deleted, created with the placeholders of an      *)
(* incomplete block, and corrected.                                        *)
SettlesInFourWrites == writes <= 4

-----------------------------------------------------------------------------
(* Why four writes are enough: the writes a file still needs.              *)

AfterCreate == IF EqualSIEMConfig(block, Build(block)) THEN 0 ELSE 1

WritesLeft ==
  IF ~exists THEN 1 + AfterCreate
  ELSE IF EqualSIEMConfig(block, file) THEN 0
  ELSE IF MissingField(block, file) THEN 2 + AfterCreate
  ELSE IF EqualSIEMConfig(block, UpdateSIEMConfig(block, file)) THEN 1
  ELSE 3 + AfterCreate

(* Every write brings the file one write nearer to the CR's block.         *)
WritesInvariant == writes + WritesLeft <= 4
=============================================================================

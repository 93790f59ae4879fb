-------------------------- MODULE SiemConfigProofs --------------------------
(***************************************************************************)
(* An output's ConfigMap settles in four writes, for every set of blocks   *)
(* whose values are single words without a "$", and every set of lines.    *)
(***************************************************************************)
EXTENDS SiemConfig, Integers, SequenceTheorems, WellFoundedInduction, TLAPS

(* The values that the comparison of EqualSIEMConfig and the replacement   *)
(* of UpdateSIEMConfig take as they are; the run siem_dollar shows why.    *)
PlainBlocksOnly == \A b \in Blocks, f \in Fields : IsPlain(b.val[f])

Invariant == TypeOK /\ WritesInvariant

(* Every match of field f in line l has the value v.                       *)
AllAre(l, f, v) == \A i \in DOMAIN l : l[i].field = f => l[i].val = v

-----------------------------------------------------------------------------
(* Values, marks and lines.                                                *)

(* The values the code writes by itself are values.                        *)
LEMMA ValueFacts ==
  Empty \in Values /\ Zero \in Values /\ Off \in Values /\ Placeholder \in Values
BY TextsAssumption DEF Empty, Zero, Off, Placeholder, Plain, Values

(* A block of the CR has a value for every field.                          *)
LEMMA BlockValues ==
  ASSUME NEW b \in Blocks, NEW f \in Fields PROVE b.val[f] \in Values
BY BlocksAssumption DEF BlockType

(* A plain value is its own first word and survives the expansion.         *)
LEMMA PlainFacts ==
  ASSUME PlainBlocksOnly, NEW b \in Blocks, NEW f \in Fields
  PROVE  FirstWord(b.val[f]) = b.val[f] /\ Expand(b.val[f]) = b.val[f]
<1>1. b.val[f] \in Values /\ ~b.val[f].spaced /\ ~b.val[f].dollar
  BY BlockValues DEF PlainBlocksOnly, IsPlain
<1> QED BY <1>1 DEF FirstWord, Expand, Values

(* The expansion of a value is a value.                                    *)
LEMMA ExpandType == ASSUME NEW v \in Values PROVE Expand(v) \in Values
BY TextsAssumption DEF Expand, Values

(* The fields are four.                                                    *)
LEMMA FieldFacts ==
  /\ Fields = 1..4 /\ Host \in Fields /\ Port \in Fields /\ Ident \in Fields /\ Mode \in Fields
  /\ \A f \in Fields : f = Host \/ f = Port \/ f = Ident \/ f = Mode
  /\ Host # Port /\ Host # Ident /\ Host # Mode /\ Port # Ident /\ Port # Mode /\ Ident # Mode
BY DEF Fields, Host, Port, Ident, Mode

(* A set of natural numbers that is not empty has a first one.             *)
LEMMA FirstFacts ==
  ASSUME NEW S \in SUBSET Nat, S # {}
  PROVE  First(S) \in S /\ \A j \in S : First(S) <= j
<1>1. PICK n \in S : \A m \in S : <<m, n>> \notin OpToRel(<, Nat)
  BY NatLessThanWellFounded, WFMin
<1>2. \A m \in S : ~(m < n)
  BY <1>1 DEF OpToRel
<1>3. \A m \in S : n <= m
  BY <1>2
<1> QED BY <1>3 DEF First

(* A line's marks, and where a field is in it.                             *)
LEMMA LineFacts ==
  ASSUME NEW l \in AllLines, NEW f
  PROVE  /\ Len(l) \in Nat /\ DOMAIN l = 1..Len(l) /\ \A i \in 1..Len(l) : l[i] \in Marks
         /\ In(l, f) \in SUBSET Nat
         /\ In(l, f) # {} => First(In(l, f)) \in In(l, f) /\ \A j \in In(l, f) : First(In(l, f)) <= j
<1>1. Len(l) \in Nat /\ DOMAIN l = 1..Len(l) /\ \A i \in 1..Len(l) : l[i] \in Marks
  BY DEF AllLines
<1>2. In(l, f) \in SUBSET Nat
  BY <1>1 DEF In
<1> QED BY <1>1, <1>2, FirstFacts

-----------------------------------------------------------------------------
(* Replacing a field in a line.                                            *)

(* What is left of a line was in it before, and what matches is the value. *)
LEMMA ReplacedFacts ==
  ASSUME NEW l \in AllLines, NEW f \in Fields, NEW v \in Values
  PROVE  /\ Replaced(l, f, v) \in AllLines
         /\ AllAre(Replaced(l, f, v), f, Expand(v))
         /\ \A g, w : g # f /\ AllAre(l, g, w) => AllAre(Replaced(l, f, v), g, w)
<1>0. Len(l) \in Nat /\ DOMAIN l = 1..Len(l)
  BY LineFacts
<1>1. CASE In(l, f) = {}
  <2>1. Replaced(l, f, v) = l
    BY <1>1 DEF Replaced
  <2>2. AllAre(l, f, Expand(v))
    BY <1>1 DEF In, AllAre
  <2> QED BY <2>1, <2>2
<1>2. CASE In(l, f) # {}
  <2> DEFINE k == First(In(l, f))
             a == SubSeq(l, 1, k - 1)
             m == Mark(f, Expand(v))
  <2>1. k \in 1..Len(l) /\ \A j \in 1..(k - 1) : l[j].field # f
    <3>1. k \in In(l, f) /\ \A j \in In(l, f) : k <= j
      BY <1>2, LineFacts
    <3>2. k \in 1..Len(l)
      BY <1>0, <3>1 DEF In
    <3> HIDE DEF k
    <3>3. \A j \in 1..(k - 1) : j \in 1..Len(l) /\ ~(k <= j)
      BY <1>0, <3>2
    <3>4. \A j \in 1..(k - 1) : l[j].field # f
      BY <1>0, <3>1, <3>3 DEF In
    <3> QED BY <3>2, <3>4
  <2>2. m \in Marks /\ m.field = f /\ m.val = Expand(v)
    BY ExpandType DEF Mark, Marks
  <2> HIDE DEF k, m
  <2>3. a \in Seq(Marks) /\ Len(a) = k - 1 /\ \A i \in 1..(k - 1) : a[i] = l[i]
    <3>1. 1 \in 1..(Len(l) + 1) /\ k - 1 \in 0..Len(l)
      BY <1>0, <2>1
    <3>2. /\ a \in Seq(Marks) /\ Len(a) = IF 1 <= k - 1 THEN k - 1 - 1 + 1 ELSE 0
          /\ \A i \in 1..Len(a) : a[i] = l[1 + i - 1]
      BY <3>1, SubSeqProperties DEF AllLines
    <3> HIDE DEF a
    <3>3. Len(a) = k - 1
      BY <1>0, <2>1, <3>2
    <3>4. \A i \in 1..(k - 1) : 1 + i - 1 = i
      BY <2>1
    <3> QED BY <3>2, <3>3, <3>4
  <2> HIDE DEF a
  <2>4. Replaced(l, f, v) = Append(a, m)
    BY <1>2 DEF Replaced, a, m, k
  <2> DEFINE r == Append(a, m)
  <2>5. /\ r \in Seq(Marks) /\ Len(r) = k
        /\ \A i \in 1..(k - 1) : r[i] = l[i] /\ i \in DOMAIN l
        /\ r[k] = m
    <3>1. /\ r \in Seq(Marks) /\ Len(r) = Len(a) + 1
          /\ \A i \in 1..Len(a) : r[i] = a[i]
          /\ r[Len(a) + 1] = m
      BY <2>2, <2>3, AppendProperties
    <3>2. Len(a) + 1 = k /\ \A i \in 1..(k - 1) : i \in DOMAIN l
      BY <1>0, <2>1, <2>3
    <3> QED BY <2>3, <3>1, <3>2
  <2> HIDE DEF r
  <2>6. \A i \in DOMAIN r : i = k \/ i \in 1..(k - 1)
    BY <1>0, <2>1, <2>5
  <2>7. AllAre(r, f, Expand(v))
    BY <2>1, <2>2, <2>5, <2>6 DEF AllAre
  <2>8. ASSUME NEW g, NEW w, g # f, AllAre(l, g, w)
        PROVE  AllAre(r, g, w)
    BY <2>2, <2>5, <2>6, <2>8 DEF AllAre
  <2> QED BY <2>4, <2>5, <2>7, <2>8 DEF r, AllLines
<1> QED BY <1>1, <1>2

(* A line of one mark keeps its field.                                     *)
LEMMA ReplacedOne ==
  ASSUME NEW l \in AllLines, NEW f \in Fields, NEW v \in Values, NEW g,
         Len(l) = 1, l[1].field = g
  PROVE  Len(Replaced(l, f, v)) = 1 /\ Replaced(l, f, v)[1].field = g
<1>1. DOMAIN l = {1}
  BY LineFacts
<1>2. CASE f # g
  <2>1. In(l, f) = {}
    BY <1>1, <1>2 DEF In
  <2> QED BY <2>1 DEF Replaced
<1>3. CASE f = g
  <2>1. In(l, f) = {1}
    BY <1>1, <1>3 DEF In
  <2>2. First(In(l, f)) = 1
    BY <2>1, LineFacts
  <2>3. SubSeq(l, 1, 1 - 1) = <<>>
    BY DEF AllLines
  <2>4. Replaced(l, f, v) = <<Mark(f, Expand(v))>>
    <3> DEFINE m == Mark(f, Expand(v))
    <3>1. Replaced(l, f, v) = Append(<<>>, m)
      BY <2>1, <2>2, <2>3 DEF Replaced
    <3> HIDE DEF m
    <3>2. Append(<<>>, m) = <<m>>
      OBVIOUS
    <3> QED BY <3>1, <3>2 DEF m
  <2> QED BY <1>3, <2>4 DEF Mark
<1> QED BY <1>2, <1>3

-----------------------------------------------------------------------------
(* Updating a file.                                                        *)

(* Line n of an updated file: four replacements, one after the other.      *)
LEMMA UpdatedLine ==
  ASSUME NEW b \in Blocks, NEW ls \in Seq(AllLines), NEW n \in DOMAIN ls
  PROVE  /\ UpdateSIEMConfig(b, ls)[n] \in AllLines
         /\ \A f \in Fields : AllAre(UpdateSIEMConfig(b, ls)[n], f, Expand(b.val[f]))
         /\ \A g : Len(ls[n]) = 1 /\ ls[n][1].field = g
                     => /\ Len(UpdateSIEMConfig(b, ls)[n]) = 1
                        /\ UpdateSIEMConfig(b, ls)[n][1].field = g
<1> DEFINE r1 == Replaced(ls[n], Host, b.val[Host])
           r2 == Replaced(r1, Port, b.val[Port])
           r3 == Replaced(r2, Ident, b.val[Ident])
           r4 == Replaced(r3, Mode, b.val[Mode])
<1>0. ls[n] \in AllLines /\ \A f \in Fields : b.val[f] \in Values
  BY BlockValues
<1>1. UpdateSIEMConfig(b, ls)[n] = r4
  BY DEF UpdateSIEMConfig, HostAndPort
<1>2. r1 \in AllLines /\ AllAre(r1, Host, Expand(b.val[Host]))
  BY <1>0, ReplacedFacts, FieldFacts
<1>3. ASSUME NEW g, Len(ls[n]) = 1, ls[n][1].field = g
      PROVE  Len(r1) = 1 /\ r1[1].field = g
  BY <1>0, <1>3, ReplacedOne, FieldFacts
<1> HIDE DEF r1
<1>4. r2 \in AllLines /\ AllAre(r2, Host, Expand(b.val[Host])) /\ AllAre(r2, Port, Expand(b.val[Port]))
  BY <1>0, <1>2, ReplacedFacts, FieldFacts
<1>5. ASSUME NEW g, Len(r1) = 1, r1[1].field = g
      PROVE  Len(r2) = 1 /\ r2[1].field = g
  BY <1>0, <1>2, <1>5, ReplacedOne, FieldFacts
<1> HIDE DEF r2
<1>6. /\ r3 \in AllLines /\ AllAre(r3, Host, Expand(b.val[Host]))
      /\ AllAre(r3, Port, Expand(b.val[Port])) /\ AllAre(r3, Ident, Expand(b.val[Ident]))
  BY <1>0, <1>4, ReplacedFacts, FieldFacts
<1>7. ASSUME NEW g, Len(r2) = 1, r2[1].field = g
      PROVE  Len(r3) = 1 /\ r3[1].field = g
  BY <1>0, <1>4, <1>7, ReplacedOne, FieldFacts
<1> HIDE DEF r3
<1>8. /\ r4 \in AllLines /\ AllAre(r4, Host, Expand(b.val[Host]))
      /\ AllAre(r4, Port, Expand(b.val[Port])) /\ AllAre(r4, Ident, Expand(b.val[Ident]))
      /\ AllAre(r4, Mode, Expand(b.val[Mode]))
  BY <1>0, <1>6, ReplacedFacts, FieldFacts
<1>9. ASSUME NEW g, Len(r3) = 1, r3[1].field = g
      PROVE  Len(r4) = 1 /\ r4[1].field = g
  BY <1>0, <1>6, <1>9, ReplacedOne, FieldFacts
<1> HIDE DEF r4
<1>10. \A f \in Fields : AllAre(r4, f, Expand(b.val[f]))
  BY <1>8, FieldFacts
<1> QED BY <1>1, <1>3, <1>5, <1>7, <1>8, <1>9, <1>10

(* An updated file is a file.                                              *)
LEMMA UpdatedType ==
  ASSUME NEW b \in Blocks, NEW ls \in Seq(AllLines)
  PROVE  UpdateSIEMConfig(b, ls) \in Seq(AllLines) /\ DOMAIN UpdateSIEMConfig(b, ls) = DOMAIN ls
<1>1. DOMAIN ls = 1..Len(ls) /\ Len(ls) \in Nat
  OBVIOUS
<1>2. DOMAIN UpdateSIEMConfig(b, ls) = DOMAIN ls
  BY DEF UpdateSIEMConfig
<1>3. UpdateSIEMConfig(b, ls) = [n \in 1..Len(ls) |-> UpdateSIEMConfig(b, ls)[n]]
  BY <1>1 DEF UpdateSIEMConfig
<1>4. \A n \in 1..Len(ls) : UpdateSIEMConfig(b, ls)[n] \in AllLines
  BY <1>1, UpdatedLine
<1> QED BY <1>1, <1>2, <1>3, <1>4

(* In an updated file what is not missing is right.                        *)
LEMMA UpdatedIsRight ==
  ASSUME PlainBlocksOnly, NEW b \in Blocks, NEW ls \in Seq(AllLines), NEW f \in Fields
  PROVE  Right(b, UpdateSIEMConfig(b, ls), f) <=> ~Missing(UpdateSIEMConfig(b, ls), f)
<1> DEFINE us == UpdateSIEMConfig(b, ls)
<1>1. /\ us \in Seq(AllLines) /\ DOMAIN us = DOMAIN ls
      /\ \A n \in DOMAIN us : us[n] \in AllLines /\ AllAre(us[n], f, b.val[f])
  BY UpdatedType, UpdatedLine, PlainFacts
<1> HIDE DEF us
<1> SUFFICES ASSUME ~Missing(us, f) PROVE FirstWord(Found(us, f)) = b.val[f]
  BY DEF Right, us
<1> DEFINE n == First(With(us, f))
           i == First(In(us[n], f))
<1>2. n \in With(us, f)
  <2>1. DOMAIN us \in SUBSET Nat
    BY <1>1
  <2>2. With(us, f) \in SUBSET Nat /\ With(us, f) # {}
    BY <2>1 DEF With, Missing
  <2> QED BY <2>2, FirstFacts
<1> HIDE DEF n
<1>3. us[n] \in AllLines /\ AllAre(us[n], f, b.val[f]) /\ In(us[n], f) # {}
  BY <1>1, <1>2 DEF With
<1>4. i \in In(us[n], f)
  BY <1>3, LineFacts
<1> HIDE DEF i
<1>5. us[n][i].val = b.val[f]
  BY <1>3, <1>4 DEF In, AllAre
<1>6. Found(us, f) = us[n][i].val
  BY DEF Found, n, i
<1> QED BY <1>5, <1>6, PlainFacts

(* So an updated file is right, or what is found wrong is missing.         *)
LEMMA UpdatedIsEqual ==
  ASSUME PlainBlocksOnly, NEW b \in Blocks, NEW ls \in Seq(AllLines),
         ~EqualSIEMConfig(b, UpdateSIEMConfig(b, ls))
  PROVE  MissingField(b, UpdateSIEMConfig(b, ls))
<1> DEFINE us == UpdateSIEMConfig(b, ls)
           S == {f \in Fields : Missing(us, f)}
<1>1. \A f \in Fields : Right(b, us, f) <=> ~Missing(us, f)
  BY UpdatedIsRight
<1>2. S # {}
  BY <1>1 DEF EqualSIEMConfig
<1> HIDE DEF us
<1>3. First(S) \in S /\ \A j \in S : First(S) <= j
  <2>1. S \in SUBSET Nat
    BY FieldFacts
  <2> QED BY <1>2, <2>1, FirstFacts
<1> DEFINE k == First(S)
<1>4. k \in Fields /\ Missing(us, k) /\ \A g \in Fields : g < k => ~Missing(us, g)
  <2>1. k \in S
    BY <1>3
  <2>2. \A g \in Fields : g < k => ~(k <= g)
    BY <2>1, FieldFacts
  <2> QED BY <1>3, <2>1, <2>2
<1> HIDE DEF k
<1>5. k \in FirstWrong(b, us)
  BY <1>1, <1>4 DEF FirstWrong
<1> QED BY <1>4, <1>5 DEF MissingField, us

(* A file that is built has a line for every field, and one update makes   *)
(* it right.                                                               *)
LEMMA BuildFacts ==
  ASSUME NEW b \in Blocks
  PROVE  /\ Build(b) \in Seq(AllLines)
         /\ ~MissingField(b, Build(b))
         /\ PlainBlocksOnly => EqualSIEMConfig(b, UpdateSIEMConfig(b, Build(b)))
<1> DEFINE ls == Build(b)
           us == UpdateSIEMConfig(b, ls)
<1>1. ASSUME NEW f \in Fields
      PROVE  ls[f] \in AllLines /\ Len(ls[f]) = 1 /\ ls[f][1].field = f
  <2> DEFINE v == IF f = Mode \/ Complete(b) THEN b.val[f] ELSE Placeholder
  <2>1. v \in Values
    BY BlockValues, ValueFacts
  <2> HIDE DEF v
  <2>2. Mark(f, v) \in Marks /\ Mark(f, v).field = f
    BY <2>1 DEF Mark, Marks
  <2>3. ls[f] = <<Mark(f, v)>>
    BY DEF Build, v
  <2> QED BY <2>2, <2>3 DEF AllLines
<1>2. ls \in Seq(AllLines) /\ DOMAIN ls = Fields
  <2>1. ls = [f \in 1..4 |-> ls[f]]
    BY FieldFacts DEF Build
  <2>2. \A f \in 1..4 : ls[f] \in AllLines
    BY <1>1, FieldFacts
  <2> HIDE DEF ls
  <2> QED BY <2>1, <2>2, FieldFacts
<1>3. ASSUME NEW xs, DOMAIN xs = Fields, NEW f \in Fields, xs[f] \in AllLines,
             Len(xs[f]) = 1, xs[f][1].field = f
      PROVE  ~Missing(xs, f)
  <2>1. 1 \in In(xs[f], f)
    BY <1>3, LineFacts DEF In
  <2> QED BY <1>3, <2>1 DEF Missing, With
<1>4. \A f \in Fields : ~Missing(ls, f)
  BY <1>1, <1>2, <1>3
<1> HIDE DEF ls
<1>5. DOMAIN us = Fields
  BY <1>2, UpdatedType
<1>6. ASSUME NEW f \in Fields PROVE us[f] \in AllLines /\ Len(us[f]) = 1 /\ us[f][1].field = f
  BY <1>1, <1>2, UpdatedLine
<1>7. \A f \in Fields : ~Missing(us, f)
  BY <1>3, <1>5, <1>6
<1>8. PlainBlocksOnly => EqualSIEMConfig(b, us)
  BY <1>2, <1>7, UpdatedIsRight DEF EqualSIEMConfig
<1>9. ~MissingField(b, ls)
  BY <1>4 DEF MissingField, FirstWrong
<1> QED BY <1>2, <1>8, <1>9 DEF ls

-----------------------------------------------------------------------------
(* Types: these hold of every block, whatever its words.                   *)

(* There is no file at the start.                                          *)
LEMMA TypeInit == Init => TypeOK
<1> SUFFICES ASSUME Init PROVE TypeOK
  OBVIOUS
<1>1. <<>> \in Seq(AllLines)
  OBVIOUS
<1>2. MaxUserActs \in 0..MaxUserActs
  BY BoundsAssumption
<1>3. writes \in 0..WritesCap
  BY DEF Init, WritesCap
<1> QED BY <1>1, <1>2, <1>3 DEF Init, TypeOK

(* Parts of a file with other lines between them are a file.               *)
LEMMA EditType ==
  ASSUME TypeOK, UserEditsFile PROVE file' \in Seq(AllLines)
<1>1. file \in Seq(AllLines) /\ Len(file) \in Nat
  BY DEF TypeOK
<1>2. PICK m \in 1..(Len(file) + 1), new \in {<<>>} \cup {<<l>> : l \in Lines} :
        \E n \in {m - 1, m} \cap 0..Len(file) :
          file' = SubSeq(file, 1, m - 1) \o new \o SubSeq(file, n + 1, Len(file))
  BY DEF UserEditsFile
<1>3. PICK n \in 0..Len(file) :
          file' = SubSeq(file, 1, m - 1) \o new \o SubSeq(file, n + 1, Len(file))
  BY <1>2
<1>4. new \in Seq(AllLines)
  <2>1. CASE new = <<>>
    BY <2>1
  <2>2. CASE \E l \in Lines : new = <<l>>
    <3>1. PICK l \in AllLines : new = <<l>>
      BY <2>2, LinesAssumption
    <3> QED BY <3>1
  <2> QED BY <1>2, <2>1, <2>2
<1>5. 1 \in 1..(Len(file) + 1) /\ m - 1 \in 0..Len(file)
      /\ n + 1 \in 1..(Len(file) + 1) /\ Len(file) \in 0..Len(file)
  BY <1>1
<1>6. SubSeq(file, 1, m - 1) \in Seq(AllLines) /\ SubSeq(file, n + 1, Len(file)) \in Seq(AllLines)
  BY <1>1, <1>5, SubSeqProperties
<1>7. SubSeq(file, 1, m - 1) \o new \in Seq(AllLines)
  BY <1>4, <1>6, ConcatProperties
<1>8. SubSeq(file, 1, m - 1) \o new \o SubSeq(file, n + 1, Len(file)) \in Seq(AllLines)
  BY <1>6, <1>7, ConcatProperties
<1> QED BY <1>3, <1>8

(* Every step keeps the state well typed.                                  *)
LEMMA TypeStep == ASSUME TypeOK, [Next]_vars PROVE TypeOK'
<1>0. <<>> \in Seq(AllLines)
  OBVIOUS
<1>1. CASE reconcileConfig
  <2>1. UNCHANGED <<block, userActs>> /\ Written
    BY <1>1 DEF reconcileConfig, Create, Delete, Update
  <2>2. writes' \in 0..WritesCap
    BY <2>1 DEF Written, WritesCap, TypeOK
  <2>3. exists' \in BOOLEAN /\ file' \in Seq(AllLines) /\ (~exists' => file' = <<>>)
    BY <1>0, <1>1, BuildFacts, UpdatedType DEF reconcileConfig, Create, Delete, Deleted, Update, TypeOK
  <2> QED BY <2>1, <2>2, <2>3 DEF TypeOK
<1>2. CASE User
  <2>1. UserAct /\ block' \in Blocks
    BY <1>2 DEF User, UserEditsBlock, UserEditsFile, UserDeletesFile, TypeOK
  <2>2. userActs' \in 0..MaxUserActs /\ writes' \in 0..WritesCap
    BY <2>1, BoundsAssumption DEF UserAct, TypeOK, WritesCap
  <2>3. exists' \in BOOLEAN /\ file' \in Seq(AllLines) /\ (~exists' => file' = <<>>)
    <3>1. CASE UserEditsFile
      BY <3>1, EditType DEF UserEditsFile, TypeOK
    <3>2. CASE UserEditsBlock \/ UserDeletesFile
      BY <1>0, <3>2 DEF UserEditsBlock, UserDeletesFile, TypeOK
    <3> QED BY <1>2, <3>1, <3>2 DEF User
  <2> QED BY <2>1, <2>2, <2>3 DEF TypeOK
<1>3. CASE UNCHANGED vars
  BY <1>3 DEF vars, TypeOK
<1> QED BY <1>1, <1>2, <1>3 DEF Next

(* The file stays a sequence of lines, also with the values that the       *)
(* comparison never accepts, and a file that is not there holds nothing.   *)
THEOREM TypeCorrect == Spec => []TypeOK
<1>1. TypeOK /\ [Next]_vars => TypeOK'
  BY TypeStep
<1> QED BY <1>1, TypeInit, PTL DEF Spec

-----------------------------------------------------------------------------
(* The writes that are left.                                               *)

(* A file needs between none and four writes.                              *)
LEMMA WritesLeftBounds == WritesLeft \in 0..4
BY DEF WritesLeft, AfterCreate

(* A write is counted, and there is one fewer to come.                     *)
LEMMA WrittenStep ==
  ASSUME Invariant, Written, WritesLeft' \in 0..4, WritesLeft' < WritesLeft
  PROVE  WritesInvariant'
<1>1. writes + WritesLeft <= 4 /\ writes \in 0..9 /\ WritesLeft \in 0..4
  BY WritesLeftBounds DEF Invariant, TypeOK, WritesInvariant, WritesCap
<1>2. writes' = writes + 1
  BY <1>1 DEF Written, WritesCap
<1>3. \A a, b, c, d \in Int : a + b <= 4 /\ c = a + 1 /\ d < b => c + d <= 4
  OBVIOUS
<1>4. writes \in Int /\ writes' \in Int /\ WritesLeft \in Int /\ WritesLeft' \in Int
  BY <1>1, <1>2
<1>5. writes' + WritesLeft' <= 4
  BY ONLY <1>1, <1>2, <1>3, <1>4, WritesLeft' < WritesLeft
<1> QED BY <1>5 DEF WritesInvariant

(* Creating the file: the placeholders may have to be corrected.           *)
LEMMA CreateStep == ASSUME PlainBlocksOnly, Invariant, Create PROVE WritesInvariant'
<1>1. block \in Blocks /\ block' = block /\ file' = Build(block) /\ ~exists /\ exists' /\ Written
  BY DEF Invariant, TypeOK, Create
<1>2. WritesLeft = 1 + AfterCreate /\ AfterCreate \in {0, 1}
  BY <1>1 DEF WritesLeft, AfterCreate
<1>3. WritesLeft' = AfterCreate
  BY <1>1, BuildFacts DEF WritesLeft, AfterCreate
<1> QED BY <1>1, <1>2, <1>3, WrittenStep

(* Deleting it: it is still to be created.                                 *)
LEMMA DeleteStep == ASSUME Invariant, Delete PROVE WritesInvariant'
<1>1. block' = block /\ ~exists' /\ Written
      /\ WritesLeft = 2 + AfterCreate /\ AfterCreate \in {0, 1}
  BY DEF Delete, WritesLeft, AfterCreate
<1>2. WritesLeft' = 1 + AfterCreate
  BY <1>1 DEF WritesLeft, AfterCreate
<1> QED BY <1>1, <1>2, WrittenStep

(* Updating it: every field is right then, or one is found missing.        *)
LEMMA UpdateStep == ASSUME PlainBlocksOnly, Invariant, Update PROVE WritesInvariant'
<1>1. /\ block \in Blocks /\ file \in Seq(AllLines) /\ exists /\ exists' /\ Written
      /\ block' = block /\ file' = UpdateSIEMConfig(block, file)
      /\ ~EqualSIEMConfig(block, file) /\ ~MissingField(block, file)
      /\ AfterCreate \in {0, 1} /\ AfterCreate' = AfterCreate
  BY DEF Invariant, TypeOK, Update, AfterCreate
<1>2. CASE EqualSIEMConfig(block, file')
  <2>1. WritesLeft' = 0 /\ WritesLeft = 1
    BY <1>1, <1>2 DEF WritesLeft
  <2> QED BY <1>1, <2>1, WrittenStep
<1>3. CASE ~EqualSIEMConfig(block, file')
  <2>1. MissingField(block, file')
    BY <1>1, <1>3, UpdatedIsEqual
  <2>2. WritesLeft' = 2 + AfterCreate /\ WritesLeft = 3 + AfterCreate
    BY <1>1, <1>3, <2>1 DEF WritesLeft
  <2> QED BY <1>1, <2>2, WrittenStep
<1> QED BY <1>2, <1>3

(* Every step keeps the invariant; users start the count again.            *)
LEMMA InvariantStep == ASSUME PlainBlocksOnly, Invariant, [Next]_vars PROVE Invariant'
<1>1. TypeOK'
  BY TypeStep DEF Invariant
<1>2. CASE reconcileConfig
  BY <1>1, <1>2, CreateStep, DeleteStep, UpdateStep DEF reconcileConfig, Invariant
<1>3. CASE User
  <2>1. writes' = 0
    BY <1>3 DEF User, UserEditsBlock, UserEditsFile, UserDeletesFile, UserAct
  <2>2. WritesLeft' \in 0..4
    BY DEF WritesLeft, AfterCreate
  <2> DEFINE left == WritesLeft'
  <2>3. writes' + left <= 4
    <3> HIDE DEF left
    <3>1. left \in 0..4 => 0 + left <= 4
      OBVIOUS
    <3> QED BY <2>1, <2>2, <3>1 DEF left
  <2>4. WritesInvariant'
    BY <2>3 DEF WritesInvariant
  <2> QED BY <1>1, <2>4 DEF Invariant
<1>4. CASE UNCHANGED vars
  BY <1>1, <1>4 DEF vars, Invariant, WritesInvariant, WritesLeft, AfterCreate
<1> QED BY <1>2, <1>3, <1>4 DEF Next

(* The operator starts without a file and with no write done.              *)
LEMMA InvariantInit == Init => Invariant
<1> SUFFICES ASSUME Init PROVE Invariant
  OBVIOUS
<1>1. WritesInvariant
  BY WritesLeftBounds DEF Init, WritesInvariant
<1> QED BY <1>1, TypeInit DEF Invariant

(* Each write of the operator, update, deletion or creation, leaves the    *)
(* file needing one write fewer.                                           *)
THEOREM WritesAreProgress == ASSUME PlainBlocksOnly PROVE Spec => []WritesInvariant
<1>1. Invariant /\ [Next]_vars => Invariant'
  BY InvariantStep
<1>2. Invariant => WritesInvariant
  BY DEF Invariant
<1> QED BY <1>1, <1>2, InvariantInit, PTL DEF Spec

(* An output's ConfigMap settles in four writes after users last acted,    *)
(* whatever plain words the CR asks for and whatever users left in the     *)
(* file: the updates, and the restarts of fluentd they bring, come to an   *)
(* end.                                                                    *)
THEOREM FileSettles == ASSUME PlainBlocksOnly PROVE Spec => []SettlesInFourWrites
<1>1. Invariant /\ [Next]_vars => Invariant'
  BY InvariantStep
<1>2. Invariant => SettlesInFourWrites
  BY WritesLeftBounds DEF Invariant, TypeOK, WritesInvariant, SettlesInFourWrites
<1> QED BY <1>1, <1>2, InvariantInit, PTL DEF Spec
==============================================================================

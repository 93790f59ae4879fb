------------------------- MODULE OutputConfigProofs -------------------------
(***************************************************************************)
(* What customers keep of their output configs, for both plugins and files *)
(* of any length, as long as no line holds a "]"; with or without one the  *)
(* files are well typed.                                                   *)
(***************************************************************************)
EXTENDS OutputConfig, SequenceTheorems, WellFoundedInduction, TLAPS

(* The run output_bracket shows why: such a line ends what the code can capture.  *)
NoBrackets == \A l \in Lines : l.what # "bracket"

FileHasNoBrackets == \A n \in DOMAIN file : file[n].what # "bracket"

Invariant == TypeOK /\ (NoBrackets => FileHasNoBrackets)

-----------------------------------------------------------------------------
(* Files and their parts.                                                  *)

(* A part of a file is a file.                                             *)
LEMMA PartFacts ==
  ASSUME NEW f \in Seq(AllLines), NEW a \in 1..(Len(f) + 1), NEW b \in 0..Len(f)
  PROVE  /\ SubSeq(f, a, b) \in Seq(AllLines)
         /\ Len(SubSeq(f, a, b)) = IF a <= b THEN b - a + 1 ELSE 0
         /\ \A n \in 1..Len(SubSeq(f, a, b)) : SubSeq(f, a, b)[n] = f[a + n - 1]
BY SubSeqProperties

(* Two parts put together.                                                 *)
LEMMA JoinFacts ==
  ASSUME NEW f \in Seq(AllLines), NEW g \in Seq(AllLines)
  PROVE  /\ f \o g \in Seq(AllLines) /\ Len(f \o g) = Len(f) + Len(g)
         /\ \A n \in 1..Len(f) : (f \o g)[n] = f[n]
         /\ \A n \in (Len(f) + 1)..(Len(f) + Len(g)) : (f \o g)[n] = g[n - Len(f)]
<1>1. Len(f) \in Nat /\ Len(g) \in Nat
  OBVIOUS
<1>2. ASSUME NEW n \in 1..(Len(f) + Len(g))
      PROVE  (f \o g)[n] = IF n <= Len(f) THEN f[n] ELSE g[n - Len(f)]
  BY ConcatProperties
<1>3. \A n \in 1..Len(f) : n \in 1..(Len(f) + Len(g)) /\ n <= Len(f)
  BY <1>1
<1>4. \A n \in (Len(f) + 1)..(Len(f) + Len(g)) :
        n \in 1..(Len(f) + Len(g)) /\ ~(n <= Len(f))
  BY <1>1
<1>5. f \o g \in Seq(AllLines) /\ Len(f \o g) = Len(f) + Len(g)
  BY ConcatProperties
<1> QED BY <1>2, <1>3, <1>4, <1>5

(* The match tag and its end tag are lines without brackets.               *)
LEMMA PlainFacts ==
  /\ \A w \in Tags \cup Body : Plain(w) \in AllLines /\ Plain(w).what = w
  /\ EndsTag(Plain("match")) /\ StartsTag(Plain("end"))
BY DEF Plain, AllLines, Forms, EndsTag, StartsTag, Tags, Opening

(* A set of natural numbers that is not empty has a least one.             *)
LEMMA Least ==
  ASSUME NEW T \in SUBSET Nat, T # {}
  PROVE  \E n \in T : \A m \in T : n <= m
<1>1. PICK n \in T : \A m \in T : <<m, n>> \notin OpToRel(<, Nat)
  BY NatLessThanWellFounded, WFMin
<1>2. \A m \in T : ~(m < n)
  BY <1>1 DEF OpToRel
<1> QED BY <1>2

(* The first of the lines that open a section of kube-audit.               *)
LEMMA FirstKube ==
  ASSUME NEW f \in Seq(AllLines), NEW k \in DOMAIN f, f[k].what = "kube"
  PROVE  \E n \in DOMAIN f : f[n].what = "kube" /\ \A m \in 1..(n - 1) : f[m].what # "kube"
<1> DEFINE Ks == {n \in DOMAIN f : f[n].what = "kube"}
<1>1. DOMAIN f = 1..Len(f) /\ Len(f) \in Nat
  OBVIOUS
<1>2. PICK n \in Ks : \A m \in Ks : n <= m
  <2>1. Ks \in SUBSET Nat /\ Ks # {}
    BY <1>1
  <2> QED BY <2>1, Least
<1>3. \A m \in 1..(n - 1) : m \in DOMAIN f /\ ~(n <= m)
  BY <1>1, <1>2
<1> QED BY <1>2, <1>3

(* A file's own data is the file up to the section of kube-audit, if any.  *)
LEMMA OwnDataFacts ==
  ASSUME NEW f \in Seq(AllLines)
  PROVE  /\ OwnData(f) \in Seq(AllLines)
         /\ Len(OwnData(f)) \in 0..Len(f)
         /\ \A n \in 1..Len(OwnData(f)) : OwnData(f)[n] = f[n]
         /\ OwnData(f) # f => /\ Plugin = "syslog"
                             /\ Len(OwnData(f)) < Len(f)
                             /\ f[Len(OwnData(f)) + 1].what = "kube"
         /\ Plugin = "syslog" => \A n \in 1..Len(OwnData(f)) : f[n].what # "kube"
<1>1. Len(f) \in Nat /\ DOMAIN f = 1..Len(f)
  OBVIOUS
<1>2. CASE Plugin = "splunk" \/ ~\E n \in DOMAIN f : f[n].what = "kube"
  BY <1>1, <1>2, PluginAssumption DEF OwnData, removeK8sAudit
<1>3. CASE Plugin # "splunk" /\ \E n \in DOMAIN f : f[n].what = "kube"
  <2> DEFINE k == CHOOSE n \in DOMAIN f : f[n].what = "kube" /\ \A m \in 1..(n - 1) : f[m].what # "kube"
  <2>1. k \in DOMAIN f /\ f[k].what = "kube" /\ \A m \in 1..(k - 1) : f[m].what # "kube"
    BY <1>3, FirstKube
  <2>2. OwnData(f) = SubSeq(f, 1, k - 1)
    BY <1>3 DEF OwnData, removeK8sAudit
  <2> HIDE DEF k
  <2>3. k \in Nat /\ k >= 1 /\ k <= Len(f)
    BY <1>1, <2>1
  <2>4. /\ SubSeq(f, 1, k - 1) \in Seq(AllLines)
        /\ Len(SubSeq(f, 1, k - 1)) = k - 1
        /\ \A n \in 1..(k - 1) : SubSeq(f, 1, k - 1)[n] = f[n]
    <3>1. 1 \in 1..(Len(f) + 1) /\ k - 1 \in 0..Len(f)
      BY <1>1, <2>3
    <3>2. /\ SubSeq(f, 1, k - 1) \in Seq(AllLines)
          /\ Len(SubSeq(f, 1, k - 1)) = IF 1 <= k - 1 THEN k - 1 - 1 + 1 ELSE 0
          /\ \A n \in 1..Len(SubSeq(f, 1, k - 1)) : SubSeq(f, 1, k - 1)[n] = f[1 + n - 1]
      BY <3>1, PartFacts
    <3>3. Len(SubSeq(f, 1, k - 1)) = k - 1
      BY <2>3, <3>2
    <3> QED BY <2>3, <3>2, <3>3
  <2> QED BY <1>3, <2>1, <2>2, <2>3, <2>4, PluginAssumption
<1> QED BY <1>2, <1>3

-----------------------------------------------------------------------------
(* What the regular expression captures.                                   *)

(* If there is a match, the leftmost longest one is found.                 *)
LEMMA MatchFound ==
  ASSUME NEW f \in Seq(AllLines), Matches(f) # {}
  PROVE  /\ FindMatch(f) \in Matches(f)
         /\ \A kl \in Matches(f) :
              \/ FindMatch(f)[1] < kl[1]
              \/ FindMatch(f)[1] = kl[1] /\ FindMatch(f)[2] >= kl[2]
<1>1. Len(f) \in Nat /\ DOMAIN f = 1..Len(f)
  OBVIOUS
<1>2. \A kl \in Matches(f) : kl[1] \in 1..Len(f) /\ kl[2] \in 1..Len(f)
  BY <1>1 DEF Matches
<1> DEFINE Starts == {kl[1] : kl \in Matches(f)}
<1>3. PICK i \in Starts : \A m \in Starts : i <= m
  <2>1. Starts \in SUBSET Nat /\ Starts # {}
    BY <1>1, <1>2
  <2> QED BY <2>1, Least
<1> DEFINE FromI == {kl \in Matches(f) : kl[1] = i}
           Left  == {Len(f) - kl[2] : kl \in FromI}
<1>4. PICK d \in Left : \A m \in Left : d <= m
  <2>1. Left \in SUBSET Nat /\ Left # {}
    BY <1>1, <1>2, <1>3
  <2> QED BY <2>1, Least
<1>5. PICK ij \in FromI : d = Len(f) - ij[2]
  BY <1>4
<1>6. \A kl \in Matches(f) : ij[1] < kl[1] \/ (ij[1] = kl[1] /\ ij[2] >= kl[2])
  <2> TAKE kl \in Matches(f)
  <2>1. i <= kl[1] /\ i \in Nat /\ ij[1] = i
    BY <1>1, <1>2, <1>3, <1>5
  <2>2. CASE kl[1] = i
    <3>1. Len(f) - ij[2] <= Len(f) - kl[2]
      BY <1>4, <1>5, <2>2
    <3> QED BY <1>1, <1>2, <1>5, <2>1, <2>2, <3>1
  <2>3. CASE kl[1] # i
    BY <1>2, <2>1, <2>3
  <2> QED BY <2>2, <2>3
<1> QED BY <1>5, <1>6 DEF FindMatch

(* A rewritten file is a file, no longer than before and without brackets. *)
LEMMA BuiltFacts ==
  ASSUME NEW f \in Seq(AllLines), ~Misformatted(f)
  PROVE  LET ij == FindMatch(OwnData(f))
         IN  /\ BuildWithSIEMConfigs(f) \in Seq(AllLines)
             /\ ij[1] \in 1..Len(f) /\ ij[2] \in 1..Len(f) /\ ij[2] >= ij[1] + 2
             /\ Len(BuildWithSIEMConfigs(f)) = ij[2] - ij[1] + 1
             /\ BuildWithSIEMConfigs(f)[1] = Plain("match")
             /\ BuildWithSIEMConfigs(f)[ij[2] - ij[1] + 1] = Plain("end")
             /\ \A n \in 2..(ij[2] - ij[1]) :
                  /\ BuildWithSIEMConfigs(f)[n] = f[ij[1] + n - 1]
                  /\ BuildWithSIEMConfigs(f)[n].what # "bracket"
<1> DEFINE g == OwnData(f)
           ij == FindMatch(g)
           mid == SubSeq(g, ij[1] + 1, ij[2] - 1)
<1>1. g \in Seq(AllLines) /\ Len(g) \in 0..Len(f) /\ DOMAIN g = 1..Len(g) /\ Len(f) \in Nat
      /\ \A n \in 1..Len(g) : g[n] = f[n]
  BY OwnDataFacts
<1>2. ij \in Matches(g)
  BY <1>1, MatchFound DEF Misformatted
<1> HIDE DEF g, ij
<1>3. /\ ij[1] \in 1..Len(g) /\ ij[2] \in 1..Len(g) /\ ij[2] >= ij[1] + 2
      /\ \A n \in (ij[1] + 1)..(ij[2] - 1) : g[n].what # "bracket"
  BY <1>1, <1>2 DEF Matches
<1>4. ij[1] + 1 \in 1..(Len(g) + 1) /\ ij[2] - 1 \in 0..Len(g)
  BY <1>1, <1>3
<1>5. /\ mid \in Seq(AllLines)
      /\ Len(mid) = ij[2] - ij[1] - 1
      /\ \A n \in 1..Len(mid) : mid[n] = g[ij[1] + n]
  <2>1. /\ mid \in Seq(AllLines)
        /\ Len(mid) = IF ij[1] + 1 <= ij[2] - 1 THEN ij[2] - 1 - (ij[1] + 1) + 1 ELSE 0
        /\ \A n \in 1..Len(mid) : mid[n] = g[ij[1] + 1 + n - 1]
    BY <1>1, <1>4, PartFacts
  <2>2. Len(mid) = ij[2] - ij[1] - 1
    BY <1>1, <1>3, <2>1, SMTT(30)
  <2>3. \A n \in Nat : ij[1] + 1 + n - 1 = ij[1] + n
    <3>1. ij[1] \in Nat
      BY <1>1, <1>3
    <3> QED BY <3>1
  <2> HIDE DEF mid
  <2>4. \A n \in 1..Len(mid) : n \in Nat
    OBVIOUS
  <2> QED BY <2>1, <2>2, <2>3, <2>4
<1>6. BuildWithSIEMConfigs(f) = <<Plain("match")>> \o mid \o <<Plain("end")>>
  BY DEF BuildWithSIEMConfigs, g, ij
<1> HIDE DEF mid
<1>7. <<Plain("match")>> \in Seq(AllLines) /\ <<Plain("end")>> \in Seq(AllLines)
  <2>1. Plain("match") \in AllLines /\ Plain("end") \in AllLines
    BY PlainFacts DEF Tags, Opening
  <2> QED BY <2>1
<1> DEFINE head == <<Plain("match")>> \o mid
           all  == head \o <<Plain("end")>>
<1>8. /\ head \in Seq(AllLines) /\ Len(head) = ij[2] - ij[1]
      /\ head[1] = Plain("match") /\ \A n \in 2..Len(head) : head[n] = mid[n - 1]
  BY <1>1, <1>3, <1>5, <1>7, ConcatProperties
<1> HIDE DEF head
<1>9. /\ all \in Seq(AllLines) /\ Len(all) = ij[2] - ij[1] + 1
      /\ all[ij[2] - ij[1] + 1] = Plain("end") /\ \A n \in 1..Len(head) : all[n] = head[n]
  <2> DEFINE last == <<Plain("end")>>
  <2>1. last \in Seq(AllLines) /\ Len(last) = 1 /\ last[1] = Plain("end")
    BY <1>7
  <2>2. all = head \o last
    OBVIOUS
  <2> HIDE DEF last, all
  <2>3. /\ all \in Seq(AllLines) /\ Len(all) = Len(head) + 1
        /\ \A n \in 1..Len(head) : all[n] = head[n]
        /\ \A n \in (Len(head) + 1)..(Len(head) + 1) : all[n] = last[n - Len(head)]
    <3>1. head \in Seq(AllLines) /\ last \in Seq(AllLines)
      BY <1>8, <2>1
    <3>2. /\ head \o last \in Seq(AllLines) /\ Len(head \o last) = Len(head) + Len(last)
          /\ \A n \in 1..Len(head) : (head \o last)[n] = head[n]
          /\ \A n \in (Len(head) + 1)..(Len(head) + Len(last)) :
               (head \o last)[n] = last[n - Len(head)]
      BY <3>1, JoinFacts
    <3> QED BY <2>1, <2>2, <3>2
  <2>4. Len(head) + 1 \in (Len(head) + 1)..(Len(head) + 1) /\ Len(head) + 1 - Len(head) = 1
    BY <1>8
  <2>5. all[Len(head) + 1] = Plain("end")
    BY <2>1, <2>3, <2>4
  <2> QED BY <1>8, <2>3, <2>5
<1>10. BuildWithSIEMConfigs(f) = all
  BY <1>6 DEF head
<1> HIDE DEF all
<1>11. \A n \in 2..(ij[2] - ij[1]) :
         /\ all[n] = g[ij[1] + n - 1] /\ all[n].what # "bracket"
         /\ g[ij[1] + n - 1] = f[ij[1] + n - 1]
  <2> TAKE n \in 2..(ij[2] - ij[1])
  <2>1. n \in 2..Len(head) /\ n \in 1..Len(head) /\ n - 1 \in 1..Len(mid)
    BY <1>1, <1>3, <1>5, <1>8
  <2>2. all[n] = g[ij[1] + (n - 1)]
    BY <1>5, <1>8, <1>9, <2>1
  <2>3. ij[1] + (n - 1) = ij[1] + n - 1 /\ ij[1] + n - 1 \in (ij[1] + 1)..(ij[2] - 1)
    BY <1>1, <1>3
  <2>4. ij[1] + n - 1 \in 1..Len(g)
    BY <1>1, <1>3, <2>3
  <2> QED BY <1>1, <1>3, <2>2, <2>3, <2>4
<1>12. all[1] = Plain("match")
  BY <1>1, <1>3, <1>8, <1>9
<1>13. ij[1] \in 1..Len(f) /\ ij[2] \in 1..Len(f)
  BY <1>1, <1>3
<1> QED BY <1>3, <1>9, <1>10, <1>11, <1>12, <1>13 DEF ij, g

(* Of a framed file without brackets everything within is captured.        *)
LEMMA FramedIsCaptured ==
  ASSUME NEW f \in Seq(AllLines), NEW n \in DOMAIN f, Framed(f, n),
         \A m \in DOMAIN f : f[m].what # "bracket"
  PROVE  /\ ~Misformatted(f)
         /\ Len(OwnData(f)) = n
         /\ FindMatch(OwnData(f)) = <<1, n>>
<1> DEFINE g == OwnData(f)
<1>1. /\ Len(f) \in Nat /\ DOMAIN f = 1..Len(f) /\ n \in Nat /\ n >= 3 /\ n <= Len(f)
      /\ f[1].what \in {"match", "other"} /\ f[1].form \in {"plain", "indented"}
      /\ f[n] = Plain("end")
  BY DEF Framed
<1>2. /\ g \in Seq(AllLines) /\ Len(g) \in 0..Len(f) /\ DOMAIN g = 1..Len(g)
      /\ \A m \in 1..Len(g) : g[m] = f[m]
      /\ g # f => Plugin = "syslog" /\ Len(g) < Len(f) /\ f[Len(g) + 1].what = "kube"
      /\ Plugin = "syslog" => \A m \in 1..Len(g) : f[m].what # "kube"
  BY OwnDataFacts
<1>3. Len(g) = n
  <2>1. Plugin = "syslog" => \A m \in 1..n : f[m].what # "kube"
    BY DEF Framed, OfKubeAudit
  <2>2. Len(g) >= n
    <3>1. CASE g = f
      BY <1>1, <3>1
    <3>2. CASE g # f
      <4>1. Len(g) + 1 \notin 1..n
        BY <1>2, <2>1, <3>2
      <4> QED BY <1>1, <1>2, <4>1
    <3> QED BY <3>1, <3>2
  <2>3. Len(g) <= n
    <3>1. CASE n = Len(f)
      BY <1>1, <1>2, <3>1
    <3>2. CASE n # Len(f)
      <4>1. Plugin = "syslog" /\ \E m \in 1..(n + 1) : f[m].what = "kube"
        BY <3>2 DEF Framed, OfKubeAudit
      <4>2. PICK m \in 1..(n + 1) : f[m].what = "kube"
        BY <4>1
      <4>3. m = n + 1
        BY <1>1, <2>1, <4>1, <4>2
      <4>4. n + 1 \notin 1..Len(g)
        BY <1>2, <4>1, <4>2, <4>3
      <4> QED BY <1>1, <1>2, <4>4
    <3> QED BY <3>1, <3>2
  <2> QED BY <1>1, <1>2, <2>2, <2>3
<1> HIDE DEF g
<1>4. EndsTag(g[1]) /\ StartsTag(g[n]) /\ \A m \in 1..n : g[m].what # "bracket"
  <2>1. g[1] = f[1] /\ g[n] = f[n] /\ \A m \in 1..n : g[m] = f[m] /\ m \in DOMAIN f
    BY <1>1, <1>2, <1>3
  <2>2. EndsTag(f[1])
    BY <1>1 DEF EndsTag, Tags, Opening
  <2> QED BY <1>1, <2>1, <2>2, PlainFacts
<1>5. <<1, n>> \in Matches(g)
  BY <1>1, <1>2, <1>3, <1>4 DEF Matches
<1>6. FindMatch(g) \in Matches(g) /\ \A kl \in Matches(g) :
        \/ FindMatch(g)[1] < kl[1]
        \/ FindMatch(g)[1] = kl[1] /\ FindMatch(g)[2] >= kl[2]
  BY <1>2, <1>5, MatchFound
<1>7. FindMatch(g) \in (1..n) \X (1..n)
  BY <1>2, <1>3, <1>6 DEF Matches
<1>8. FindMatch(g)[1] = 1 /\ FindMatch(g)[2] = n
  BY <1>1, <1>5, <1>6, <1>7
<1> QED BY <1>3, <1>5, <1>7, <1>8 DEF Misformatted, g

-----------------------------------------------------------------------------
(* The invariant: files without brackets.                                  *)

(* There is no file at the start.                                          *)
LEMMA InvariantInit == Init => Invariant
<1> SUFFICES ASSUME Init PROVE Invariant
  OBVIOUS
<1>1. <<>> \in Seq(AllLines) /\ Len(<<>>) = 0 /\ DOMAIN <<>> = {}
  OBVIOUS
<1>2. file = <<>> /\ exists = FALSE /\ refused = FALSE
  BY DEF Init
<1>3. file \in Seq(AllLines) /\ Len(file) <= MaxLines /\ DOMAIN file = {}
  BY <1>1, <1>2, BoundsAssumption
<1> QED BY <1>2, <1>3 DEF Invariant, TypeOK, FileHasNoBrackets

(* What the operator creates or rewrites is free of brackets.              *)
LEMMA UpdateStep == ASSUME Invariant, Update PROVE Invariant'
<1>1. file \in Seq(AllLines) /\ Len(file) \in Nat /\ Len(file) <= MaxLines
      /\ ~Misformatted(file) /\ file' = BuildWithSIEMConfigs(file)
      /\ exists' = TRUE /\ refused' = FALSE
  BY DEF Invariant, TypeOK, Update
<1> DEFINE ij == FindMatch(OwnData(file))
<1>2. /\ file' \in Seq(AllLines)
      /\ ij[1] \in 1..Len(file) /\ ij[2] \in 1..Len(file) /\ ij[2] >= ij[1] + 2
      /\ Len(file') = ij[2] - ij[1] + 1
      /\ file'[1] = Plain("match")
      /\ file'[ij[2] - ij[1] + 1] = Plain("end")
      /\ \A n \in 2..(ij[2] - ij[1]) : file'[n].what # "bracket"
  BY <1>1, BuiltFacts
<1> HIDE DEF ij
<1>3. Len(file') <= MaxLines
  BY <1>1, <1>2, BoundsAssumption
<1>4. ASSUME NEW n \in DOMAIN file' PROVE file'[n].what # "bracket"
  <2>1. n \in 1..Len(file')
    BY <1>2
  <2>2. n = 1 \/ n = ij[2] - ij[1] + 1 \/ n \in 2..(ij[2] - ij[1])
    BY <1>1, <1>2, <2>1
  <2> QED BY <1>2, <2>2, PlainFacts DEF Tags, Opening, Body
<1> QED BY <1>1, <1>2, <1>3, <1>4 DEF Invariant, TypeOK, FileHasNoBrackets

(* Creating it: the default has no brackets either.                        *)
LEMMA CreateStep == ASSUME Invariant, Create PROVE Invariant'
<1>1. /\ BuildConfigMap \in Seq(AllLines) /\ Len(BuildConfigMap) <= 6
      /\ \A n \in DOMAIN BuildConfigMap : BuildConfigMap[n].what # "bracket"
  <2>1. \A w \in {"match", "text", "tag", "end"} :
          Plain(w) \in AllLines /\ Plain(w).what # "bracket"
    BY PlainFacts DEF Tags, Opening, Body
  <2>2. CASE Plugin = "splunk"
    BY <2>1, <2>2 DEF BuildConfigMap
  <2>3. CASE Plugin # "splunk"
    BY <2>1, <2>3 DEF BuildConfigMap
  <2> QED BY <2>2, <2>3
<1>2. file' = BuildConfigMap /\ exists' = TRUE /\ refused' = FALSE
  BY DEF Create
<1> HIDE DEF BuildConfigMap
<1>3. Len(file') \in Nat /\ Len(file') <= MaxLines
  BY <1>1, <1>2, BoundsAssumption
<1> QED BY <1>1, <1>2, <1>3 DEF Invariant, TypeOK, FileHasNoBrackets

(* Customers append lines without brackets.                                *)
LEMMA AppendStep == ASSUME Invariant, AppendsLine PROVE Invariant'
<1>1. /\ file \in Seq(AllLines) /\ Len(file) \in Nat /\ DOMAIN file = 1..Len(file)
      /\ Len(file) < MaxLines /\ exists = TRUE /\ exists' = TRUE /\ refused' \in BOOLEAN
  BY DEF AppendsLine, Invariant, TypeOK
<1>2. PICK l \in Lines : file' = Append(file, l)
  BY DEF AppendsLine
<1>3. l \in AllLines /\ (NoBrackets => l.what # "bracket")
  BY LinesAssumption DEF NoBrackets
<1>4. /\ file' \in Seq(AllLines) /\ Len(file') = Len(file) + 1
      /\ \A m \in 1..Len(file) : file'[m] = file[m]
      /\ file'[Len(file) + 1] = l
  BY <1>1, <1>2, <1>3, AppendProperties
<1>5. ASSUME NoBrackets, NEW m \in DOMAIN file' PROVE file'[m].what # "bracket"
  <2>1. m \in 1..Len(file) \/ m = Len(file) + 1
    BY <1>1, <1>4
  <2> QED BY <1>1, <1>3, <1>4, <1>5, <2>1 DEF Invariant, FileHasNoBrackets
<1>6. Len(file') <= MaxLines
  BY <1>1, <1>4, BoundsAssumption
<1> QED BY <1>1, <1>4, <1>5, <1>6 DEF Invariant, TypeOK, FileHasNoBrackets

(* Removing a line adds none.                                              *)
LEMMA RemoveStep == ASSUME Invariant, RemovesLine PROVE Invariant'
<1>1. file \in Seq(AllLines) /\ Len(file) \in Nat /\ DOMAIN file = 1..Len(file)
  BY DEF Invariant, TypeOK
<1>2. PICK n \in 1..Len(file) :
        file' = SubSeq(file, 1, n - 1) \o SubSeq(file, n + 1, Len(file))
  BY <1>1 DEF RemovesLine
<1> DEFINE a == SubSeq(file, 1, n - 1)  b == SubSeq(file, n + 1, Len(file))
<1>3. /\ 1 \in 1..(Len(file) + 1) /\ n - 1 \in 0..Len(file)
      /\ n + 1 \in 1..(Len(file) + 1) /\ Len(file) \in 0..Len(file)
  BY <1>1
<1>4. /\ a \in Seq(AllLines) /\ Len(a) <= n - 1 /\ Len(a) \in Nat
      /\ NoBrackets => \A m \in 1..Len(a) : a[m].what # "bracket"
  <2>1. /\ a \in Seq(AllLines) /\ Len(a) = IF 1 <= n - 1 THEN n - 1 - 1 + 1 ELSE 0
        /\ \A m \in 1..Len(a) : a[m] = file[1 + m - 1]
    BY <1>1, <1>3, PartFacts
  <2> HIDE DEF a
  <2>2. \A m \in 1..Len(a) : 1 + m - 1 \in DOMAIN file
    BY <1>1, <2>1
  <2> QED BY <2>1, <2>2 DEF Invariant, FileHasNoBrackets
<1>5. /\ b \in Seq(AllLines) /\ Len(b) <= Len(file) - n /\ Len(b) \in Nat
      /\ NoBrackets => \A m \in 1..Len(b) : b[m].what # "bracket"
  <2>1. /\ b \in Seq(AllLines)
        /\ Len(b) = IF n + 1 <= Len(file) THEN Len(file) - (n + 1) + 1 ELSE 0
        /\ \A m \in 1..Len(b) : b[m] = file[n + 1 + m - 1]
    BY <1>1, <1>3, PartFacts
  <2> HIDE DEF b
  <2>2. Len(b) = Len(file) - n /\ Len(b) \in Nat
    <3>1. Len(file) \in Nat
      BY <1>1
    <3>2. Len(b) = IF n + 1 <= Len(file) THEN Len(file) - (n + 1) + 1 ELSE 0
      BY <2>1
    <3> QED BY <3>1, <3>2
  <2>3. ASSUME NoBrackets, NEW m \in 1..Len(b) PROVE b[m].what # "bracket"
    <3>1. n + 1 + m - 1 \in 1..Len(file)
      BY <1>1, <2>2
    <3>2. b[m] = file[n + 1 + m - 1]
      BY <2>1
    <3> QED BY <1>1, <2>3, <3>1, <3>2 DEF Invariant, FileHasNoBrackets
  <2> QED BY <2>1, <2>2, <2>3
<1>6. file' = a \o b
  BY <1>2
<1> HIDE DEF a, b
<1>7. /\ file' \in Seq(AllLines) /\ Len(file') = Len(a) + Len(b)
      /\ \A m \in 1..Len(a) : file'[m] = a[m]
      /\ \A m \in (Len(a) + 1)..(Len(a) + Len(b)) : file'[m] = b[m - Len(a)]
  BY <1>4, <1>5, <1>6, JoinFacts
<1>8. ASSUME NoBrackets, NEW m \in DOMAIN file' PROVE file'[m].what # "bracket"
  <2>1. m \in 1..(Len(a) + Len(b))
    BY <1>7
  <2>2. CASE m \in 1..Len(a)
    BY <1>4, <1>7, <1>8, <2>2
  <2>3. CASE m \in (Len(a) + 1)..(Len(a) + Len(b))
    <3>1. m - Len(a) \in 1..Len(b)
      BY <1>4, <1>5, <2>3
    <3> QED BY <1>5, <1>7, <1>8, <2>3, <3>1
  <2> QED BY <1>4, <1>5, <2>1, <2>2, <2>3
<1>9. exists' = exists /\ refused' = refused /\ exists = TRUE /\ Len(file) <= MaxLines
  BY DEF RemovesLine, Invariant, TypeOK
<1>10. Len(file') <= MaxLines
  BY <1>1, <1>4, <1>5, <1>7, <1>9, BoundsAssumption
<1> QED BY <1>7, <1>8, <1>9, <1>10 DEF Invariant, TypeOK, FileHasNoBrackets

(* Every step keeps the invariant.                                         *)
LEMMA InvariantStep == ASSUME Invariant, [Next]_vars PROVE Invariant'
<1>1. CASE Create \/ Update \/ AppendsLine \/ RemovesLine
  BY <1>1, CreateStep, UpdateStep, AppendStep, RemoveStep
<1>2. CASE Refuse \/ Accept
  BY <1>2 DEF Refuse, Accept, Invariant, TypeOK, FileHasNoBrackets
<1>3. CASE DeletesFile
  <2>1. <<>> \in Seq(AllLines) /\ Len(<<>>) = 0 /\ DOMAIN <<>> = {}
    OBVIOUS
  <2>2. file' = <<>> /\ exists' = FALSE /\ refused' \in BOOLEAN
    BY <1>3 DEF DeletesFile, Invariant, TypeOK
  <2>3. file' \in Seq(AllLines) /\ Len(file') <= MaxLines /\ DOMAIN file' = {}
    BY <2>1, <2>2, BoundsAssumption
  <2> QED BY <2>2, <2>3 DEF Invariant, TypeOK, FileHasNoBrackets
<1>4. CASE UNCHANGED vars
  BY <1>4 DEF vars, Invariant, TypeOK, FileHasNoBrackets
<1> QED BY <1>1, <1>2, <1>3, <1>4 DEF Next, reconcileConfig

-----------------------------------------------------------------------------
(* What customers keep.                                                    *)

(* The update of a framed file changes its first tag and nothing else.     *)
LEMMA KeptStep ==
  ASSUME NoBrackets, Invariant, Update, NEW n \in DOMAIN file, Framed(file, n)
  PROVE  file' = [i \in 1..n |-> IF i = 1 THEN Plain("match") ELSE file[i]]
<1>1. /\ file \in Seq(AllLines) /\ ~Misformatted(file) /\ file' = BuildWithSIEMConfigs(file)
      /\ n \in Nat /\ n >= 3 /\ file[n] = Plain("end")
  BY DEF Invariant, TypeOK, Update, Framed
<1>2. FindMatch(OwnData(file)) = <<1, n>>
  BY <1>1, FramedIsCaptured DEF Invariant, FileHasNoBrackets
<1> DEFINE ij == FindMatch(OwnData(file))
<1>3. /\ file' \in Seq(AllLines)
      /\ Len(file') = ij[2] - ij[1] + 1
      /\ file'[1] = Plain("match")
      /\ file'[ij[2] - ij[1] + 1] = Plain("end")
      /\ \A m \in 2..(ij[2] - ij[1]) : file'[m] = file[ij[1] + m - 1]
  BY <1>1, BuiltFacts
<1>4. ij[1] = 1 /\ ij[2] = n
  BY <1>2
<1> HIDE DEF ij
<1>5. n - 1 + 1 = n /\ \A m \in 2..(n - 1) : 1 + m - 1 = m
  BY <1>1
<1>6. /\ Len(file') = n /\ file'[1] = Plain("match") /\ file'[n] = Plain("end")
      /\ \A m \in 2..(n - 1) : file'[m] = file[m]
  BY <1>3, <1>4, <1>5
<1>7. file' = [i \in 1..n |-> file'[i]]
  BY <1>3, <1>6
<1>8. ASSUME NEW i \in 1..n
      PROVE  file'[i] = IF i = 1 THEN Plain("match") ELSE file[i]
  <2>1. i = 1 \/ i = n \/ i \in 2..(n - 1)
    BY <1>1
  <2> QED BY <1>1, <1>6, <2>1
<1> HIDE DEF ij
<1>9. [i \in 1..n |-> file'[i]] = [i \in 1..n |-> IF i = 1 THEN Plain("match") ELSE file[i]]
  BY <1>8
<1> QED BY <1>7, <1>9

(* Whatever customers put into their files, brackets too, a file stays a   *)
(* sequence of lines that is not longer than allowed: what the operator    *)
(* captures and puts back between its tags is never more than was there.   *)
THEOREM TypeCorrect == Spec => []TypeOK
<1>1. Init => Invariant
  BY InvariantInit
<1>2. Invariant /\ [Next]_vars => Invariant'
  BY InvariantStep
<1>3. Invariant => TypeOK
  BY DEF Invariant
<1> QED BY <1>1, <1>2, <1>3, PTL DEF Spec

(* Customers keep their configs as long as no line holds a "]" and their   *)
(* own lines start with a match tag that ends its line and end with the    *)
(* line </match>: the update replaces the first tag and keeps the rest.    *)
THEOREM FramedFilesAreKept == ASSUME NoBrackets PROVE Spec => FramedIsKept
<1>1. Init => Invariant
  BY InvariantInit
<1>2. Invariant /\ [Next]_vars => Invariant'
  BY InvariantStep
<1>3. Invariant /\ [Next]_vars =>
        [\A n \in DOMAIN file :
           Update /\ Framed(file, n) =>
             file' = [i \in 1..n |-> IF i = 1 THEN Plain("match") ELSE file[i]]]_vars
  BY KeptStep
<1> QED BY <1>1, <1>2, <1>3, PTL DEF Spec, FramedIsKept

(* Such a file never ends the pass with the error that would keep the      *)
(* chain's later children from being looked at.                            *)
THEOREM FramedFilesAreServed == ASSUME NoBrackets PROVE Spec => []FramedIsServed
<1>1. Init => Invariant
  BY InvariantInit
<1>2. Invariant /\ [Next]_vars => Invariant'
  BY InvariantStep
<1>3. Invariant => FramedIsServed
  BY FramedIsCaptured DEF Invariant, TypeOK, FileHasNoBrackets, FramedIsServed
<1> QED BY <1>1, <1>2, <1>3, PTL DEF Spec
=============================================================================

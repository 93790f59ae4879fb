---------------------------- MODULE OutputConfig ----------------------------
(***************************************************************************)
(* The ConfigMap of one output plugin (splunk or syslog) of AuditLogging,  *)
(* whose contents belong to the customer: reconcileConfig only sees to the *)
(* match tags of its first section, and otherwise means to keep what it    *)
(* finds.                                                                  *)
(*                                                                         *)
(* A file is a sequence of lines, a line is what the regular expressions   *)
(* can tell of it; no line is empty.  Older releases had other match tags  *)
(* and a last section for kube-audit.  A pass is one step here.            *)
(***************************************************************************)
EXTENDS Naturals, Sequences

CONSTANTS
  Plugin,  \* "splunk" or "syslog"
  Lines,   \* the lines customers write
  MaxLines \* bound on the length of a file

(* The tags of sections: <match> with the expected matches, with others,   *)
(* that of kube-audit, </match>, and those of other sections, such as      *)
(* <filter> and </filter>.  Any other line: an indented tag of the plugin, *)
(* such as <buffer> or </store>, a line that holds a "]", and the rest.    *)
Opening == {"match", "other", "kube", "section"}
Tags    == Opening \cup {"end", "endsection"}
Body    == {"tag", "bracket", "text"}

(* A tag is all of its line, or spaces precede it, or more text follows it, *)
(* or the line is commented out; body lines are plain or commented out.    *)
Forms    == {"plain", "indented", "trailed", "commented"}
AllLines == [what : Tags \cup Body, form : Forms]
Plain(w) == [what |-> w, form |-> "plain"]

ASSUME PluginAssumption == Plugin \in {"splunk", "syslog"}
ASSUME LinesAssumption  == Lines \subseteq AllLines
ASSUME BoundsAssumption == MaxLines \in Nat /\ MaxLines >= 6  \* the default file fits

VARIABLES
  exists,  \* the ConfigMap is there
  file,    \* its lines
  refused  \* the last pass ended with an error for this ConfigMap

vars == <<exists, file, refused>>

TypeOK ==
  /\ exists \in BOOLEAN /\ refused \in BOOLEAN
  /\ file \in Seq(AllLines) /\ Len(file) <= MaxLines
  /\ ~exists => file = <<>>

Init == exists = FALSE /\ file = <<>> /\ refused = FALSE

-----------------------------------------------------------------------------
(* Reading and rewriting a file.                                           *)

BuildConfigMap ==
  IF Plugin = "splunk"
  THEN <<Plain("match"), Plain("text"), Plain("end")>>
  ELSE <<Plain("match"), Plain("text"), Plain("tag"), Plain("text"), Plain("tag"), Plain("end")>>

(* The expected matches are looked for in any place, comments too.         *)
EqualMatchTags(f) == \E n \in DOMAIN f : f[n].what = "match"

(* What comes before the first mention of kube-audit's tag.  What precedes *)
(* the tag in its own line is left out: it can be no part of a match.      *)
removeK8sAudit(f) ==
  IF \E n \in DOMAIN f : f[n].what = "kube"
  THEN LET k == CHOOSE n \in DOMAIN f :
                  f[n].what = "kube" /\ \A m \in 1..(n - 1) : f[m].what # "kube"
       IN  SubSeq(f, 1, k - 1)
  ELSE f

(* The matches of ">\n([^]]+)\n<": from the end of a line i that ends with *)
(* ">" to the start of a line j that starts with "<", with no "]" between. *)
EndsTag(l)   == l.what \in Tags \cup {"tag"} /\ l.form # "trailed"
StartsTag(l) == l.what \in Tags /\ l.form \in {"plain", "trailed"}
Matches(f) ==
  {ij \in (DOMAIN f) \X (DOMAIN f) :
     /\ ij[2] >= ij[1] + 2
     /\ EndsTag(f[ij[1]]) /\ StartsTag(f[ij[2]])
     /\ \A n \in (ij[1] + 1)..(ij[2] - 1) : f[n].what # "bracket"}

(* The leftmost match, and of those the longest.                           *)
ShortestMatch(f) ==  \* mutant: a lazy quantifier
  CHOOSE ij \in Matches(f) : \A kl \in Matches(f) :
    ij[1] < kl[1] \/ (ij[1] = kl[1] /\ ij[2] <= kl[2])
FindMatch(f) ==
  CHOOSE ij \in Matches(f) : \A kl \in Matches(f) :
    ij[1] < kl[1] \/ (ij[1] = kl[1] /\ ij[2] >= kl[2])

OwnData(f)      == IF Plugin = "splunk" THEN f ELSE removeK8sAudit(f)
MisformattedOneLiner(f) == \A ij \in Matches(OwnData(f)) : ij[2] = ij[1] + 2  \* mutant: two lines wanted
Misformatted(f) == Matches(OwnData(f)) = {}

TagsDoubled(f) ==  \* mutant: the tags are left in the captured part
  LET ij == FindMatch(OwnData(f))
  IN  <<Plain("match")>> \o SubSeq(OwnData(f), ij[1], ij[2]) \o <<Plain("end")>>
(* The captured lines between a match tag and its end tag, whatever tags   *)
(* they were found between.                                                *)
BuildWithSIEMConfigs(f) ==
  LET ij == FindMatch(OwnData(f))
  IN  <<Plain("match")>> \o SubSeq(OwnData(f), ij[1] + 1, ij[2] - 1) \o <<Plain("end")>>

-----------------------------------------------------------------------------
(* reconcileConfig for this ConfigMap.                                     *)

Create ==
  /\ ~exists
  /\ exists' = TRUE /\ file' = BuildConfigMap /\ refused' = FALSE

Update ==
  /\ exists /\ ~EqualMatchTags(file) /\ ~Misformatted(file)
  /\ file' = BuildWithSIEMConfigs(file) /\ refused' = FALSE
  /\ UNCHANGED exists

(* The error ends the pass: no later child of the chain is looked at.      *)
Refuse ==
  /\ exists /\ ~EqualMatchTags(file) /\ Misformatted(file)
  /\ refused' = TRUE
  /\ UNCHANGED <<exists, file>>

Accept ==
  /\ exists /\ EqualMatchTags(file)
  /\ refused' = FALSE
  /\ UNCHANGED <<exists, file>>

reconcileConfig == Create \/ Update \/ Refuse \/ Accept

-----------------------------------------------------------------------------
(* Customers, and the releases before this one: any file can come about.   *)

AppendsLine ==
  /\ exists /\ Len(file) < MaxLines
  /\ \E l \in Lines : file' = Append(file, l)
  /\ UNCHANGED <<exists, refused>>

RemovesLine ==
  /\ exists
  /\ \E n \in DOMAIN file :
       file' = SubSeq(file, 1, n - 1) \o SubSeq(file, n + 1, Len(file))
  /\ UNCHANGED <<exists, refused>>

DeletesFile ==
  /\ exists
  /\ exists' = FALSE /\ file' = <<>>
  /\ UNCHANGED refused

Next == reconcileConfig \/ AppendsLine \/ RemovesLine \/ DeletesFile

Spec == Init /\ [][Next]_vars

-----------------------------------------------------------------------------
(* Correctness.                                                            *)

(* Line n is behind the tag of kube-audit's section, which older releases  *)
(* wrote last and the syslog file loses.                                   *)
OfKubeAudit(f, n) == Plugin = "syslog" /\ \E m \in 1..n : f[m].what = "kube"

(* The customers' own lines are the first n, and start with a match tag    *)
(* that ends its line and end with the line </match>.                      *)
Framed(f, n) ==
  /\ n >= 3 /\ ~OfKubeAudit(f, n) /\ (n = Len(f) \/ OfKubeAudit(f, n + 1))
  /\ f[1].what \in {"match", "other"} /\ f[1].form \in {"plain", "indented"}
  /\ f[n] = Plain("end")

(* "Keep customer SIEM configs", as far as the code does: of such lines    *)
(* the update replaces the first tag, and every other one stays as it is   *)
(* where it is, whatever sections, tags and comments come between.         *)
FramedIsKept ==
  [][\A n \in DOMAIN file :
       Update /\ Framed(file, n) =>
         file' = [i \in 1..n |-> IF i = 1 THEN Plain("match") ELSE file[i]]]_vars

(* Nor is such a file ever refused: the error would come again in every    *)
(* pass and keep it from the children after this one.                      *)
FramedIsServed == \A n \in DOMAIN file : Framed(file, n) => ~Misformatted(file)

(* Some of the files that fluentd can use, and by far not only framed      *)
(* ones: sections that are not empty, without tags of their own in them,   *)
(* and comments anywhere.  Their tags may be indented or followed by text. *)
Comment(l) == l.form = "commented"
Content(l) == l.what \in Body /\ ~Comment(l)
Opens(l)   == l.what \in Opening /\ ~Comment(l)
Closes(l)  == l.what \in {"end", "endsection"} /\ ~Comment(l)
Fits(l, m) == (l.what = "section") <=> (m.what = "endsection")
Open(f, m, n) == m < n /\ Opens(f[m]) /\ \A i \in (m + 1)..(n - 1) : ~Opens(f[i]) /\ ~Closes(f[i])
Usable(f) ==
  /\ \E n \in DOMAIN f : f[n].what \in {"match", "other"} /\ Opens(f[n])
  /\ \A n \in DOMAIN f :
       LET inside == {m \in DOMAIN f : Open(f, m, n)}
       IN  CASE Comment(f[n]) -> TRUE
             [] Opens(f[n])   -> inside = {} /\ \E m \in DOMAIN f : Closes(f[m]) /\ Open(f, n, m)
             [] Closes(f[n])  -> \E m \in inside : Fits(f[m], f[n]) /\ \E i \in m..n : Content(f[i])
             [] OTHER         -> inside # {} /\ f[n].what # "tag"

(* "Keep customer SIEM configs": nothing but match tags goes missing from  *)
(* a file that fluentd can use when its match tags are rewritten.          *)
ConfigsAreKept ==
  [][Update /\ Usable(file) =>
       \A n \in DOMAIN file :
         \/ file[n].what \in {"other", "end"} \/ OfKubeAudit(file, n)
         \/ \E i \in DOMAIN file' : file'[i] = file[n]]_vars
=============================================================================

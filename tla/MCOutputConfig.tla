--------------------------- MODULE MCOutputConfig ---------------------------
(* Instances of OutputConfig: the lines customers write.                   *)
EXTENDS OutputConfig

(* Lines of every sort that the expressions tell apart, but none with "]". *)
MixedLines == {Plain("match"), Plain("other"), [what |-> "other", form |-> "indented"],
               [what |-> "section", form |-> "trailed"], Plain("kube"), Plain("end"), Plain("text")}

(* Sections whose lines may hold a "]".                                    *)
BracketLines == {Plain("other"), Plain("end"), Plain("text"), Plain("bracket")}
=============================================================================

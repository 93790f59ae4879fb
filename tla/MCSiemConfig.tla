---------------------------- MODULE MCSiemConfig ----------------------------
(* Blocks of every kind EqualSIEMConfig and the Build functions tell apart.*)
EXTENDS SiemConfig

MCTexts == {"", "0", "off", "on", "placeholder", "expanded", "siem", "8088", "token", "other"}

Block(e, h, p, t, m) ==
  [enable |-> e, val |-> [f \in Fields |-> CASE f = Host -> h [] f = Port -> p
                                             [] f = Ident -> t [] f = Mode -> m]]

Siem  == Plain("siem")
P8088 == Plain("8088")
Token == Plain("token")
On    == Plain("on")

(* Omitted, complete, complete with other values, enabled but empty, and   *)
(* without a port.                                                         *)
PlainBlocks ==
  {Omitted, Block(TRUE, Siem, P8088, Token, On), Block(FALSE, Plain("other"), P8088, Token, Off),
   Block(TRUE, Empty, Zero, Empty, Off), Block(TRUE, Siem, Zero, Token, On)}

(* A line of one field with more words after the value, another with a     *)
(* wrong value, and a comment that names two fields.                       *)
UserLines ==
  {<<Mark(Host, [Siem EXCEPT !.spaced = TRUE])>>, <<Mark(Mode, Plain("other"))>>,
   <<Mark(Host, Plain("other")), Mark(Port, P8088)>>}

(* A token that holds a "$", as generated secrets do.                      *)
DollarBlocks == {Block(TRUE, Siem, P8088, [text |-> "token", spaced |-> FALSE, dollar |-> TRUE], On)}
=============================================================================

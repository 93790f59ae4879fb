\* Blocks of plain words, and lines that hold one field, or two.
CONSTANTS
  Texts <- MCTexts
  Blocks <- PlainBlocks
  Lines <- UserLines
  MaxUserActs = 4
SPECIFICATION Spec
INVARIANTS TypeOK SettlesInFourWrites WritesInvariant
\* A settled file is left alone.
CHECK_DEADLOCK FALSE

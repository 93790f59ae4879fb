\* A token that holds a "$".
CONSTANTS
  Texts <- MCTexts
  Blocks <- DollarBlocks
  Lines <- UserLines
  MaxUserActs = 2
SPECIFICATION Spec
INVARIANT SettlesInFourWrites
\* A settled file is left alone.
CHECK_DEADLOCK FALSE

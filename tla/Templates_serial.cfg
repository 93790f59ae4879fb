\* The passes of the two controllers do not overlap.
CONSTANTS
  Chain <- SerialChain
  Overlap = FALSE
  Filtered = TRUE
  Confs <- ThreeConfs
  MaxUserActs = 2
SPECIFICATION FairSpec
INVARIANTS TypeOK SettledIsOwn InductiveInvariant
PROPERTIES RestsUnlessStuck RepairsAreAccepted
\* Both controllers may rest for good.
CHECK_DEADLOCK FALSE

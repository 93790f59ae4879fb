\* They do.
CONSTANTS
  Chain <- FluentdChain
  Overlap = TRUE
  Filtered = FALSE
  Confs <- TwoConfs
  MaxUserActs = 1
SPECIFICATION Spec
INVARIANTS SettledIsOwn
\* Both controllers may rest for good.
CHECK_DEADLOCK FALSE

\* The CR is edited, deleted and created again, and one fault, under fairness.
CONSTANTS
  Chain <- ConfigChain
  Specs <- ConfigSpecs
  Touched = {}
  Foreign = {}
  Wipes = {}
  MaxUserActs = 2
  MaxFaults = 1
SPECIFICATION RecordedSpec
INVARIANTS PodsFollowConfig ServedInvariant
PROPERTY EventuallyQuiet
\* The operator may come to rest for good.
CHECK_DEADLOCK FALSE

\* A user wipes the data of a ConfigMap, once.
CONSTANTS
  Chain <- ConfigChain
  Specs <- OneSpec
  Touched = {"config"}
  Foreign = {}
  Wipes = {"config"}
  MaxUserActs = 1
  MaxFaults = 0
SPECIFICATION FairSpec
PROPERTY DriftIsRepaired
\* The operator may come to rest for good.
CHECK_DEADLOCK FALSE

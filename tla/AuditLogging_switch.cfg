\* The switch is moved and the children are edited while passes run.
CONSTANTS
  Chain <- SwitchChain
  Specs <- SwitchSpecs
  Touched = {"config", "splunk", "ds"}
  Foreign = {"policy"}
  Wipes = {"config", "splunk"}
  MaxUserActs = 2
  MaxFaults = 1
SPECIFICATION Spec
INVARIANTS TypeOK RestIsSettled InductiveInvariant
PROPERTIES DefaultYields CustomersDataKept ImplementsDesiredState
\* The operator may come to rest for good.
CHECK_DEADLOCK FALSE

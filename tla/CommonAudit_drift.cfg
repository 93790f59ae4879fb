\* Edits, deletions, wiped data, a Secret users create too, spec changes, and two
\* faults.
CONSTANTS
  Chain <- DriftChain
  Specs <- TwoSpecs
  Touched = {"splunk", "deploy"}
  Foreign = {"secret"}
  Wipes = {"splunk"}
  MaxUserActs = 2
  MaxFaults = 2
SPECIFICATION Spec
INVARIANTS TypeOK QuiescentIsSettled PrerequisitesFirst InductiveInvariant OrderInvariant
PROPERTIES WritesKeepUnmanagedData ImplementsDesiredState
\* The operator may come to rest for good.
CHECK_DEADLOCK FALSE

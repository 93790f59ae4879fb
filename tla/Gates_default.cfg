\* An AuditLogging and two CommonAudits in its namespace; Lists may fail.
CONSTANTS
  a1 = a1
  c1 = c1
  c2 = c2
  AuditLoggings = {a1}
  CommonAudits = {c1, c2}
  CSNamespaced = {c1, c2}
  Resynced = {"AL", "CA"}
  ListsFail = TRUE
  MaxUserActs = 3
  MaxFaults = 1
SPECIFICATION FairSpec
INVARIANTS TypeOK NeverAlongside RestartOpensNoGate InductiveInvariant
PROPERTIES SurvivorProceeds RivalsAreRefused
\* Users stop, and the resources are at rest.
CHECK_DEADLOCK FALSE

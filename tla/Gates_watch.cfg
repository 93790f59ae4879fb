\* The watch-namespace mode: the AuditLogging informer never resyncs.
CONSTANTS
  a1 = a1
  c1 = c1
  c2 = c2
  AuditLoggings = {a1}
  CommonAudits = {c1}
  CSNamespaced = {c1}
  Resynced = {"CA"}
  ListsFail = FALSE
  MaxUserActs = 3
  MaxFaults = 0
SPECIFICATION FairSpec
PROPERTY SurvivorProceeds
\* Users stop, and the resources are at rest.
CHECK_DEADLOCK FALSE

------------------------------ MODULE MCGates ------------------------------
(* Gates with one AuditLogging and two CommonAudits, as model values.      *)
EXTENDS Gates
CONSTANTS a1, c1, c2
=============================================================================

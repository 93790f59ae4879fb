---------------------------- MODULE MCFluentdPods ----------------------------
(* FluentdPods with the constants of MCCommonAudit.                        *)
EXTENDS FluentdPods, MCCommonAudit
=============================================================================

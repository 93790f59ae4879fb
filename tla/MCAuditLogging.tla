--------------------------- MODULE MCAuditLogging ---------------------------
(***************************************************************************)
(* Constants for model checking AuditLogging.                              *)
(***************************************************************************)
EXTENDS AuditLogging

\* The policy controller, a ConfigMap whose update restarts pods, an output
\* config that may be refused and the DaemonSet behind them.
SwitchChain == SelectSeq(FullChain, LAMBDA k : k \in {"policy", "config", "splunk", "ds"})

\* The switch in its three positions, and with it the rest of the spec.  The
\* default of the switch leads to a fourth spec.
SwitchSpecs == {[policy |-> "", conf |-> "a"], [policy |-> "false", conf |-> "a"],
                [policy |-> "true", conf |-> "b"]}
=============================================================================

--------------------------- MODULE MCCommonAudit ---------------------------
(***************************************************************************)
(* Constants for model checking CommonAudit.  A specification asks one     *)
(* setting of each child it reaches; the specs below differ where a run    *)
(* needs them to.                                                          *)
(***************************************************************************)
EXTENDS CommonAudit

SpecWith(config, splunk, deploy) ==
  [k \in SpecKinds |-> CASE k = "config" -> config [] k = "splunk" -> splunk
                         [] k = "deploy" -> deploy [] OTHER -> "unset"]

\* The spec changes the deployment and drops Splunk.
TwoSpecs == {SpecWith("a", "a", "a"), SpecWith("b", "unset", "b")}

\* The spec changes both configurations and leaves the deployment alone.
ConfigSpecs == {SpecWith("a", "a", "a"), SpecWith("b", "b", "a")}

\* An output config, which is updated or, when fields are missing, deleted, a
\* child that is only created, and the deployment.
DriftChain == SelectSeq(FullChain, LAMBDA k : k \in {"splunk", "secret", "deploy"})

\* Two ConfigMaps and the deployment that mounts them.
ConfigChain == SelectSeq(FullChain, LAMBDA k : k \in {"config", "splunk", "deploy"})

OneSpec == {SpecWith("a", "a", "a")}
============================================================================

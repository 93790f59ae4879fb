------------------------------ MODULE MCTemplates ------------------------------
(* Constants for model checking Templates.                                 *)
EXTENDS Templates

Conf(pull, resources, replicas, aliases, rest) ==
  [pull |-> pull, resources |-> resources, replicas |-> replicas,
   aliases |-> aliases, rest |-> rest]

\* The objects whose builders share the container.
FluentdChain == [c \in Controllers |-> SelectSeq(FullChain[c], LAMBDA o : o \in Fluentd)]

\* Without the Secret, which is only created, and the policy controller's Deployment,
\* which is dealt with as the DaemonSet is but shares no container.
SerialChain ==
  [c \in Controllers |-> SelectSeq(FullChain[c], LAMBDA o : o \notin {"secret", "policy"})]

\* Two CRs that differ in everything.
Small == Conf("", <<0, 0>>, 0, "none", "a")
Large == Conf("PullNever", <<0, 2>>, 3, "valid", "b")
TwoConfs == {Small, Large}

\* And one that the operator cannot settle, for both of the reasons a CR can have.
Hopeless   == Conf("Never", <<0, 4>>, 0, "invalid", "a")
ThreeConfs == TwoConfs \cup {Hopeless}
=============================================================================

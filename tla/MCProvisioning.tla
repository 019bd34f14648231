---------------------------- MODULE MCProvisioning ---------------------------
(***************************************************************************)
(* Instances of Provisioning for TLC: two runs that share a cache root,    *)
(* without and with a third one that has another.                          *)
(***************************************************************************)
EXTENDS Provisioning

CONSTANTS a, b, c, here, there

TwoBuilders == {a, b}
OneRoot == {here}
SharedRoot == [x \in TwoBuilders |-> here]

\* Two lessons under runs/, a module of a course under the course's directory.
ThreeBuilders == {a, b, c}
TwoRoots == {here, there}
RootOfEach == [x \in ThreeBuilders |-> IF x = c THEN there ELSE here]

=============================================================================

----------------------------- MODULE MCFrontDoor -----------------------------
(***************************************************************************)
(* An instance of FrontDoor for TLC: a course of three modules, and a drop *)
(* that makes of it one that does not cover what was requested, a lesson,  *)
(* and an empty plan.                                                      *)
(***************************************************************************)
EXTENDS FrontDoor

CONSTANT negative  \* -1, or any number that is refused

Mod(name, order, prerequisites, capabilities, mode) ==
  [title |-> <<name>>, order |-> order, prerequisites |-> {<<n>> : n \in prerequisites},
   capabilities |-> capabilities, mode |-> mode]

Names == {"A", "B", "C"}
Capabilities == {"a", "b"}

Course == <<Mod("A", 0, {}, {"a"}, "executable"), Mod("B", 1, {"A"}, {"b"}, Undecided),
            Mod("C", 2, {"A"}, {"b"}, Undecided)>>
Plans == {Course}

Edits == {[op |-> "drop", targets |-> <<0>>, word |-> Undecided]}

Numbers == {1}
Refusals == {negative}

=============================================================================

------------------------------ MODULE MCPlanGate -----------------------------
(***************************************************************************)
(* Instances of PlanGate for TLC: plans of one to four modules, with the  *)
(* prerequisites, modes and slips a planner may answer with.               *)
(***************************************************************************)
EXTENDS PlanGate

Mod(name, order, prerequisites, capabilities, mode) ==
  [title |-> <<name>>, order |-> order, prerequisites |-> {<<n>> : n \in prerequisites},
   capabilities |-> capabilities, mode |-> mode]

Names == {"A", "B", "C"}
Capabilities == {"a", "b", "c"}

Chain ==
  <<Mod("A", 0, {}, {"a"}, "conceptual"),
    Mod("B", 1, {"A"}, {"b"}, "executable"),
    Mod("C", 2, {"B"}, {"c"}, "artifact")>>
Fan ==
  <<Mod("A", 0, {}, {"a", "b"}, Undecided),
    Mod("B", 1, {"A"}, {"b"}, "artifact"),
    Mod("C", 2, {"A"}, {"c"}, "executable")>>
Single == <<Mod("A", 0, {}, {"a", "b"}, Undecided)>>
\* Two modules of one title, a prerequisite nobody has, one that comes later.
Slips ==
  <<Mod("A", 0, {"C"}, {"a"}, "executable"),
    Mod("A", 1, {"B"}, {"b"}, "conceptual"),
    Mod("B", 2, {"A"}, {"c"}, "executable")>>
\* Two titles twice: a second merge makes a title that is there already.
Twice ==
  <<Mod("A", 0, {}, {"a"}, "executable"),
    Mod("B", 1, {"A"}, {"b"}, "conceptual"),
    Mod("A", 2, {"B"}, {"c"}, Undecided),
    Mod("B", 3, {"A"}, {"b"}, "artifact")>>

AnyPlan == {Chain, Fan, Single, Slips, Twice}

\* Lists of at most two numbers, one of them too large, and the permutations.
Lists ==
  BoundedSeq(-1 .. 3, 2) \cup {s \in [1 .. 3 -> 0 .. 2] : ToSet(s) = 0 .. 2}

=============================================================================

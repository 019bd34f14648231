----------------------------- MODULE MCCourseRun -----------------------------
(***************************************************************************)
(* Instances of CourseRun for TLC: two modules, a planner that fails or    *)
(* plans one or two further modules, and six command lines.                *)
(***************************************************************************)
EXTENDS CourseRun

Titles == {"A", "B", "R", "S"}
Objectives == {"a", "b"}

Confirmed ==
  <<[title |-> "A", order |-> 0, objectives |-> {"a"}, prerequisites |-> {}, remedy |-> {}],
    [title |-> "B", order |-> 1, objectives |-> {"b"}, prerequisites |-> {"A"},
     remedy |-> {}]>>

R == [title |-> "R", objectives |-> {"a"}]
S == [title |-> "S", objectives |-> {"b"}]
Answers == {<<>>, <<R>>, <<R, S>>}
OneAnswer == {<<R>>}

CommandLines ==
  {[modules |-> All, depth |-> 0], [modules |-> All, depth |-> 1], [modules |-> 3, depth |-> 2],
   [modules |-> 4, depth |-> 2], [modules |-> 1, depth |-> 1], [modules |-> -1, depth |-> 1]}
OneRound == {[modules |-> All, depth |-> 1]}

=============================================================================

--------------------------- MODULE MCLessonPipeline --------------------------
(***************************************************************************)
(* Instances of LessonPipeline for TLC: budgets, and small sets of answers *)
(* that between them reach every rule of the cascade.                      *)
(***************************************************************************)
EXTENDS LessonPipeline

OneOfEach == [s \in Target |-> 1]
DefaultBudget ==
  [s \in Target |-> CASE s = "planner" -> 2 [] s = "code_author" -> 3 [] OTHER -> 1]

\* The steps OneOfEach allows with provisioning on.
OneOfEachSteps == 24
\* The limit of the LangGraph releases that ship with 25.
LowLimit == 25

Rubric(correctness, others) ==
  [d \in Dimension |-> IF d = "correctness" THEN correctness ELSE others]
Fit == [fit |-> TRUE, problems |-> {}]
Misfit(problem) == [fit |-> FALSE, problems |-> {problem}]
Found(severity, scope) == {[severity |-> severity, scope |-> scope]}

Unusable ==
  [usable |-> FALSE, quality_score |-> 0, rubric |-> None, findings |-> {}, goal_fit |-> None]
Answer(rubric, findings, goal_fit) ==
  [usable |-> TRUE, quality_score |-> 0, rubric |-> rubric, findings |-> findings,
   goal_fit |-> goal_fit]

Good == Answer(Rubric(90, 90), Found("NITPICK", "content"), Fit)
Weak == Answer(Rubric(76, 76), {}, Misfit("overwhelming"))
Lost == Answer(Rubric(90, 90), Found("BLOCKER", "structure"), None)

Silent == Answer(None, {}, None)
Wrong == Answer(None, Found("HIGH", "code"), Fit)
Drifted == Answer(None, {}, Misfit("drifted"))

RichStudent == {Good, Weak, Lost, Unusable}
RichReviewer == {Silent, Wrong, Unusable}
ThinStudent == {Good, Weak}
ThinReviewer == {Silent, Drifted}

=============================================================================

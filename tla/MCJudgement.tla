----------------------------- MODULE MCJudgement -----------------------------
(***************************************************************************)
(* Answers for Judgement: every verdict on the fit, rubrics on both sides  *)
(* of the fatal floor and of the threshold, findings that matter to a rule *)
(* and findings that are coerced away from it.                             *)
(***************************************************************************)
EXTENDS Judgement

Flat(score) == [d \in Dimension |-> score]
Rubrics == {None, Flat(90), Flat(79), Flat(75), Flat(80),
            [Flat(95) EXCEPT !["correctness"] = 74],
            [Flat(95) EXCEPT !["learner_fit"] = 74]}

Findings ==
  {{}} \cup {{[severity |-> p[1], scope |-> p[2]]} :
     p \in {<<"BLOCKER", "structure">>, <<"BLOCKER", "content">>, <<"HIGH", "code">>,
            <<"CONFUSING", "code">>, <<"BLOCKER", "other">>}}

Verdicts ==
  {None} \cup {[fit |-> p[1], problems |-> p[2]] :
     p \in BOOLEAN \X {{}, {"drifted"}, {"overwhelming"}, {"drifted", "insufficient"}}}

Unusable ==
  [usable |-> FALSE, quality_score |-> 0, rubric |-> None, findings |-> {}, goal_fit |-> None]

SomeStudentAnswers ==
  {Unusable} \cup [usable : {TRUE}, quality_score : {200, 450}, rubric : Rubrics,
                   findings : Findings, goal_fit : Verdicts]

SomeReviewerAnswers ==
  {Unusable} \cup [usable : {TRUE}, quality_score : {0}, rubric : {None},
                   findings : Findings, goal_fit : Verdicts]

=============================================================================

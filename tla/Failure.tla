------------------------------- MODULE Failure -------------------------------
(***************************************************************************)
(* How one pass of the lesson pipeline is judged: what the two critics'    *)
(* answers become once they are parsed, coerced and merged, and the        *)
(* priority cascade that turns the merged evidence into one category       *)
(* (forged/pipeline/failure.py with the readers of agents/reviser.py and   *)
(* the parsers of agents/student.py and agents/reviewer.py).               *)
(*                                                                         *)
(* Everything here is a pure operator.  Wording (texts, reasons, matched   *)
(* signals, locations) is abstracted away: no route depends on it.  Scores *)
(* are counted in fifths of a point, so that the mean of the five rubric   *)
(* dimensions stays an integer.                                            *)
(***************************************************************************)
EXTENDS Integers, FiniteSets

CONSTANT None   \* an absent report, rubric or verdict (Python's None)

(***************************************************************************)
(* Vocabulary.                                                             *)
(***************************************************************************)
LessonMode == {"executable", "artifact", "conceptual"}

Severity == {"BLOCKER", "HIGH", "MEDIUM", "LOW"}
Scope == {"plan", "structure", "code", "content", "unknown"}
Evidence == [severity : Severity, scope : Scope]

\* What a model may write where the persona asks for a severity or a scope.
RawSeverity == Severity \cup {"CONFUSING", "NITPICK", "other"}
RawScope == Scope \cup {"other"}
RawFinding == [severity : RawSeverity, scope : RawScope]

GoalFitProblem == {"drifted", "overwhelming", "insufficient"}
GoalFitVerdict == [fit : BOOLEAN, problems : SUBSET GoalFitProblem]

Dimension ==
  {"structure", "explanation_depth", "code_clarity", "correctness", "learner_fit"}
\* Mutation: every dimension is a matter of prose.
NoCodeDimension == {}
CodeDimension == {"correctness"}
RubricScores == [Dimension -> 0..100]
FatalDimensionFloor == 75

QualityThreshold == 5 * 80      \* in fifths of a point
Score == 0..500                 \* in fifths of a point

FailureCategory == {"BLOCKER_STRUCTURE", "CODE_QUALITY", "TEST_FAILURE",
                    "CONTENT_QUALITY", "ACCEPTABLE", "UNCLASSIFIABLE"}

\* The critics' answers as the model returned them.  usable is FALSE when the
\* call failed or its text is not a report with the required keys; rubric is
\* None when it is absent or not five numbers in range.
RawAnswer == [usable : BOOLEAN, quality_score : Score,
              rubric : RubricScores \cup {None},
              findings : SUBSET RawFinding,
              goal_fit : GoalFitVerdict \cup {None}]

GradeReport == [graded : BOOLEAN, quality_score : Score,
                rubric : RubricScores \cup {None},
                findings : SUBSET Evidence,
                goal_fit : GoalFitVerdict \cup {None}]

ReviewerReport == [reviewed : BOOLEAN, findings : SUBSET Evidence,
                   goal_fit : GoalFitVerdict \cup {None}]

ASSUME NoneAssumption ==
  /\ None \notin RubricScores
  /\ None \notin GoalFitVerdict
  /\ None \notin GradeReport
  /\ None \notin FailureCategory

(***************************************************************************)
(* Coercion of what a model wrote.                                         *)
(***************************************************************************)
CoerceSeverity(raw) ==
  CASE raw = "CONFUSING" -> "MEDIUM"
    [] raw = "NITPICK" -> "LOW"
    [] raw \in Severity -> raw
    [] OTHER -> "MEDIUM"

CoerceScope(raw) == IF raw \in Scope THEN raw ELSE "unknown"

FindingsFromJson(raw) ==
  {[severity |-> CoerceSeverity(f.severity), scope |-> CoerceScope(f.scope)] : f \in raw}

\* Mutation: the student keeps the label it was not offered.
CoerceGoalFitAsGiven(raw, allow_drift) == raw

CoerceGoalFit(raw, allow_drift) ==
  IF raw = None THEN None
  ELSE [fit |-> raw.fit,
        problems |-> IF allow_drift THEN raw.problems ELSE raw.problems \ {"drifted"}]

CompositeFifths(rubric) ==
  rubric["structure"] + rubric["explanation_depth"] + rubric["code_clarity"]
    + rubric["correctness"] + rubric["learner_fit"]

\* Mutation: a failed grader reports a neutral score.
FailedGradeNeutral == [graded |-> TRUE, quality_score |-> 250, rubric |-> None,
                       findings |-> {}, goal_fit |-> None]

FailedGrade == [graded |-> FALSE, quality_score |-> 0, rubric |-> None,
                findings |-> {}, goal_fit |-> None]

FailedReview == [reviewed |-> FALSE, findings |-> {}, goal_fit |-> None]

\* Mutation: the model's own score is kept beside its rubric.
ReadGradeReportAsStated(answer) ==
  IF ~answer.usable THEN FailedGrade
  ELSE [graded |-> TRUE, quality_score |-> answer.quality_score,
        rubric |-> answer.rubric,
        findings |-> FindingsFromJson(answer.findings),
        goal_fit |-> CoerceGoalFit(answer.goal_fit, FALSE)]

\* The student's answer as the reviser reads it back from the report artifact:
\* a usable rubric replaces the score the model stated for itself.
ReadGradeReport(answer) ==
  IF ~answer.usable THEN FailedGrade
  ELSE [graded |-> TRUE,
        quality_score |-> IF answer.rubric = None THEN answer.quality_score
                          ELSE CompositeFifths(answer.rubric),
        rubric |-> answer.rubric,
        findings |-> FindingsFromJson(answer.findings),
        goal_fit |-> CoerceGoalFit(answer.goal_fit, FALSE)]

\* The expert reviewer has no score; it is the only critic allowed to say
\* that the lesson drifted.
ReadReviewerReport(answer) ==
  IF ~answer.usable THEN FailedReview
  ELSE [reviewed |-> TRUE,
        findings |-> FindingsFromJson(answer.findings),
        goal_fit |-> CoerceGoalFit(answer.goal_fit, TRUE)]

(***************************************************************************)
(* Merging the two critics.                                                *)
(***************************************************************************)
\* Mutation: one critic's consent is enough.
MergedWithEither(verdict, other) ==
  IF other = None THEN verdict
  ELSE [fit |-> verdict.fit \/ other.fit,
        problems |-> verdict.problems \cup other.problems]

MergedWith(verdict, other) ==
  IF other = None THEN verdict
  ELSE [fit |-> verdict.fit /\ other.fit,
        problems |-> verdict.problems \cup other.problems]

\* Mutation: only the verdicts are merged.
MergeReviewerVerdict(grade, review) ==
  [grade EXCEPT !.goal_fit = IF @ = None THEN review.goal_fit
                             ELSE MergedWith(@, review.goal_fit)]

MergeReviewerFindings(grade, review) ==
  IF grade = None
  THEN IF review.findings = {} /\ review.goal_fit = None THEN None
       ELSE [graded |-> TRUE, quality_score |-> 500, rubric |-> None,
             findings |-> review.findings, goal_fit |-> review.goal_fit]
  ELSE [grade EXCEPT !.findings = @ \cup review.findings,
                     !.goal_fit = IF @ = None THEN review.goal_fit
                                  ELSE MergedWith(@, review.goal_fit)]

(***************************************************************************)
(* The checks of the cascade, each on a report that is present.            *)
(***************************************************************************)
HasBlockerInPlanScope(grade) ==
  \E f \in grade.findings : f.severity = "BLOCKER" /\ f.scope \in {"plan", "structure"}

HasHighSeverityCodeFinding(grade) ==
  \E f \in grade.findings : f.severity \in {"HIGH", "BLOCKER"} /\ f.scope = "code"

Unfit(grade) == grade.goal_fit # None /\ ~grade.goal_fit.fit

HasDrifted(grade) == Unfit(grade) /\ "drifted" \in grade.goal_fit.problems

HasWrongShape(grade) == Unfit(grade) /\ grade.goal_fit.problems # {}

FatalDimensions(grade) ==
  IF grade.rubric = None THEN {}
  ELSE {d \in Dimension : grade.rubric[d] < FatalDimensionFloor}

(***************************************************************************)
(* classify(): the first rule that applies wins.  exec is the execution    *)
(* report or None, grade the merged grade report or None, hollow whether   *)
(* the structural report refuses the executed notebook.                    *)
(***************************************************************************)
Classify(exec, grade, hollow, mode) ==
  LET given == grade # None
      ran == exec # None /\ exec.ok
      nothingToRun == exec = None /\ mode # "executable"
  IN  IF given /\ HasBlockerInPlanScope(grade) THEN "BLOCKER_STRUCTURE"
      ELSE IF exec # None /\ ~exec.ok THEN "CODE_QUALITY"
      ELSE IF given /\ ~grade.graded THEN "UNCLASSIFIABLE"
      ELSE IF given /\ HasHighSeverityCodeFinding(grade) THEN "TEST_FAILURE"
      ELSE IF given /\ HasDrifted(grade) THEN "BLOCKER_STRUCTURE"
      ELSE IF given /\ FatalDimensions(grade) \cap CodeDimension # {} THEN "TEST_FAILURE"
      ELSE IF given /\ FatalDimensions(grade) # {} THEN "CONTENT_QUALITY"
      ELSE IF given /\ HasWrongShape(grade) THEN "CONTENT_QUALITY"
      ELSE IF given /\ grade.quality_score < QualityThreshold THEN "CONTENT_QUALITY"
      ELSE IF (ran \/ nothingToRun) /\ hollow THEN "UNCLASSIFIABLE"
      ELSE IF ran \/ nothingToRun THEN "ACCEPTABLE"
      ELSE "UNCLASSIFIABLE"

=============================================================================

---------------------------- MODULE FailureProofs ----------------------------
(***************************************************************************)
(* Facts about the operators of Failure, for every answer of the critics.  *)
(***************************************************************************)
EXTENDS Failure, TLAPS

\* Whatever the student model answers, the reader makes a grade report of it.
LEMMA ReadGradeReportType ==
  ASSUME NEW answer \in RawAnswer
  PROVE  ReadGradeReport(answer) \in GradeReport
<1>1. FailedGrade \in GradeReport
  BY DEF FailedGrade, GradeReport, Score
<1>2. FindingsFromJson(answer.findings) \in SUBSET Evidence
  BY DEF RawAnswer, RawFinding, FindingsFromJson, CoerceSeverity, CoerceScope,
         Evidence, RawSeverity, RawScope, Severity, Scope
<1>3. CoerceGoalFit(answer.goal_fit, FALSE) \in GoalFitVerdict \cup {None}
  BY DEF RawAnswer, CoerceGoalFit, GoalFitVerdict
<1>4. ASSUME answer.rubric # None
      PROVE  CompositeFifths(answer.rubric) \in Score
  <2>1. answer.rubric \in RubricScores
    BY <1>4 DEF RawAnswer
  <2>2. \A d \in Dimension : answer.rubric[d] \in 0..100
    BY <2>1 DEF RubricScores
  <2> DEFINE a == answer.rubric["structure"]
             b == answer.rubric["explanation_depth"]
             c == answer.rubric["code_clarity"]
             d == answer.rubric["correctness"]
             e == answer.rubric["learner_fit"]
  <2>3. CompositeFifths(answer.rubric) = a + b + c + d + e
    BY DEF CompositeFifths
  <2>4. a \in 0..100 /\ b \in 0..100 /\ c \in 0..100 /\ d \in 0..100 /\ e \in 0..100
    BY <2>2 DEF Dimension
  <2> HIDE DEF a, b, c, d, e
  <2>5. a + b + c + d + e \in 0..500
    BY <2>4
  <2> QED
    BY <2>3, <2>5 DEF Score
<1>5. /\ answer.rubric \in RubricScores \cup {None}
      /\ answer.quality_score \in Score
  BY DEF RawAnswer
<1> QED
  BY <1>1, <1>2, <1>3, <1>4, <1>5 DEF ReadGradeReport, GradeReport

\* Whatever the reviewer model answers, the reader makes a review of it.
LEMMA ReadReviewerReportType ==
  ASSUME NEW answer \in RawAnswer
  PROVE  ReadReviewerReport(answer) \in ReviewerReport
<1>1. FailedReview \in ReviewerReport
  BY DEF FailedReview, ReviewerReport
<1>2. FindingsFromJson(answer.findings) \in SUBSET Evidence
  BY DEF RawAnswer, RawFinding, FindingsFromJson, CoerceSeverity, CoerceScope,
         Evidence, RawSeverity, RawScope, Severity, Scope
<1>3. CoerceGoalFit(answer.goal_fit, TRUE) \in GoalFitVerdict \cup {None}
  BY DEF RawAnswer, CoerceGoalFit, GoalFitVerdict
<1> QED
  BY <1>1, <1>2, <1>3 DEF ReadReviewerReport, ReviewerReport

\* Merging keeps the student's score, rubric and graded flag and the findings
\* of both critics.
LEMMA MergeFacts ==
  ASSUME NEW grade \in GradeReport, NEW review \in ReviewerReport
  PROVE  LET merged == MergeReviewerFindings(grade, review)
         IN  /\ merged \in GradeReport
             /\ merged.graded = grade.graded
             /\ merged.quality_score = grade.quality_score
             /\ merged.rubric = grade.rubric
             /\ merged.findings = grade.findings \cup review.findings
             /\ merged.goal_fit = IF grade.goal_fit = None THEN review.goal_fit
                                  ELSE MergedWith(grade.goal_fit, review.goal_fit)
<1> DEFINE merged == MergeReviewerFindings(grade, review)
           fit == IF grade.goal_fit = None THEN review.goal_fit
                  ELSE MergedWith(grade.goal_fit, review.goal_fit)
<1>1. grade # None
  BY NoneAssumption
<1>2. merged = [grade EXCEPT !.findings = @ \cup review.findings, !.goal_fit = fit]
  BY <1>1 DEF MergeReviewerFindings
<1>3. fit \in GoalFitVerdict \cup {None}
  BY DEF GradeReport, ReviewerReport, MergedWith, GoalFitVerdict
<1>4. /\ grade.findings \cup review.findings \in SUBSET Evidence
      /\ grade = [graded |-> grade.graded, quality_score |-> grade.quality_score,
                  rubric |-> grade.rubric, findings |-> grade.findings,
                  goal_fit |-> grade.goal_fit]
  BY DEF GradeReport, ReviewerReport
<1>5. merged = [graded |-> grade.graded, quality_score |-> grade.quality_score,
                rubric |-> grade.rubric,
                findings |-> grade.findings \cup review.findings, goal_fit |-> fit]
  BY <1>2, <1>4
<1>6. merged \in GradeReport
  BY <1>3, <1>4, <1>5 DEF GradeReport
<1> HIDE DEF merged, fit
<1>7. /\ merged.graded = grade.graded
      /\ merged.quality_score = grade.quality_score
      /\ merged.rubric = grade.rubric
      /\ merged.findings = grade.findings \cup review.findings
      /\ merged.goal_fit = fit
  BY <1>5
<1> QED
  BY <1>6, <1>7 DEF merged, fit

\* The merged verdict refuses a lesson with a named problem whenever one of
\* the two critics does.
LEMMA MergedShape ==
  ASSUME NEW grade \in GradeReport, NEW review \in ReviewerReport,
         HasWrongShape(grade) \/ HasWrongShape(review)
  PROVE  HasWrongShape(MergeReviewerFindings(grade, review))
<1> DEFINE merged == MergeReviewerFindings(grade, review)
<1>1. merged.goal_fit = IF grade.goal_fit = None THEN review.goal_fit
                        ELSE MergedWith(grade.goal_fit, review.goal_fit)
  BY MergeFacts
<1>2. /\ grade.goal_fit \in GoalFitVerdict \cup {None}
      /\ review.goal_fit \in GoalFitVerdict \cup {None}
  BY DEF GradeReport, ReviewerReport
<1>3. CASE grade.goal_fit = None
  BY <1>1, <1>3 DEF HasWrongShape, Unfit
<1>4. CASE review.goal_fit = None
  BY <1>1, <1>4 DEF HasWrongShape, Unfit, MergedWith
<1>5. CASE grade.goal_fit # None /\ review.goal_fit # None
  <2>1. merged.goal_fit = [fit |-> grade.goal_fit.fit /\ review.goal_fit.fit,
                           problems |-> grade.goal_fit.problems \cup review.goal_fit.problems]
    BY <1>1, <1>5 DEF MergedWith
  <2>2. merged.goal_fit \in GoalFitVerdict
    BY <1>2, <1>5, <2>1 DEF GoalFitVerdict
  <2>3. merged.goal_fit # None
    BY <2>2, NoneAssumption
  <2>4. /\ merged.goal_fit.fit = (grade.goal_fit.fit /\ review.goal_fit.fit)
        /\ merged.goal_fit.problems = grade.goal_fit.problems \cup review.goal_fit.problems
    BY <2>1
  <2>5. CASE HasWrongShape(grade)
    <3>1. ~grade.goal_fit.fit /\ grade.goal_fit.problems # {}
      BY <2>5 DEF HasWrongShape, Unfit
    <3> QED
      BY <2>3, <2>4, <3>1, Zenon DEF HasWrongShape, Unfit
  <2>6. CASE HasWrongShape(review)
    <3>1. ~review.goal_fit.fit /\ review.goal_fit.problems # {}
      BY <2>6 DEF HasWrongShape, Unfit
    <3> QED
      BY <2>3, <2>4, <3>1, Zenon DEF HasWrongShape, Unfit
  <2> QED
    BY <2>5, <2>6
<1> QED
  BY <1>3, <1>4, <1>5

\* An acceptable classification needs every signal to be good, each critic's
\* taken on its own.
LEMMA AcceptableNeedsEvidence ==
  ASSUME NEW exec, exec # None,
         NEW grade \in GradeReport, NEW review \in ReviewerReport,
         NEW hollow \in BOOLEAN, NEW mode,
         Classify(exec, MergeReviewerFindings(grade, review), hollow, mode) = "ACCEPTABLE"
  PROVE  /\ exec.ok /\ ~hollow
         /\ grade.graded
         /\ grade.quality_score >= QualityThreshold
         /\ FatalDimensions(grade) = {}
         /\ \A c \in {grade, review} : /\ ~HasBlockerInPlanScope(c)
                                       /\ ~HasHighSeverityCodeFinding(c)
                                       /\ ~HasWrongShape(c)
<1> DEFINE merged == MergeReviewerFindings(grade, review)
<1>1. /\ merged \in GradeReport
      /\ merged.graded = grade.graded
      /\ merged.quality_score = grade.quality_score
      /\ merged.rubric = grade.rubric
      /\ merged.findings = grade.findings \cup review.findings
  BY MergeFacts
<1>2. merged # None
  BY <1>1, NoneAssumption
<1> HIDE DEF merged
<1>3. /\ exec.ok /\ ~hollow
      /\ ~HasBlockerInPlanScope(merged)
      /\ merged.graded
      /\ ~HasHighSeverityCodeFinding(merged)
      /\ ~(FatalDimensions(merged) # {})
      /\ ~HasWrongShape(merged)
      /\ ~(merged.quality_score < QualityThreshold)
  BY <1>2, Zenon DEF Classify, merged
<1>4. FatalDimensions(grade) = {}
  BY <1>1, <1>3 DEF FatalDimensions
<1>5. grade.quality_score >= QualityThreshold
  BY <1>1, <1>3 DEF GradeReport, Score, QualityThreshold
<1>6. \A c \in {grade, review} : ~HasBlockerInPlanScope(c) /\ ~HasHighSeverityCodeFinding(c)
  BY <1>1, <1>3 DEF HasBlockerInPlanScope, HasHighSeverityCodeFinding
<1>7. \A c \in {grade, review} : ~HasWrongShape(c)
  BY <1>3, MergedShape DEF merged
<1> QED
  BY <1>1, <1>3, <1>4, <1>5, <1>6, <1>7

=============================================================================

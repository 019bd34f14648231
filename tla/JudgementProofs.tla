--------------------------- MODULE JudgementProofs ---------------------------
(***************************************************************************)
(* The properties of one judgement, for every answer a critic can give.    *)
(***************************************************************************)
EXTENDS Judgement, FailureProofs

\* Once it is made, the category is what the cascade makes of the evidence.
Judged ==
  /\ student \in RawAnswer
  /\ reviewer \in RawAnswer
  /\ execution \in [ok : BOOLEAN]
  /\ hollow \in BOOLEAN
  /\ category \in {None, Classify(execution, Merged, hollow, "executable")}

\* The inductive invariant of the judgement.
LEMMA JudgedHolds == Spec => []Judged
<1>1. Init => Judged
  BY AnswersAssumption DEF Init, Judged
<1>2. Judged /\ [Judge]_vars => Judged'
  <2> SUFFICES ASSUME Judged, [Judge]_vars
               PROVE  Judged'
    OBVIOUS
  <2>1. CASE Judge
    BY <2>1 DEF Judge, Judged, Merged, Grade, Review
  <2>2. CASE UNCHANGED vars
    BY <2>2 DEF vars, Judged, Merged, Grade, Review
  <2> QED
    BY <2>1, <2>2
<1> QED
  BY <1>1, <1>2, PTL DEF Spec

\* Every report is one, and an execution report is never the absent one.
LEMMA ReportTypes ==
  ASSUME Judged
  PROVE  /\ Grade \in GradeReport
         /\ Review \in ReviewerReport
         /\ Merged \in GradeReport
         /\ Grade # None /\ Merged # None
         /\ hollow \in BOOLEAN
BY ReadGradeReportType, ReadReviewerReportType, MergeFacts, NoneAssumption
   DEF Judged, Grade, Review, Merged

\* A lesson with good evidence from the student alone is acceptable.
LEMMA EvidenceIsAcceptable ==
  ASSUME NEW exec, exec # None, exec.ok, NEW grade \in GradeReport,
         grade.graded, grade.quality_score >= QualityThreshold,
         FatalDimensions(grade) = {}, ~HasBlockerInPlanScope(grade),
         ~HasHighSeverityCodeFinding(grade), ~HasWrongShape(grade)
  PROVE  Classify(exec, grade, FALSE, "executable") = "ACCEPTABLE"
<1>1. ~HasDrifted(grade)
  BY DEF HasDrifted, HasWrongShape
<1>2. ~(grade.quality_score < QualityThreshold)
  BY DEF GradeReport, Score, QualityThreshold
<1>3. grade # None
  BY NoneAssumption
<1>4. ~(FatalDimensions(grade) # {}) /\ ~(FatalDimensions(grade) \cap CodeDimension # {})
  OBVIOUS
<1> QED
  BY <1>1, <1>2, <1>3, <1>4, Zenon DEF Classify

\* A review that could not be made leaves the student's report as it is.
LEMMA FailedReviewAddsNothing ==
  ASSUME NEW grade \in GradeReport
  PROVE  MergeReviewerFindings(grade, FailedReview) = grade
<1>1. FailedReview \in ReviewerReport
  BY DEF FailedReview, ReviewerReport
<1>2. /\ FailedReview.findings = {}
      /\ FailedReview.goal_fit = None
  BY DEF FailedReview
<1> DEFINE merged == MergeReviewerFindings(grade, FailedReview)
<1>3. /\ merged \in GradeReport
      /\ merged.graded = grade.graded
      /\ merged.quality_score = grade.quality_score
      /\ merged.rubric = grade.rubric
      /\ merged.findings = grade.findings \cup FailedReview.findings
      /\ merged.goal_fit = IF grade.goal_fit = None THEN FailedReview.goal_fit
                           ELSE MergedWith(grade.goal_fit, FailedReview.goal_fit)
  BY <1>1, MergeFacts
<1> HIDE DEF merged
<1>4. merged.findings = grade.findings /\ merged.goal_fit = grade.goal_fit
  BY <1>2, <1>3 DEF MergedWith
<1>5. merged = grade
  BY <1>3, <1>4 DEF GradeReport
<1> QED
  BY <1>5 DEF merged

-----------------------------------------------------------------------------
\* A second critic can only refuse (ReviewNeverRescues), whatever the two
\* models answer: acceptance needs the student's own report to be good enough
\* alone, and an unusable review is no review.
THEOREM ReviewNeverRescuesHolds == Spec => []ReviewNeverRescues
<1>1. ASSUME Judged
      PROVE  ReviewNeverRescues
  <2>1. ASSUME category = "ACCEPTABLE"
        PROVE  StudentAlone = "ACCEPTABLE"
    <3>1. Classify(execution, Merged, hollow, "executable") = "ACCEPTABLE"
      BY <1>1, <2>1, NoneAssumption DEF Judged, FailureCategory
    <3>2. execution # None
      BY <1>1, NoExecutionAssumption DEF Judged
    <3>3. /\ execution.ok /\ ~hollow
          /\ Grade.graded
          /\ Grade.quality_score >= QualityThreshold
          /\ FatalDimensions(Grade) = {}
          /\ ~HasBlockerInPlanScope(Grade)
          /\ ~HasHighSeverityCodeFinding(Grade)
          /\ ~HasWrongShape(Grade)
      BY <1>1, <3>1, <3>2, ReportTypes, AcceptableNeedsEvidence DEF Merged
    <3>4. hollow = FALSE
      BY <1>1, <3>3, ReportTypes
    <3> QED
      BY <1>1, <3>2, <3>3, <3>4, ReportTypes, EvidenceIsAcceptable DEF StudentAlone
  <2>2. ASSUME category # None, ~reviewer.usable
        PROVE  category = StudentAlone
    <3>1. Merged = Grade
      BY <1>1, <2>2, ReportTypes, FailedReviewAddsNothing DEF Merged, Review, ReadReviewerReport
    <3> QED
      BY <1>1, <2>2, <3>1 DEF Judged, StudentAlone
  <2> QED
    BY <2>1, <2>2 DEF ReviewNeverRescues
<1> QED
  BY <1>1, JudgedHolds, PTL

-----------------------------------------------------------------------------
\* The label "drifted" in the merged verdict is the expert reviewer's: the
\* reader strips it from the student's.
LEMMA DriftIsTheReviewers ==
  ASSUME Judged, HasDrifted(Merged)
  PROVE  /\ reviewer.usable
         /\ reviewer.goal_fit # None
         /\ "drifted" \in reviewer.goal_fit.problems
<1>1. /\ Merged.goal_fit = IF Grade.goal_fit = None THEN Review.goal_fit
                           ELSE MergedWith(Grade.goal_fit, Review.goal_fit)
      /\ Merged.goal_fit # None
      /\ "drifted" \in Merged.goal_fit.problems
  BY ReportTypes, MergeFacts DEF Merged, HasDrifted, Unfit
<1>2. Grade.goal_fit # None => "drifted" \notin Grade.goal_fit.problems
  <2>1. CASE ~student.usable
    BY <2>1 DEF Grade, ReadGradeReport, FailedGrade
  <2>2. CASE student.usable
    <3>1. Grade.goal_fit = CoerceGoalFit(student.goal_fit, FALSE)
      BY <2>2 DEF Grade, ReadGradeReport
    <3> QED
      BY <3>1 DEF CoerceGoalFit
  <2> QED
    BY <2>1, <2>2
<1>3. Review.goal_fit # None /\ "drifted" \in Review.goal_fit.problems
  BY <1>1, <1>2 DEF MergedWith
<1>4. reviewer.usable
  BY <1>3 DEF Review, ReadReviewerReport, FailedReview
<1>5. Review.goal_fit = CoerceGoalFit(reviewer.goal_fit, TRUE)
  BY <1>4 DEF Review, ReadReviewerReport
<1> QED
  BY <1>3, <1>4, <1>5 DEF CoerceGoalFit

\* The findings of the merged report are those of the two critics.
LEMMA MergedFindings ==
  ASSUME Judged
  PROVE  Merged.findings = Grade.findings \cup Review.findings
BY ReportTypes, MergeFacts DEF Merged

\* A replan needs a critic that says the plan is wrong (ReplanIsAboutThePlan),
\* whatever the two models answer.
THEOREM ReplanIsAboutThePlanHolds == Spec => []ReplanIsAboutThePlan
<1>1. ASSUME Judged
      PROVE  ReplanIsAboutThePlan
  <2> SUFFICES ASSUME category = "BLOCKER_STRUCTURE"
               PROVE  \/ \E f \in Grade.findings \cup Review.findings :
                           f.severity = "BLOCKER" /\ f.scope \in {"plan", "structure"}
                      \/ /\ reviewer.usable /\ reviewer.goal_fit # None
                         /\ "drifted" \in reviewer.goal_fit.problems
    BY DEF ReplanIsAboutThePlan
  <2>1. Classify(execution, Merged, hollow, "executable") = "BLOCKER_STRUCTURE"
    BY <1>1, NoneAssumption DEF Judged, FailureCategory
  <2>2. HasBlockerInPlanScope(Merged) \/ HasDrifted(Merged)
    BY <2>1, Zenon DEF Classify
  <2>3. CASE HasBlockerInPlanScope(Merged)
    BY <1>1, <2>3, MergedFindings DEF HasBlockerInPlanScope
  <2>4. CASE HasDrifted(Merged)
    BY <1>1, <2>4, DriftIsTheReviewers
  <2> QED
    BY <2>2, <2>3, <2>4
<1> QED
  BY <1>1, JudgedHolds, PTL

\* Prose is rewritten only around code that works
\* (ProseIsRewrittenAroundWorkingCode), whatever the two models answer.
THEOREM ProseIsRewrittenAroundWorkingCodeHolds ==
  Spec => []ProseIsRewrittenAroundWorkingCode
<1>1. ASSUME Judged
      PROVE  ProseIsRewrittenAroundWorkingCode
  <2> SUFFICES ASSUME category = "CONTENT_QUALITY"
               PROVE  /\ execution.ok
                      /\ student.usable
                      /\ student.rubric # None
                           => student.rubric["correctness"] >= FatalDimensionFloor
                      /\ \A f \in Grade.findings \cup Review.findings :
                           f.scope = "code" => f.severity \notin {"HIGH", "BLOCKER"}
    BY DEF ProseIsRewrittenAroundWorkingCode
  <2>1. Classify(execution, Merged, hollow, "executable") = "CONTENT_QUALITY"
    BY <1>1, NoneAssumption DEF Judged, FailureCategory
  <2>2. execution # None => execution.ok
    BY <2>1, Zenon DEF Classify
  <2>3. /\ Merged.graded
        /\ ~HasHighSeverityCodeFinding(Merged)
        /\ ~(FatalDimensions(Merged) \cap CodeDimension # {})
    BY <1>1, <2>1, ReportTypes, Zenon DEF Classify
  <2>4. Merged.graded = Grade.graded /\ Merged.rubric = Grade.rubric
    BY <1>1, ReportTypes, MergeFacts DEF Merged
  <2>5. student.usable
    BY <2>3, <2>4 DEF Grade, ReadGradeReport, FailedGrade
  <2>6. ASSUME student.rubric # None
        PROVE  student.rubric["correctness"] >= FatalDimensionFloor
    <3>1. Merged.rubric = student.rubric
      BY <2>4, <2>5 DEF Grade, ReadGradeReport
    <3>2. "correctness" \notin FatalDimensions(Merged)
      BY <2>3 DEF CodeDimension
    <3>3. ~(student.rubric["correctness"] < FatalDimensionFloor)
      BY <2>6, <3>1, <3>2 DEF FatalDimensions, Dimension
    <3>4. student.rubric["correctness"] \in 0..100
      BY <1>1, <2>6 DEF Judged, RawAnswer, RubricScores, Dimension
    <3> DEFINE score == student.rubric["correctness"]
    <3> HIDE DEF score
    <3>5. score >= FatalDimensionFloor
      BY <3>3, <3>4 DEF FatalDimensionFloor, score
    <3> QED
      BY <3>5 DEF score
  <2>7. \A f \in Grade.findings \cup Review.findings :
          f.scope = "code" => f.severity \notin {"HIGH", "BLOCKER"}
    BY <1>1, <2>3, MergedFindings DEF HasHighSeverityCodeFinding
  <2>8. execution # None
    BY <1>1, NoExecutionAssumption DEF Judged
  <2> QED
    BY <2>2, <2>5, <2>6, <2>7, <2>8
<1> QED
  BY <1>1, JudgedHolds, PTL

\* A failed grader is never read as a low score (FailedGraderIsNotALowScore),
\* whatever the reviewer answers.
THEOREM FailedGraderIsNotALowScoreHolds == Spec => []FailedGraderIsNotALowScore
<1>1. ASSUME Judged
      PROVE  FailedGraderIsNotALowScore
  <2> SUFFICES ASSUME category # None, ~student.usable
               PROVE  category \notin {"CONTENT_QUALITY", "ACCEPTABLE"}
    BY DEF FailedGraderIsNotALowScore
  <2>1. ~Merged.graded
    BY <1>1, ReportTypes, MergeFacts DEF Merged, Grade, ReadGradeReport, FailedGrade
  <2>2. category = Classify(execution, Merged, hollow, "executable")
    BY <1>1 DEF Judged
  <2>3. Classify(execution, Merged, hollow, "executable")
          \in {"BLOCKER_STRUCTURE", "CODE_QUALITY", "UNCLASSIFIABLE"}
    BY <1>1, <2>1, ReportTypes, Zenon DEF Classify
  <2> QED
    BY <2>2, <2>3
<1> QED
  BY <1>1, JudgedHolds, PTL

\* No healthy mean hides a fatal dimension, and no score a model stated for
\* itself stands against its own rubric (MeanHidesNothing), whatever the two
\* models answer: what is accepted meets the floor in every dimension and the
\* threshold in their mean.
THEOREM MeanHidesNothingHolds == Spec => []MeanHidesNothing
<1>1. ASSUME Judged
      PROVE  MeanHidesNothing
  <2> SUFFICES ASSUME category = "ACCEPTABLE", student.rubric # None
               PROVE  /\ \A d \in Dimension : student.rubric[d] >= FatalDimensionFloor
                      /\ CompositeFifths(student.rubric) >= QualityThreshold
    BY DEF MeanHidesNothing
  <2>1. Classify(execution, Merged, hollow, "executable") = "ACCEPTABLE"
    BY <1>1, NoneAssumption DEF Judged, FailureCategory
  <2>2. execution # None
    BY <1>1, NoExecutionAssumption DEF Judged
  <2>3. /\ Grade.graded
        /\ Grade.quality_score >= QualityThreshold
        /\ FatalDimensions(Grade) = {}
    BY <1>1, <2>1, <2>2, ReportTypes, AcceptableNeedsEvidence DEF Merged
  <2>4. /\ Grade.rubric = student.rubric
        /\ Grade.quality_score = CompositeFifths(student.rubric)
    BY <2>3 DEF Grade, ReadGradeReport, FailedGrade
  <2>5. ASSUME NEW d \in Dimension
        PROVE  student.rubric[d] >= FatalDimensionFloor
    <3>1. ~(student.rubric[d] < FatalDimensionFloor)
      BY <2>3, <2>4 DEF FatalDimensions
    <3>2. student.rubric[d] \in 0..100
      BY <1>1 DEF Judged, RawAnswer, RubricScores
    <3> DEFINE score == student.rubric[d]
    <3> HIDE DEF score
    <3>3. score >= FatalDimensionFloor
      BY <3>1, <3>2 DEF FatalDimensionFloor, score
    <3> QED
      BY <3>3 DEF score
  <2> QED
    BY <2>3, <2>4, <2>5
<1> QED
  BY <1>1, JudgedHolds, PTL

=============================================================================

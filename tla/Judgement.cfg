\* Every pair of answers and every outcome of the execution.  A judgement is
\* made once, so the specification stops.
SPECIFICATION Spec
CONSTANTS
  None = None
  StudentAnswers <- SomeStudentAnswers
  ReviewerAnswers <- SomeReviewerAnswers
INVARIANTS
  ReviewNeverRescues
  ReplanIsAboutThePlan
  ProseIsRewrittenAroundWorkingCode
  FailedGraderIsNotALowScore
  MeanHidesNothing
CHECK_DEADLOCK FALSE

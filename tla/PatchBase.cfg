\* Is a patch applied to the notebook its brief is about?
SPECIFICATION Spec
CONSTANTS
  None = None
  Provision = FALSE
  InCourse = TRUE
  Mode = "executable"
  Budget <- OneOfEach
  StudentAnswers <- ThinStudent
  ReviewerAnswers <- ThinReviewer
  RecursionLimit <- OneOfEachSteps
INVARIANT APatchFitsItsBrief

\* Is the notebook an accepted run ships the one its critics read?
SPECIFICATION Spec
CONSTANTS
  None = None
  Provision = FALSE
  InCourse = TRUE
  Mode = "executable"
  Budget <- OneOfEach
  StudentAnswers <- ThinStudent
  ReviewerAnswers <- ThinReviewer
  RecursionLimit <- OneOfEachSteps
INVARIANT TheRewriteIsRegraded

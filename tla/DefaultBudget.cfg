\* The budgets the program runs with, provisioning off, called by the CLI, and
\* a recursion limit below what the budgets allow.
SPECIFICATION Spec
CONSTANTS
  None = None
  Provision = FALSE
  InCourse = FALSE
  Mode = "executable"
  Budget <- DefaultBudget
  StudentAnswers <- ThinStudent
  ReviewerAnswers <- ThinReviewer
  RecursionLimit <- LowLimit
INVARIANTS
  RevisionsAreAccountedFor

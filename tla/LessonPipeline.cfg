\* One revision of each kind, provisioning on, inside a course; the answers
\* reach every rule of the cascade.
SPECIFICATION Spec
CONSTANTS
  None = None
  Provision = TRUE
  InCourse = TRUE
  Mode = "executable"
  Budget <- OneOfEach
  StudentAnswers <- RichStudent
  ReviewerAnswers <- RichReviewer
  RecursionLimit <- OneOfEachSteps
INVARIANTS
  TypeOK
  ArtifactNamesAreFresh
  EvidenceIsOfThisPass
  CriticsReadAnAncestor
  EveryRevisionHasItsBrief
  AcceptedOnEvidence
  LessonShipsOnlyIfAccepted
  SilentSummaryIsHonest
  StepsAreBounded
PROPERTIES
  TerminalIsFinal
  EveryModuleLeavesATrace
  ImplementsLessonRun

------------------------------ MODULE Judgement ------------------------------
(***************************************************************************)
(* The judgement of one pass on its own: any two answers of the critics,   *)
(* any outcome of the execution, and the category the reviser gives them   *)
(* (the read, merge and classify steps of RevisorAgent.run).  The          *)
(* properties are those the docstrings of failure.py, reviser.py,          *)
(* student.py and reviewer.py argue for.                                   *)
(***************************************************************************)
EXTENDS Failure

CONSTANTS
  StudentAnswers,   \* what the student model may answer
  ReviewerAnswers   \* what the reviewer model may answer

ASSUME AnswersAssumption ==
  /\ StudentAnswers \subseteq RawAnswer
  /\ ReviewerAnswers \subseteq RawAnswer

ASSUME NoExecutionAssumption == None \notin [ok : BOOLEAN]

VARIABLES
  student,     \* the student model's answer
  reviewer,    \* the reviewer model's answer
  execution,   \* the execution report
  hollow,      \* does the executed notebook demonstrate nothing
  category     \* what the reviser made of it, or None

vars == <<student, reviewer, execution, hollow, category>>

Grade == ReadGradeReport(student)
Review == ReadReviewerReport(reviewer)
Merged == MergeReviewerFindings(Grade, Review)

Init ==
  /\ student \in StudentAnswers
  /\ reviewer \in ReviewerAnswers
  /\ execution \in [ok : BOOLEAN]
  /\ hollow \in BOOLEAN
  /\ category = None

Judge ==
  /\ category = None
  /\ category' = Classify(execution, Merged, hollow, "executable")
  /\ UNCHANGED <<student, reviewer, execution, hollow>>

Spec == Init /\ [][Judge]_vars

-----------------------------------------------------------------------------
TypeOK ==
  /\ student \in RawAnswer
  /\ reviewer \in RawAnswer
  /\ execution \in [ok : BOOLEAN]
  /\ hollow \in BOOLEAN
  /\ category \in FailureCategory \cup {None}

\* What the reviser would have decided on the student's report alone.
StudentAlone == Classify(execution, Grade, hollow, "executable")

\* A second critic can only refuse: no review turns a lesson the student's
\* report refuses into an acceptable one, and a review that could not be made
\* changes nothing (reviewer.py: "a failed reviewer never fabricates blockers
\* or silently suppresses the student's signal").
ReviewNeverRescues ==
  /\ category = "ACCEPTABLE" => StudentAlone = "ACCEPTABLE"
  /\ category # None /\ ~reviewer.usable => category = StudentAlone

\* A replan throws the lesson away, so it needs a critic that says the plan is
\* wrong: a BLOCKER about the plan or the structure from either of them, or the
\* word "drifted" from the expert reviewer.  "Too much machinery" never
\* replans, whoever says it.
ReplanIsAboutThePlan ==
  category = "BLOCKER_STRUCTURE" =>
    \/ \E f \in Grade.findings \cup Review.findings :
         f.severity = "BLOCKER" /\ f.scope \in {"plan", "structure"}
    \/ reviewer.usable /\ reviewer.goal_fit # None /\ "drifted" \in reviewer.goal_fit.problems

\* Prose is rewritten only around code that works: a lesson sent to the content
\* reviser ran, was graded, and has no fatal correctness score and no
\* high-severity code finding from either critic.
ProseIsRewrittenAroundWorkingCode ==
  category = "CONTENT_QUALITY" =>
    /\ execution.ok
    /\ student.usable
    /\ student.rubric # None => student.rubric["correctness"] >= FatalDimensionFloor
    /\ \A f \in Grade.findings \cup Review.findings :
         f.scope = "code" => f.severity \notin {"HIGH", "BLOCKER"}

\* A grader that failed is an absent signal, never a low score: an ungraded
\* lesson is not sent to have its prose rewritten, and it is not accepted.
FailedGraderIsNotALowScore ==
  category # None /\ ~student.usable => category \notin {"CONTENT_QUALITY", "ACCEPTABLE"}

\* No healthy mean hides a fatal dimension, and no score the model stated for
\* itself stands against its own rubric.
MeanHidesNothing ==
  category = "ACCEPTABLE" /\ student.rubric # None =>
    /\ \A d \in Dimension : student.rubric[d] >= FatalDimensionFloor
    /\ CompositeFifths(student.rubric) >= QualityThreshold

=============================================================================

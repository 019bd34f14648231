--------------------------- MODULE LessonPipeline ----------------------------
(***************************************************************************)
(* One lesson run: the LangGraph pipeline of forged/pipeline (planner,     *)
(* provisioning gate, code author, executor, student, reviewer, reviser    *)
(* and content reviser over one immutable PipelineState and one artifact   *)
(* store) and the deliverables its caller writes when the graph stops.     *)
(*                                                                         *)
(* One action per node of the graph; an action is the whole coroutine of   *)
(* the node followed by its conditional edge.  The nodes run one at a      *)
(* time, so what varies is not the order of the steps but what the model   *)
(* calls, the notebook and the environment do.                             *)
(*                                                                         *)
(* An artifact is named by its kind and by the iteration that wrote it, so *)
(* a version below is an iteration.  Of the reports only the latest can be *)
(* read, and only the latest is kept.                                      *)
(***************************************************************************)
EXTENDS Failure, Router, Sequences, FiniteSetsExt

CONSTANTS
  Provision,        \* is environment provisioning on (the --provision flag)
  InCourse,         \* is the caller the course orchestrator, or the CLI
  Mode,             \* the lesson mode the plan declares
  StudentAnswers,   \* what the student model may answer
  ReviewerAnswers,  \* what the reviewer model may answer
  RecursionLimit    \* node executions LangGraph allows one run

ASSUME ProvisionAssumption == Provision \in BOOLEAN
ASSUME InCourseAssumption == InCourse \in BOOLEAN
ASSUME ModeAssumption == Mode \in LessonMode
ASSUME AnswersAssumption ==
  /\ StudentAnswers \subseteq RawAnswer
  /\ ReviewerAnswers \subseteq RawAnswer
ASSUME RecursionLimitAssumption == RecursionLimit \in Nat

VARIABLES
  node,            \* the graph node about to run, or how the run stopped
  iteration,       \* PipelineState.iteration
  outputs,         \* PipelineState.outputs: what each stage wrote, in order
  routing_log,     \* PipelineState.routing_log
  stage_attempts,  \* PipelineState.stage_attempts
  degradations,    \* stages with an entry in PipelineState.degradations
  is_terminal, terminal_ok,   \* PipelineState's end of run
  notebooks,       \* the lesson_notebook artifacts: version -> origin
  briefs,          \* the revision_brief artifacts: version -> what they say
  execution_report, grade_report, reviewer_report,  \* latest of each, or None
  steps,           \* node executions LangGraph has counted
  files,           \* deliverables in the run directory
  shipped          \* where lesson.ipynb came from, or None

state == <<iteration, outputs, routing_log, stage_attempts, degradations,
           is_terminal, terminal_ok>>
store == <<notebooks, briefs, execution_report, grade_report, reviewer_report>>
deliverables == <<files, shipped>>
vars == <<node, state, store, steps, deliverables>>

Stage == {"planner", "code_author", "executor", "student", "reviewer", "content_reviser"}
Node == {"planner", "provision_gate", "code_author", "executor", "student",
         "reviewer", "revisor", "content_reviser"}
\* The graph reached END, a node raised, or LangGraph ran out of steps; then
\* the caller has written what it writes.
Stopped == {"END", "raised", "exhausted"}
Closed == {"delivered", "crashed"}

NotebookStage == {"code_author", "content_reviser"}

(***************************************************************************)
(* What the store holds, as far as any node or caller tells it apart.      *)
(***************************************************************************)
NoVersion == -1
Version == Nat \cup {NoVersion}

Notebook == [kind : {"draft", "stub", "patch", "rewrite", "kept"}, base : Version]
Brief == [to : Target, about : Version]
ExecutionReport == [ok : BOOLEAN, ran : Version, copy : BOOLEAN, hollow : BOOLEAN]

\* lesson.ipynb: the file a notebook was copied from, and the notebook in it.
Shipped == [source : {"executed", "assembled"}, notebook : Version]

ASSUME NoReportAssumption == None \notin ExecutionReport /\ None \notin Shipped

(***************************************************************************)
(* What the nodes read: the backward scans of state.outputs.               *)
(***************************************************************************)
OutputsOf(outs, stages) == {i \in DOMAIN outs : outs[i].stage \in stages}

\* The version a scan for these stages finds; NoVersion when it finds none.
LatestIn(outs, stages) ==
  IF OutputsOf(outs, stages) = {} THEN NoVersion
  ELSE outs[Max(OutputsOf(outs, stages))].iteration

LatestOf(stages) == LatestIn(outputs, stages)

\* Mutation: the rewrite is skipped, as in the critics' scan.
LatestNotebookOfAuthor == LatestOf({"code_author"})

\* Mutation: the scan runs forwards.
FirstAuthorsNotebook ==
  IF OutputsOf(outputs, {"code_author"}) = {} THEN NoVersion
  ELSE outputs[Min(OutputsOf(outputs, {"code_author"}))].iteration

LatestNotebook == LatestOf(NotebookStage)        \* executor, content reviser, deliverables
AuthorsNotebook == LatestOf({"code_author"})     \* code author, student, reviewer

WithOutput(stage) == outputs' = Append(outputs, [stage |-> stage, iteration |-> iteration])

\* Mutation: a stage that succeeds clears the record.
DegradeForgets(stage, isDegraded) ==
  degradations' = IF isDegraded THEN degradations \cup {stage} ELSE degradations \ {stage}

Degrade(stage, isDegraded) ==
  degradations' = IF isDegraded THEN degradations \cup {stage} ELSE degradations

\* A node of the graph starts: LangGraph counts it, unless the run is over its limit.
Enter(n) ==
  /\ node = n
  /\ steps < RecursionLimit
  /\ steps' = steps + 1

\* Mutation: a plain edge, without the check of is_terminal.
ContinueAlways(next) == node' = next

\* _continue_unless_terminal
Continue(next) == node' = IF is_terminal' THEN "END" ELSE next

WithTerminal(ok) == is_terminal' = TRUE /\ terminal_ok' = ok

(***************************************************************************)
(* The run starts from create_initial_state and an empty store.            *)
(***************************************************************************)
Init ==
  /\ node = "planner"
  /\ iteration = 0
  /\ outputs = <<>>
  /\ routing_log = <<>>
  /\ stage_attempts = [s \in Target |-> 0]
  /\ degradations = {}
  /\ is_terminal = FALSE
  /\ terminal_ok = FALSE
  /\ notebooks = <<>>
  /\ briefs = <<>>
  /\ execution_report = None
  /\ grade_report = None
  /\ reviewer_report = None
  /\ steps = 0
  /\ files = {}
  /\ shipped = None

(***************************************************************************)
(* The nodes.                                                              *)
(***************************************************************************)

\* PlannerAgent.run: a plan, or the RuntimeError that no edge catches.
Planner ==
  /\ Enter("planner")
  /\ WithOutput("planner")
  /\ UNCHANGED <<is_terminal, terminal_ok>>
  /\ Continue(IF Provision THEN "provision_gate" ELSE "code_author")
  /\ UNCHANGED <<iteration, routing_log, stage_attempts, degradations, store, deliverables>>

PlannerRaises ==
  /\ Enter("planner")
  /\ node' = "raised"
  /\ UNCHANGED <<state, store, deliverables>>

\* The other agents catch RuntimeError only.  Opening the observation, an answer
\* without choices or a persona that is missing raises something else.
CallRaises ==
  /\ \E n \in {"code_author", "content_reviser", "student", "reviewer"} : Enter(n)
  /\ node' = "raised"
  /\ UNCHANGED <<state, store, deliverables>>

\* _terminal_failure: the environment of the plan cannot be built.  The gate
\* and the executor share it, and neither writes an executed copy.
ProvisioningFails ==
  /\ WithOutput("executor")
  /\ Degrade("executor", TRUE)
  /\ WithTerminal(FALSE)
  /\ execution_report' = [ok |-> FALSE, ran |-> NoVersion, copy |-> FALSE, hollow |-> FALSE]
  /\ UNCHANGED <<iteration, routing_log, stage_attempts, notebooks, briefs,
                 grade_report, reviewer_report, deliverables>>

ProvisionGate ==
  /\ Enter("provision_gate")
  /\ ProvisioningFails \/ UNCHANGED <<state, store, deliverables>>
  /\ Continue("code_author")

\* Provisioning raises instead of failing: the cache directory cannot be made,
\* or the venv is gone when its marker is written (see Provisioning).
ProvisioningRaises ==
  /\ Provision
  /\ Enter("provision_gate") \/ Enter("executor")
  /\ node' = "raised"
  /\ UNCHANGED <<state, store, deliverables>>

\* What the author's answer may become.  A patch needs a notebook to replace
\* into; an answer that cannot be used leaves the two-cell stub.
AuthorResult ==
  {[kind |-> "draft", base |-> NoVersion], [kind |-> "stub", base |-> NoVersion]}
  \cup (IF AuthorsNotebook = NoVersion THEN {}
        ELSE {[kind |-> "patch", base |-> AuthorsNotebook]})

PutNotebook(result) ==
  notebooks' = [v \in DOMAIN notebooks \cup {iteration} |->
                  IF v = iteration THEN result ELSE notebooks[v]]

CodeAuthor ==
  /\ Enter("code_author")
  /\ \E result \in AuthorResult :
       /\ PutNotebook(result)
       /\ Degrade("code_author", result.kind = "stub")
  /\ WithOutput("code_author")
  /\ UNCHANGED <<is_terminal, terminal_ok>>
  /\ Continue("executor")
  /\ UNCHANGED <<iteration, routing_log, stage_attempts, briefs, execution_report,
                 grade_report, reviewer_report, deliverables>>

\* ContentReviserAgent.run: the latest notebook rewritten, or kept when the
\* model gives nothing usable.
ContentReviser ==
  /\ Enter("content_reviser")
  /\ \E kind \in {"rewrite", "kept"} :
       /\ PutNotebook([kind |-> kind, base |-> LatestNotebook])
       /\ Degrade("content_reviser", kind = "kept")
  /\ WithOutput("content_reviser")
  /\ UNCHANGED <<is_terminal, terminal_ok>>
  /\ Continue("executor")
  /\ UNCHANGED <<iteration, routing_log, stage_attempts, briefs, execution_report,
                 grade_report, reviewer_report, deliverables>>

\* ExecutorAgent.run.  The notebook it looks up is always there: every path to
\* this node passes a notebook stage.  A kernel that dies or a cell that times
\* out is an executor error, which ends the run without a report.
ExecutorProvisioningFails ==
  /\ Provision
  /\ Enter("executor")
  /\ ProvisioningFails
  /\ Continue("student")

ExecutorError ==
  /\ Enter("executor")
  /\ WithTerminal(FALSE)
  /\ Continue("student")
  /\ UNCHANGED <<iteration, outputs, routing_log, stage_attempts, degradations,
                 store, deliverables>>

Executor ==
  /\ Enter("executor")
  /\ \E ok, hollow \in BOOLEAN :
       execution_report' = [ok |-> ok, ran |-> LatestNotebook, copy |-> TRUE, hollow |-> hollow]
  /\ WithOutput("executor")
  /\ UNCHANGED <<is_terminal, terminal_ok>>
  /\ Continue("student")
  /\ UNCHANGED <<iteration, routing_log, stage_attempts, degradations, notebooks, briefs,
                 grade_report, reviewer_report, deliverables>>

\* The critics read the code author's latest notebook and the latest execution
\* report, whichever stage wrote the notebook that report is about.
Student ==
  /\ Enter("student")
  /\ \E answer \in StudentAnswers :
       /\ grade_report' = [report |-> ReadGradeReport(answer), read |-> AuthorsNotebook]
       /\ Degrade("student", ~answer.usable)
  /\ WithOutput("student")
  /\ UNCHANGED <<is_terminal, terminal_ok>>
  /\ Continue("reviewer")
  /\ UNCHANGED <<iteration, routing_log, stage_attempts, notebooks, briefs,
                 execution_report, reviewer_report, deliverables>>

Reviewer ==
  /\ Enter("reviewer")
  /\ \E answer \in ReviewerAnswers :
       /\ reviewer_report' = [report |-> ReadReviewerReport(answer), read |-> AuthorsNotebook]
       /\ Degrade("reviewer", ~answer.usable)
  /\ WithOutput("reviewer")
  /\ UNCHANGED <<is_terminal, terminal_ok>>
  /\ Continue("revisor")
  /\ UNCHANGED <<iteration, routing_log, stage_attempts, notebooks, briefs,
                 execution_report, grade_report, deliverables>>

(***************************************************************************)
(* RevisorAgent.run: read, merge, classify, route; write the brief and     *)
(* start the next pass, or end the run.                                    *)
(***************************************************************************)
Verdict ==
  Classify(execution_report,
           MergeReviewerFindings(grade_report.report, reviewer_report.report),
           execution_report.copy /\ execution_report.hollow, Mode)

\* Mutation: the brief is named after the pass it starts.
PutBriefOfNextPass(to) ==
  briefs' = [v \in DOMAIN briefs \cup {iteration + 1} |->
               IF v = iteration + 1 THEN [to |-> to, about |-> execution_report.ran]
               ELSE briefs[v]]

PutBrief(to) ==
  briefs' = [v \in DOMAIN briefs \cup {iteration} |->
               IF v = iteration THEN [to |-> to, about |-> execution_report.ran]
               ELSE briefs[v]]

\* Mutation: the log records the category instead of the stage.
WithRoutingDecisionByCategory(to) ==
  /\ routing_log' = Append(routing_log, [iteration |-> iteration, to_stage |-> Verdict])
  /\ iteration' = iteration + 1

\* Mutation: the decision is recorded and the pass keeps its number.
WithRoutingDecisionSamePass(to) ==
  /\ routing_log' = Append(routing_log, [iteration |-> iteration, to_stage |-> to])
  /\ UNCHANGED iteration

WithRoutingDecision(to) ==
  /\ routing_log' = Append(routing_log, [iteration |-> iteration, to_stage |-> to])
  /\ iteration' = iteration + 1

WithAttempt(to) == stage_attempts' = [stage_attempts EXCEPT ![to] = @ + 1]

\* revisor_route: the end of the run, or the last entry of the routing log.
RevisorRoute ==
  node' = IF is_terminal' \/ routing_log' = <<>> THEN "END"
          ELSE routing_log'[Len(routing_log')].to_stage

RevisorEnds ==
  /\ Enter("revisor")
  /\ ShouldTerminate(Verdict, stage_attempts)
  /\ WithTerminal(Verdict = "ACCEPTABLE")
  /\ UNCHANGED <<iteration, outputs, routing_log, stage_attempts, degradations,
                 store, deliverables>>
  /\ RevisorRoute

RevisorRoutes ==
  /\ Enter("revisor")
  /\ ~ShouldTerminate(Verdict, stage_attempts)
  /\ LET to == CategoryToStage[Verdict] IN
       /\ PutBrief(to)
       /\ WithRoutingDecision(to)
       /\ WithAttempt(to)
  /\ UNCHANGED <<is_terminal, terminal_ok>>
  /\ RevisorRoute
  /\ UNCHANGED <<outputs, degradations, notebooks, execution_report, grade_report,
                 reviewer_report, deliverables>>

\* A usable answer may still hold values the reader does not expect (a location
\* that is not an object, a severity that is not a string): the reader raises.
RevisorRaises ==
  /\ Enter("revisor")
  /\ grade_report.report.graded \/ reviewer_report.report.reviewed
  /\ node' = "raised"
  /\ UNCHANGED <<state, store, deliverables>>

\* LangGraph raises GraphRecursionError instead of running one node too many.
RecursionLimitReached ==
  /\ node \in Node
  /\ steps >= RecursionLimit
  /\ node' = "exhausted"
  /\ UNCHANGED <<state, store, steps, deliverables>>

(***************************************************************************)
(* The caller.  A run that returned gets its summary, its package and      *)
(* either lesson.ipynb or FAILED.md; of a run that raised, the course      *)
(* orchestrator writes a crash stub and the CLI writes nothing.            *)
(***************************************************************************)
IsAcceptable == is_terminal /\ terminal_ok

\* Mutation: the notebook as assembled, without looking for its executed copy.
FinalNotebookAssembled == [source |-> "assembled", notebook |-> LatestNotebook]

\* write_final_notebook: the executed copy named by the last executor output,
\* else the latest notebook as it was assembled.
FinalNotebook ==
  IF LatestOf({"executor"}) # NoVersion /\ execution_report.copy
  THEN [source |-> "executed", notebook |-> execution_report.ran]
  ELSE [source |-> "assembled", notebook |-> LatestNotebook]

Deliver ==
  /\ node = "END"
  /\ node' = "delivered"
  /\ files' = {"SUMMARY.md", "README.md"}
                \cup (IF IsAcceptable THEN {"lesson.ipynb"} ELSE {"FAILED.md"})
  /\ shipped' = IF IsAcceptable THEN FinalNotebook ELSE None
  /\ UNCHANGED <<state, store, steps>>

\* Mutation: the exception path returns before anything is written.
WriteNoCrashStub ==
  /\ node \in {"raised", "exhausted"}
  /\ node' = "crashed"
  /\ UNCHANGED <<state, store, steps, files, shipped>>

WriteCrashStub ==
  /\ node \in {"raised", "exhausted"}
  /\ node' = "crashed"
  /\ files' = IF InCourse THEN {"FAILED.md"} ELSE {}
  /\ UNCHANGED <<state, store, steps, shipped>>

\* The run is over; nothing happens any more.
Done ==
  /\ node \in Closed
  /\ UNCHANGED vars

Pass ==
  \/ Planner \/ PlannerRaises \/ CallRaises
  \/ ProvisionGate \/ ProvisioningRaises
  \/ CodeAuthor
  \/ ContentReviser
  \/ Executor \/ ExecutorError \/ ExecutorProvisioningFails
  \/ Student
  \/ Reviewer
  \/ RevisorEnds \/ RevisorRoutes \/ RevisorRaises
  \/ RecursionLimitReached
  \/ Deliver \/ WriteCrashStub

Next == Pass \/ Done

\* Every node is a coroutine awaited in turn and every model call, kernel and
\* build has a timeout, so a run that can take its next step takes it.
Spec == Init /\ [][Next]_vars /\ WF_vars(Pass)

-----------------------------------------------------------------------------
(***************************************************************************)
(* Properties.                                                             *)
(***************************************************************************)
\* The variables keep their types: PipelineState, the store and the run directory.
TypeOK ==
  /\ node \in Node \cup Stopped \cup Closed
  /\ iteration \in Nat
  /\ outputs \in Seq([stage : Stage, iteration : Nat])
  /\ routing_log \in Seq([iteration : Nat, to_stage : Target])
  /\ stage_attempts \in [Target -> Nat]
  /\ degradations \subseteq Stage
  /\ is_terminal \in BOOLEAN
  /\ terminal_ok \in BOOLEAN
  /\ DOMAIN notebooks \subseteq Nat
  /\ \A v \in DOMAIN notebooks : notebooks[v] \in Notebook
  /\ DOMAIN briefs \subseteq Nat
  /\ \A v \in DOMAIN briefs : briefs[v] \in Brief
  /\ execution_report \in ExecutionReport \cup {None}
  /\ grade_report \in [report : GradeReport, read : Version] \cup {None}
  /\ reviewer_report \in [report : ReviewerReport, read : Version] \cup {None}
  /\ steps \in Nat
  /\ files \subseteq {"SUMMARY.md", "README.md", "lesson.ipynb", "FAILED.md"}
  /\ shipped \in Shipped \cup {None}

Redirections(s) == {i \in DOMAIN routing_log : routing_log[i].to_stage = s}

\* The loop's three counters agree and stay within the budgets: every revision
\* is in the routing log under the iteration that asked for it, is counted
\* once against the stage it names, and no stage is redone beyond its budget
\* (router.py: "Never routes to a stage whose attempt count has reached the
\* budget limit").
RevisionsAreAccountedFor ==
  /\ iteration = Len(routing_log)
  /\ \A i \in DOMAIN routing_log : routing_log[i].iteration = i - 1
  /\ \A s \in Target : /\ stage_attempts[s] = Cardinality(Redirections(s))
                       /\ stage_attempts[s] <= Budget[s]

\* The kind of artifact a stage writes: two stages share the notebook's name.
ArtifactKind(stage) == IF stage \in NotebookStage THEN "lesson_notebook" ELSE stage

\* No artifact of an earlier pass is overwritten: an artifact name
\* (<kind>_v<iteration>) is written at most once in a run, so the attempts
\* FAILED.md points the reader to are all still on disk.
ArtifactNamesAreFresh ==
  \A i, j \in DOMAIN outputs :
    (/\ outputs[i].iteration = outputs[j].iteration
     /\ ArtifactKind(outputs[i].stage) = ArtifactKind(outputs[j].stage)) => i = j

\* When the reviser judges, all the evidence it reads is of this pass and the
\* execution report is about the notebook this pass wrote: a report of an
\* earlier notebook never decides the route.
EvidenceIsOfThisPass ==
  node = "revisor" =>
    /\ \A s \in {"executor", "student", "reviewer"} : LatestOf({s}) = iteration
    /\ LatestNotebook = iteration
    /\ execution_report.ran = iteration

\* The critics may read an older notebook than the one that ran (see
\* TheRewriteIsRegraded), but never an unrelated one: what ran is what they
\* read, rewritten zero or more times by the content reviser.
CriticsReadAnAncestor ==
  node = "revisor" =>
    /\ grade_report.read = reviewer_report.read
    /\ grade_report.read \in 0..execution_report.ran
    /\ \A v \in grade_report.read + 1 .. execution_report.ran :
         notebooks[v].kind \in {"rewrite", "kept"} /\ notebooks[v].base = v - 1

\* A stage that is redone finds the brief of the pass before it, written for
\* the stage the reviser routed to and about the notebook that pass executed.
EveryRevisionHasItsBrief ==
  node \in {"planner", "code_author", "content_reviser"} /\ iteration > 0 =>
    /\ iteration - 1 \in DOMAIN briefs
    /\ briefs[iteration - 1].to = routing_log[iteration].to_stage
    /\ briefs[iteration - 1].about = iteration - 1

\* A run ends ACCEPTABLE only on complete and clean evidence: its latest
\* notebook ran without an error and is not hollow, the student graded it at or
\* above the threshold with no fatal dimension, and neither critic, alone,
\* reported a plan or structure blocker, wrong output, or a misfit with a
\* named problem.
AcceptedOnEvidence ==
  IsAcceptable =>
    LET grade == grade_report.report
        critics == {grade, reviewer_report.report}
    IN  /\ execution_report.ok /\ ~execution_report.hollow
        /\ execution_report.ran = LatestNotebook
        /\ grade.graded
        /\ grade.quality_score >= QualityThreshold
        /\ FatalDimensions(grade) = {}
        /\ \A c \in critics : /\ ~HasBlockerInPlanScope(c)
                              /\ ~HasHighSeverityCodeFinding(c)
                              /\ ~HasWrongShape(c)

\* The deliverable is honest: lesson.ipynb is there exactly when the run ended
\* acceptable, never beside FAILED.md, and it is the executed copy of the last
\* notebook the run produced.
LessonShipsOnlyIfAccepted ==
  /\ node = "delivered" => ("lesson.ipynb" \in files <=> IsAcceptable)
  /\ ~({"lesson.ipynb", "FAILED.md"} \subseteq files)
  /\ shipped # None => shipped = [source |-> "executed", notebook |-> LatestNotebook]

\* A summary without a Degradations section means what it says: no notebook of
\* the run is a stub or an unrevised copy, and both critics answered last.
SilentSummaryIsHonest ==
  /\ \A v \in DOMAIN notebooks :
       /\ notebooks[v].kind = "stub" => "code_author" \in degradations
       /\ notebooks[v].kind = "kept" => "content_reviser" \in degradations
  /\ IsAcceptable /\ degradations = {} => reviewer_report.report.reviewed

\* A run never executes more nodes than its budgets allow, so a recursion limit
\* of StepBound is never reached (LangGraph's limit is not set by run_pipeline).
StepBound ==
  (IF Provision THEN 7 ELSE 6) * (1 + Budget["planner"])
    + 5 * (Budget["code_author"] + Budget["content_reviser"])

StepsAreBounded ==
  /\ steps <= StepBound
  /\ node = "exhausted" => RecursionLimit < StepBound

\* A terminal state is final: once a node has marked it, no later node runs,
\* and neither the state nor an artifact changes.
TerminalIsFinal == [][is_terminal => node' \notin Node /\ UNCHANGED <<state, store>>]_vars

\* Every module of a course leaves a trace: its run ends, and its directory
\* then holds a summary or a failure note, whatever raised (orchestrator.py:
\* "Leave a diagnosis on disk").
EveryModuleLeavesATrace ==
  InCourse => <>(node \in Closed /\ files \cap {"SUMMARY.md", "FAILED.md"} # {})

(***************************************************************************)
(* The run as its caller sees it.                                          *)
(***************************************************************************)
Lesson == INSTANCE LessonRun WITH
  spent <- stage_attempts,
  verdict <- IF node = "crashed" THEN "crashed"
             ELSE IF node # "delivered" THEN "open"
             ELSE IF "lesson.ipynb" \in files THEN "accepted" ELSE "refused",
  lesson <- IF shipped = None THEN "none" ELSE shipped.source

\* The pipeline implements LessonRun: budgeted revisions, then one verdict,
\* with an executed lesson for an accepted run and none otherwise.
ImplementsLessonRun == Lesson!Spec

(***************************************************************************)
(* What the comments say and the code does not do.                         *)
(***************************************************************************)

\* graph.py: the content reviser's "rewrite must be executed and re-graded for
\* the loop to converge": the notebook an accepted run ships is the one its
\* critics read.
TheRewriteIsRegraded == IsAcceptable => grade_report.read = execution_report.ran

\* code_author.py: "Indices match the executor's and the brief's exactly": a
\* patch replaces cells of the notebook its brief is about.
APatchFitsItsBrief ==
  \A v \in DOMAIN notebooks :
    notebooks[v].kind = "patch" => notebooks[v].base = briefs[v - 1].about

=============================================================================

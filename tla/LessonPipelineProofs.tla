------------------------- MODULE LessonPipelineProofs ------------------------
(***************************************************************************)
(* What holds of a lesson run for every budget, every set of answers,      *)
(* either caller, and with or without provisioning.                        *)
(***************************************************************************)
EXTENDS LessonPipeline, FailureProofs, FiniteSetTheorems

Output == [stage : Stage, iteration : Nat]

(***************************************************************************)
(* The backward scan of state.outputs.  That a scan which finds something  *)
(* finds a last one is carried along the run, append by append.            *)
(***************************************************************************)
HasLast(outs, stages) ==
  OutputsOf(outs, stages) # {} =>
    \E i \in OutputsOf(outs, stages) : \A j \in OutputsOf(outs, stages) : i >= j

\* A scan finds a version or nothing.
LEMMA LatestInType ==
  ASSUME NEW outs \in Seq(Output), NEW stages, HasLast(outs, stages)
  PROVE  LatestIn(outs, stages) \in Version
<1>1. CASE OutputsOf(outs, stages) = {}
  BY <1>1 DEF LatestIn, Version
<1>2. CASE OutputsOf(outs, stages) # {}
  <2>1. Max(OutputsOf(outs, stages)) \in OutputsOf(outs, stages)
    BY <1>2 DEF HasLast, Max
  <2>2. Max(OutputsOf(outs, stages)) \in DOMAIN outs
    BY <2>1 DEF OutputsOf
  <2>3. outs[Max(OutputsOf(outs, stages))] \in Output
    BY <2>2
  <2>4. outs[Max(OutputsOf(outs, stages))].iteration \in Nat
    BY <2>3 DEF Output
  <2> QED
    BY <1>2, <2>4 DEF LatestIn, Version
<1> QED
  BY <1>1, <1>2

\* After an append a scan finds the new output if it is of a stage the scan
\* looks for, and what it found before if not.
LEMMA LatestInAppend ==
  ASSUME NEW outs \in Seq(Output), NEW o \in Output, NEW stages, HasLast(outs, stages)
  PROVE  /\ HasLast(Append(outs, o), stages)
         /\ LatestIn(Append(outs, o), stages) =
              IF o.stage \in stages THEN o.iteration ELSE LatestIn(outs, stages)
<1> DEFINE more == Append(outs, o)
           n == Len(outs) + 1
           before == OutputsOf(outs, stages)
           after == OutputsOf(more, stages)
<1>1. /\ n \in Nat /\ DOMAIN outs = 1..(n - 1) /\ DOMAIN more = 1..n
      /\ more[n] = o
      /\ \A i \in DOMAIN outs : more[i] = outs[i]
  OBVIOUS
<1>2. before \in SUBSET (1..(n - 1))
  BY <1>1 DEF OutputsOf
<1>3. CASE o.stage \in stages
  <2>1. after = before \cup {n}
    BY <1>1, <1>3 DEF OutputsOf
  <2>2. n \in after /\ \A j \in after : n >= j
    BY <1>1, <1>2, <2>1
  <2>3. after \in SUBSET Int
    BY <1>1, <1>2, <2>1
  <2> HIDE DEF after, before
  <2>4. Max(after) = n
    <3>1. \A x \in after : (\A y \in after : x >= y) => x = n
      BY <1>1, <2>2, <2>3
    <3> QED
      BY <2>2, <3>1 DEF Max
  <2>5. HasLast(more, stages)
    BY <2>2 DEF HasLast, after
  <2>6. LatestIn(more, stages) = o.iteration
    BY <1>1, <2>2, <2>4 DEF LatestIn, after
  <2> QED
    BY <1>3, <2>5, <2>6
<1>4. CASE o.stage \notin stages
  <2>1. after = before
    BY <1>1, <1>4 DEF OutputsOf
  <2>2. HasLast(more, stages)
    BY <2>1 DEF HasLast
  <2>3. LatestIn(more, stages) = LatestIn(outs, stages)
    <3>1. CASE before = {}
      BY <2>1, <3>1 DEF LatestIn
    <3>2. CASE before # {}
      <4>1. Max(before) \in before
        BY <3>2 DEF HasLast, Max
      <4>2. more[Max(before)] = outs[Max(before)]
        BY <1>1, <1>2, <4>1
      <4> QED
        BY <2>1, <3>2, <4>2 DEF LatestIn
    <3> QED
      BY <3>1, <3>2
  <2> QED
    BY <1>4, <2>2, <2>3
<1> QED
  BY <1>3, <1>4

(***************************************************************************)
(* Types.                                                                  *)
(***************************************************************************)
Graded == [report : GradeReport, read : Version]
Reviewed == [report : ReviewerReport, read : Version]

\* The reports a node reads have been written when it runs.
ReportsPresent ==
  /\ node \in {"student", "reviewer", "revisor"} => execution_report \in ExecutionReport
  /\ node \in {"reviewer", "revisor"} => grade_report \in Graded
  /\ node = "revisor" => reviewer_report \in Reviewed
  /\ terminal_ok => execution_report \in ExecutionReport

ScansEnd == \A stages \in SUBSET Stage : HasLast(outputs, stages)

Typed == TypeOK /\ ReportsPresent /\ ScansEnd

LEMMA InitTyped == Init => Typed
<1> SUFFICES ASSUME Init PROVE Typed
  OBVIOUS
<1>1. TypeOK
  <2>1. /\ node \in Node \cup Stopped \cup Closed
        /\ iteration \in Nat /\ steps \in Nat
        /\ outputs \in Seq(Output)
        /\ routing_log \in Seq([iteration : Nat, to_stage : Target])
        /\ stage_attempts \in [Target -> Nat]
    BY DEF Init, Node
  <2>2. /\ DOMAIN notebooks = {} /\ DOMAIN briefs = {}
    BY DEF Init
  <2>3. /\ degradations = {} /\ files = {}
        /\ is_terminal = FALSE /\ terminal_ok = FALSE
        /\ execution_report = None /\ grade_report = None
        /\ reviewer_report = None /\ shipped = None
    BY DEF Init
  <2> QED
    BY <2>1, <2>2, <2>3 DEF TypeOK, Output
<1>2. ReportsPresent
  BY DEF Init, ReportsPresent
<1>3. ScansEnd
  BY DEF Init, ScansEnd, HasLast, OutputsOf
<1> QED
  BY <1>1, <1>2, <1>3 DEF Typed

\* What WithOutput does to the outputs and to every scan of them.
LEMMA OutputStep ==
  ASSUME Typed, NEW stage \in Stage, WithOutput(stage)
  PROVE  /\ outputs' \in Seq(Output)
         /\ ScansEnd'
         /\ \A stages \in SUBSET Stage :
              LatestIn(outputs', stages) =
                IF stage \in stages THEN iteration ELSE LatestIn(outputs, stages)
<1> DEFINE o == [stage |-> stage, iteration |-> iteration]
<1>1. o \in Output /\ outputs \in Seq(Output) /\ outputs' = Append(outputs, o)
  BY DEF Typed, TypeOK, Output, WithOutput
<1>2. \A stages \in SUBSET Stage :
         /\ HasLast(Append(outputs, o), stages)
         /\ LatestIn(Append(outputs, o), stages) =
              IF stage \in stages THEN iteration ELSE LatestIn(outputs, stages)
  BY <1>1, LatestInAppend DEF Typed, ScansEnd
<1> QED
  BY <1>1, <1>2 DEF ScansEnd

\* The versions the nodes look up are versions.
LEMMA LookupTypes ==
  ASSUME Typed
  PROVE  LatestNotebook \in Version /\ AuthorsNotebook \in Version
<1>1. NotebookStage \in SUBSET Stage /\ {"code_author"} \in SUBSET Stage
  BY DEF NotebookStage, Stage
<1> QED
  BY <1>1, LatestInType DEF Typed, TypeOK, ScansEnd, Output, LatestNotebook, AuthorsNotebook, LatestOf

\* What PutNotebook does to the notebooks.
LEMMA NotebookStep ==
  ASSUME TypeOK, NEW result \in Notebook, PutNotebook(result)
  PROVE  /\ DOMAIN notebooks' \subseteq Nat
         /\ \A v \in DOMAIN notebooks' : notebooks'[v] \in Notebook
BY DEF TypeOK, PutNotebook

\* What a failed build leaves, in the gate as in the executor.
LEMMA ProvisioningFailsStep ==
  ASSUME Typed, ProvisioningFails
  PROVE  /\ outputs' \in Seq(Output) /\ ScansEnd'
         /\ execution_report' \in ExecutionReport
         /\ degradations' \in SUBSET Stage
         /\ is_terminal' = TRUE /\ terminal_ok' = FALSE
<1>1. outputs' \in Seq(Output) /\ ScansEnd'
  BY OutputStep DEF ProvisioningFails, Stage
<1>2. execution_report' \in ExecutionReport
  BY DEF ProvisioningFails, ExecutionReport, Version
<1>3. degradations' \in SUBSET Stage
  BY DEF ProvisioningFails, Degrade, Stage, Typed, TypeOK
<1>4. is_terminal' = TRUE /\ terminal_ok' = FALSE
  BY DEF ProvisioningFails, WithTerminal
<1> QED
  BY <1>1, <1>2, <1>3, <1>4

LEMMA NextTyped == Typed /\ [Next]_vars => Typed'
<1> SUFFICES ASSUME Typed, [Next]_vars
             PROVE  Typed'
  OBVIOUS
<1> USE DEF Typed, Enter, Continue, Node, Stopped, Closed, state, store, deliverables
<1>1. CASE Planner
  <2>1. outputs' \in Seq(Output) /\ ScansEnd'
    BY <1>1, OutputStep DEF Planner, Stage
  <2>2. TypeOK'
    BY <1>1, <2>1 DEF Planner, TypeOK, Output
  <2>3. ReportsPresent'
    BY <1>1 DEF Planner, ReportsPresent
  <2> QED
    BY <2>1, <2>2, <2>3
<1>2. CASE PlannerRaises \/ CallRaises
  <2>1. node' = "raised" /\ steps' \in Nat /\ UNCHANGED <<state, store, deliverables>>
    BY <1>2 DEF PlannerRaises, CallRaises, TypeOK
  <2> QED
    BY <2>1 DEF TypeOK, ReportsPresent, ScansEnd
<1>3. CASE ProvisionGate
  <2>1. CASE ProvisioningFails
    <3> is_terminal'
      BY <2>1, ProvisioningFailsStep
    <3>1. node' = "END" /\ steps' \in Nat
      BY <1>3 DEF ProvisionGate, TypeOK
    <3>2. TypeOK'
      BY <2>1, <3>1, ProvisioningFailsStep DEF ProvisioningFails, TypeOK, Output
    <3>3. ReportsPresent'
      BY <3>1, <2>1, ProvisioningFailsStep DEF ReportsPresent
    <3> QED
      BY <2>1, <3>2, <3>3, ProvisioningFailsStep
  <2>2. CASE UNCHANGED <<state, store, deliverables>>
    BY <1>3, <2>2 DEF ProvisionGate, TypeOK, ReportsPresent, ScansEnd
  <2> QED
    BY <1>3, <2>1, <2>2 DEF ProvisionGate
<1>4. CASE CodeAuthor
  <2>1. outputs' \in Seq(Output) /\ ScansEnd'
    BY <1>4, OutputStep DEF CodeAuthor, Stage
  <2>2. PICK result \in AuthorResult :
          PutNotebook(result) /\ Degrade("code_author", result.kind = "stub")
    BY <1>4 DEF CodeAuthor
  <2>3. result \in Notebook
    BY LookupTypes DEF AuthorResult, Notebook, Version
  <2>4. /\ DOMAIN notebooks' \subseteq Nat
        /\ \A v \in DOMAIN notebooks' : notebooks'[v] \in Notebook
    BY <2>2, <2>3, NotebookStep
  <2>5. degradations' \subseteq Stage
    BY <2>2 DEF Degrade, Stage, TypeOK
  <2>6. TypeOK'
    BY <1>4, <2>1, <2>4, <2>5 DEF CodeAuthor, TypeOK, Output
  <2>7. ReportsPresent'
    BY <1>4 DEF CodeAuthor, ReportsPresent
  <2> QED
    BY <2>1, <2>6, <2>7
<1>5. CASE ContentReviser
  <2>1. outputs' \in Seq(Output) /\ ScansEnd'
    BY <1>5, OutputStep DEF ContentReviser, Stage
  <2>2. PICK kind \in {"rewrite", "kept"} :
          /\ PutNotebook([kind |-> kind, base |-> LatestNotebook])
          /\ Degrade("content_reviser", kind = "kept")
    BY <1>5 DEF ContentReviser
  <2>3. [kind |-> kind, base |-> LatestNotebook] \in Notebook
    BY LookupTypes DEF Notebook
  <2>4. /\ DOMAIN notebooks' \subseteq Nat
        /\ \A v \in DOMAIN notebooks' : notebooks'[v] \in Notebook
    BY <2>2, <2>3, NotebookStep
  <2>5. degradations' \subseteq Stage
    BY <2>2 DEF Degrade, Stage, TypeOK
  <2>6. TypeOK'
    BY <1>5, <2>1, <2>4, <2>5 DEF ContentReviser, TypeOK, Output
  <2>7. ReportsPresent'
    BY <1>5 DEF ContentReviser, ReportsPresent
  <2> QED
    BY <2>1, <2>6, <2>7
<1>6. CASE Executor
  <2>1. outputs' \in Seq(Output) /\ ScansEnd'
    BY <1>6, OutputStep DEF Executor, Stage
  <2>2. execution_report' \in ExecutionReport
    BY <1>6, LookupTypes DEF Executor, ExecutionReport
  <2>3. TypeOK'
    BY <1>6, <2>1, <2>2 DEF Executor, TypeOK, Output
  <2>4. ReportsPresent'
    BY <1>6, <2>2 DEF Executor, ReportsPresent
  <2> QED
    BY <2>1, <2>3, <2>4
<1>7. CASE ExecutorError
  <2>1. /\ node' = "END" /\ steps' \in Nat
        /\ is_terminal' \in BOOLEAN /\ terminal_ok' = FALSE
        /\ UNCHANGED <<iteration, outputs, routing_log, stage_attempts, degradations,
                       store, deliverables>>
    BY <1>7 DEF ExecutorError, WithTerminal, TypeOK
  <2>2. TypeOK'
    BY <2>1 DEF TypeOK
  <2> QED
    BY <2>1, <2>2 DEF ReportsPresent, ScansEnd
<1>8. CASE ExecutorProvisioningFails
  <2>0. ProvisioningFails
    BY <1>8 DEF ExecutorProvisioningFails
  <2> is_terminal'
    BY <2>0, ProvisioningFailsStep
  <2>1. ProvisioningFails /\ node' = "END" /\ steps' \in Nat
    BY <1>8, <2>0 DEF ExecutorProvisioningFails, TypeOK
  <2>2. TypeOK'
    BY <2>1, ProvisioningFailsStep DEF ProvisioningFails, TypeOK, Output
  <2>3. ReportsPresent'
    BY <2>1, ProvisioningFailsStep DEF ReportsPresent
  <2> QED
    BY <2>1, <2>2, <2>3, ProvisioningFailsStep
<1>9. CASE Student
  <2>1. outputs' \in Seq(Output) /\ ScansEnd'
    BY <1>9, OutputStep DEF Student, Stage
  <2>2. grade_report' \in Graded /\ degradations' \subseteq Stage
    <3>1. PICK answer \in StudentAnswers :
            /\ grade_report' = [report |-> ReadGradeReport(answer), read |-> AuthorsNotebook]
            /\ Degrade("student", ~answer.usable)
      BY <1>9 DEF Student
    <3>2. ReadGradeReport(answer) \in GradeReport
      BY AnswersAssumption, ReadGradeReportType
    <3> QED
      BY <3>1, <3>2, LookupTypes DEF Graded, Degrade, Stage, TypeOK
  <2>3. TypeOK'
    BY <1>9, <2>1, <2>2 DEF Student, TypeOK, Output, Graded
  <2>4. ReportsPresent'
    BY <1>9, <2>2 DEF Student, ReportsPresent
  <2> QED
    BY <2>1, <2>3, <2>4
<1>10. CASE Reviewer
  <2>1. outputs' \in Seq(Output) /\ ScansEnd'
    BY <1>10, OutputStep DEF Reviewer, Stage
  <2>2. reviewer_report' \in Reviewed /\ degradations' \subseteq Stage
    <3>1. PICK answer \in ReviewerAnswers :
            /\ reviewer_report' = [report |-> ReadReviewerReport(answer), read |-> AuthorsNotebook]
            /\ Degrade("reviewer", ~answer.usable)
      BY <1>10 DEF Reviewer
    <3>2. ReadReviewerReport(answer) \in ReviewerReport
      BY AnswersAssumption, ReadReviewerReportType
    <3> QED
      BY <3>1, <3>2, LookupTypes DEF Reviewed, Degrade, Stage, TypeOK
  <2>3. TypeOK'
    BY <1>10, <2>1, <2>2 DEF Reviewer, TypeOK, Output, Reviewed
  <2>4. ReportsPresent'
    BY <1>10, <2>2 DEF Reviewer, ReportsPresent
  <2> QED
    BY <2>1, <2>3, <2>4
<1>11. CASE RevisorEnds
  <2>1. execution_report \in ExecutionReport
    BY <1>11 DEF RevisorEnds, ReportsPresent
  <2>2. node' = "END" /\ UNCHANGED <<iteration, outputs, routing_log, stage_attempts,
                                     degradations, store, deliverables>>
    BY <1>11 DEF RevisorEnds, RevisorRoute, WithTerminal
  <2>3. is_terminal' \in BOOLEAN /\ terminal_ok' \in BOOLEAN /\ steps' \in Nat
    BY <1>11 DEF RevisorEnds, WithTerminal, TypeOK
  <2>4. TypeOK'
    BY <2>2, <2>3 DEF TypeOK
  <2>5. ReportsPresent' /\ ScansEnd'
    BY <2>1, <2>2 DEF ReportsPresent, ScansEnd
  <2> QED
    BY <2>4, <2>5
<1>12. CASE RevisorRoutes
  <2> DEFINE to == CategoryToStage[Verdict]
  <2>1. to \in Target /\ Verdict \in RepairCategory
    BY <1>12 DEF RevisorRoutes, ShouldTerminate, CategoryToStage, Target
  <2>2. execution_report \in ExecutionReport
    BY <1>12 DEF RevisorRoutes, ReportsPresent
  <2>3. /\ PutBrief(to) /\ WithRoutingDecision(to) /\ WithAttempt(to) /\ RevisorRoute
        /\ UNCHANGED <<is_terminal, terminal_ok, outputs, degradations, notebooks,
                       execution_report, grade_report, reviewer_report, deliverables>>
        /\ steps' = steps + 1
    BY <1>12 DEF RevisorRoutes
  <2> HIDE DEF to
  <2>4. routing_log' \in Seq([iteration : Nat, to_stage : Target])
    BY <2>1, <2>3 DEF WithRoutingDecision, TypeOK
  <2>5. node' \in {"END"} \cup Target
    BY <2>1, <2>3 DEF RevisorRoute, WithRoutingDecision, TypeOK
  <2>6. iteration' \in Nat /\ stage_attempts' \in [Target -> Nat] /\ steps' \in Nat
    BY <2>1, <2>3 DEF WithRoutingDecision, WithAttempt, TypeOK
  <2>7. /\ DOMAIN briefs' \subseteq Nat
        /\ \A v \in DOMAIN briefs' : briefs'[v] \in Brief
    <3>1. [to |-> to, about |-> execution_report.ran] \in Brief
      BY <2>1, <2>2 DEF Brief, ExecutionReport
    <3> QED
      BY <2>3, <3>1 DEF PutBrief, TypeOK
  <2>8. TypeOK'
    BY <2>3, <2>4, <2>5, <2>6, <2>7 DEF TypeOK, Target
  <2>9. ReportsPresent' /\ ScansEnd'
    BY <2>3, <2>5 DEF ReportsPresent, ScansEnd, Target
  <2> QED
    BY <2>8, <2>9
<1>13. CASE RevisorRaises
  BY <1>13 DEF RevisorRaises, TypeOK, ReportsPresent, ScansEnd
<1>14. CASE RecursionLimitReached
  BY <1>14 DEF RecursionLimitReached, TypeOK, ReportsPresent, ScansEnd
<1>15. CASE Deliver
  <2>1. shipped' \in Shipped \cup {None}
    <3>1. ASSUME IsAcceptable PROVE FinalNotebook \in Shipped
      BY <3>1, LookupTypes DEF IsAcceptable, ReportsPresent, FinalNotebook, ExecutionReport, Shipped
    <3> QED
      BY <1>15, <3>1 DEF Deliver
  <2>2. files' \subseteq {"SUMMARY.md", "README.md", "lesson.ipynb", "FAILED.md"}
    BY <1>15 DEF Deliver
  <2>3. node' = "delivered" /\ UNCHANGED <<state, store, steps>>
    BY <1>15 DEF Deliver
  <2>4. TypeOK'
    BY <2>1, <2>2, <2>3 DEF TypeOK
  <2> QED
    BY <2>3, <2>4 DEF ReportsPresent, ScansEnd
<1>16. CASE WriteCrashStub
  BY <1>16 DEF WriteCrashStub, TypeOK, ReportsPresent, ScansEnd
<1>17. CASE UNCHANGED vars
  BY <1>17 DEF vars, TypeOK, ReportsPresent, ScansEnd
<1>18. CASE ProvisioningRaises
  BY <1>18 DEF ProvisioningRaises, TypeOK, ReportsPresent, ScansEnd
<1> QED
  BY <1>1, <1>2, <1>3, <1>4, <1>5, <1>6, <1>7, <1>8, <1>9, <1>10, <1>11, <1>12,
     <1>13, <1>14, <1>15, <1>16, <1>17, <1>18 DEF Next, Pass, Done

LEMMA AlwaysTyped == Spec => []Typed
BY InitTyped, NextTyped, PTL DEF Spec

\* The variables keep their types in every run: PipelineState, the artifact
\* store and the run directory.
THEOREM TypesHold == Spec => []TypeOK
BY AlwaysTyped, PTL DEF Typed

(***************************************************************************)
(* The end of a run.                                                       *)
(***************************************************************************)

\* A node that marks the run terminal is the last one to run: its edge leads
\* to END, whatever the edge's target is.
Settled == is_terminal => node \notin Node

LEMMA InitSettled == Init => Settled
BY DEF Init, Settled

LEMMA NextSettled == Typed /\ Settled /\ [Next]_vars => Settled'
<1> SUFFICES ASSUME Typed, Settled, [Next]_vars
             PROVE  Settled'
  OBVIOUS
<1> is_terminal \in BOOLEAN
  BY DEF Typed, TypeOK
<1> USE DEF Settled, Enter, Continue, Node
<1>1. CASE Planner
  BY <1>1 DEF Planner
<1>2. CASE PlannerRaises \/ CallRaises
  BY <1>2 DEF PlannerRaises, CallRaises
<1>3. CASE ProvisionGate
  BY <1>3 DEF ProvisionGate
<1>4. CASE CodeAuthor
  BY <1>4 DEF CodeAuthor
<1>5. CASE ContentReviser
  BY <1>5 DEF ContentReviser
<1>6. CASE Executor
  BY <1>6 DEF Executor
<1>7. CASE ExecutorError
  BY <1>7 DEF ExecutorError
<1>8. CASE ExecutorProvisioningFails
  BY <1>8 DEF ExecutorProvisioningFails
<1>9. CASE Student
  BY <1>9 DEF Student
<1>10. CASE Reviewer
  BY <1>10 DEF Reviewer
<1>11. CASE RevisorEnds
  BY <1>11 DEF RevisorEnds, RevisorRoute, WithTerminal
<1>12. CASE RevisorRoutes
  <2>1. node = "revisor" /\ is_terminal' = is_terminal
    BY <1>12 DEF RevisorRoutes
  <2> QED
    BY <2>1
<1>13. CASE RevisorRaises
  BY <1>13 DEF RevisorRaises
<1>14. CASE RecursionLimitReached
  BY <1>14 DEF RecursionLimitReached
<1>15. CASE Deliver
  BY <1>15 DEF Deliver
<1>16. CASE WriteCrashStub
  BY <1>16 DEF WriteCrashStub
<1>17. CASE UNCHANGED vars
  BY <1>17 DEF vars, state
<1>18. CASE ProvisioningRaises
  BY <1>18 DEF ProvisioningRaises
<1> QED
  BY <1>1, <1>2, <1>3, <1>4, <1>5, <1>6, <1>7, <1>8, <1>9, <1>10, <1>11, <1>12,
     <1>13, <1>14, <1>15, <1>16, <1>17, <1>18 DEF Next, Pass, Done

\* Outside the nodes only the caller moves, and it touches neither the state
\* nor the store.
LEMMA OnlyTheCallerIsLeft ==
  ASSUME Next, node \notin Node
  PROVE  node' \notin Node /\ UNCHANGED <<state, store>>
<1>1. Deliver \/ WriteCrashStub \/ Done
  BY DEF Next, Pass, Node, Enter, Planner, PlannerRaises, CallRaises, ProvisionGate, ProvisioningRaises, CodeAuthor,
         ContentReviser, Executor, ExecutorError, ExecutorProvisioningFails, Student,
         Reviewer, RevisorEnds, RevisorRoutes, RevisorRaises, RecursionLimitReached
<1>2. CASE Deliver
  BY <1>2 DEF Deliver, Node
<1>3. CASE WriteCrashStub
  BY <1>3 DEF WriteCrashStub, Node
<1>4. CASE Done
  BY <1>4 DEF Done, vars
<1> QED
  BY <1>1, <1>2, <1>3, <1>4

LEMMA AlwaysSettled == Spec => []Settled
BY InitSettled, NextSettled, AlwaysTyped, PTL DEF Spec

\* A terminal state is final: once a node has marked the run terminal no later
\* node runs, and no field of PipelineState and no artifact changes, whether
\* the mark came from the gate, the executor or the reviser.
THEOREM TerminalIsFinalHolds == Spec => TerminalIsFinal
<1>1. Settled /\ [Next]_vars
        => [is_terminal => node' \notin Node /\ UNCHANGED <<state, store>>]_vars
  BY OnlyTheCallerIsLeft DEF Settled
<1> QED
  BY <1>1, AlwaysSettled, PTL DEF Spec, TerminalIsFinal

(***************************************************************************)
(* The revision loop's accounts.                                           *)
(***************************************************************************)

\* Of all steps only the reviser's routing touches the loop's counters.
LEMMA CountersStep ==
  ASSUME [Next]_vars
  PROVE  RevisorRoutes \/ UNCHANGED <<iteration, routing_log, stage_attempts>>
BY DEF Next, Pass, Planner, PlannerRaises, CallRaises, ProvisionGate, ProvisioningRaises, ProvisioningFails,
       CodeAuthor, ContentReviser, Executor, ExecutorError, ExecutorProvisioningFails, Student,
       Reviewer, RevisorEnds, RevisorRaises, RecursionLimitReached, Deliver,
       WriteCrashStub, Done, vars, state

\* A decision within budget: the stage it names and what becomes of the counters.
LEMMA RoutingStep ==
  ASSUME TypeOK, RevisorRoutes
  PROVE  \E to \in Target :
           /\ stage_attempts[to] < Budget[to]
           /\ routing_log' = Append(routing_log, [iteration |-> iteration, to_stage |-> to])
           /\ iteration' = iteration + 1
           /\ stage_attempts' = [stage_attempts EXCEPT ![to] = @ + 1]
           /\ node' \in {"END", to}
<1> DEFINE to == CategoryToStage[Verdict]
<1>1. ~ShouldTerminate(Verdict, stage_attempts)
  BY DEF RevisorRoutes
<1>2. Verdict \in RepairCategory
  BY <1>1 DEF ShouldTerminate
<1>3. to \in Target
  BY <1>2 DEF CategoryToStage, Target
<1>4. ~(stage_attempts[to] >= Budget[to])
  BY <1>1 DEF ShouldTerminate
<1>5. WithRoutingDecision(to) /\ WithAttempt(to) /\ RevisorRoute
  BY DEF RevisorRoutes
<1> HIDE DEF to
<1>6. stage_attempts[to] \in Nat /\ Budget[to] \in Nat
  BY <1>3, BudgetAssumption DEF TypeOK
<1>7. stage_attempts[to] < Budget[to]
  BY <1>4, <1>6
<1>8. node' \in {"END", to}
  BY <1>5 DEF RevisorRoute, WithRoutingDecision, TypeOK
<1> QED
  BY <1>3, <1>5, <1>7, <1>8 DEF WithRoutingDecision, WithAttempt

\* Redirections is finite, so that counting it means something.
LEMMA RedirectionsFinite ==
  ASSUME TypeOK, NEW s
  PROVE  IsFiniteSet(Redirections(s)) /\ Cardinality(Redirections(s)) \in Nat
<1>1. Redirections(s) \subseteq 1..Len(routing_log)
  BY DEF Redirections, TypeOK
<1>2. Len(routing_log) \in Nat
  BY DEF TypeOK
<1>3. IsFiniteSet(1..Len(routing_log))
  BY <1>2, FS_Interval
<1>4. IsFiniteSet(Redirections(s))
  BY <1>1, <1>3, FS_Subset
<1> QED
  BY <1>4, FS_CardinalityType

LEMMA NextAccounted ==
  TypeOK /\ RevisionsAreAccountedFor /\ [Next]_vars => RevisionsAreAccountedFor'
<1> SUFFICES ASSUME TypeOK, RevisionsAreAccountedFor, [Next]_vars
             PROVE  RevisionsAreAccountedFor'
  OBVIOUS
<1>1. CASE UNCHANGED <<iteration, routing_log, stage_attempts>>
  BY <1>1 DEF RevisionsAreAccountedFor, Redirections
<1>2. CASE RevisorRoutes
  <2>1. PICK to \in Target :
          /\ stage_attempts[to] < Budget[to]
          /\ routing_log' = Append(routing_log, [iteration |-> iteration, to_stage |-> to])
          /\ iteration' = iteration + 1
          /\ stage_attempts' = [stage_attempts EXCEPT ![to] = @ + 1]
    BY <1>2, RoutingStep
  <2> DEFINE n == Len(routing_log) + 1
  <2>2. /\ n \in Nat \ {0} /\ iteration = n - 1
        /\ DOMAIN routing_log = 1..(n - 1) /\ DOMAIN routing_log' = 1..n
        /\ routing_log'[n] = [iteration |-> iteration, to_stage |-> to]
        /\ \A i \in 1..(n - 1) : routing_log'[i] = routing_log[i]
    BY <2>1 DEF TypeOK, RevisionsAreAccountedFor
  <2>3. iteration' = Len(routing_log')
    BY <2>1 DEF TypeOK, RevisionsAreAccountedFor
  <2> HIDE DEF n
  <2>4. \A i \in DOMAIN routing_log' : routing_log'[i].iteration = i - 1
    BY <2>2 DEF RevisionsAreAccountedFor
  <2>5. ASSUME NEW s \in Target
        PROVE  /\ stage_attempts'[s] = Cardinality(Redirections(s)')
               /\ stage_attempts'[s] <= Budget[s]
    <3>1. /\ stage_attempts[s] = Cardinality(Redirections(s))
          /\ stage_attempts[s] <= Budget[s]
          /\ stage_attempts[s] \in Nat /\ Budget[s] \in Nat
      BY BudgetAssumption DEF RevisionsAreAccountedFor, TypeOK
    <3>2. CASE s = to
      <4>1. Redirections(s)' = Redirections(s) \cup {n}
        <5>1. routing_log'[n].to_stage = s
          BY <2>2, <3>2
        <5>2. \A i \in 1..n : i = n \/ i \in 1..(n - 1)
          BY <2>2
        <5>3. n \in 1..n /\ 1..(n - 1) \subseteq 1..n
          BY <2>2
        <5>4. \A i : i \in Redirections(s)' <=> i \in Redirections(s) \/ i = n
          BY <2>2, <5>1, <5>2, <5>3 DEF Redirections
        <5> QED
          BY <5>4
      <4>2. n \notin Redirections(s)
        BY <2>2 DEF Redirections
      <4>3. Cardinality(Redirections(s)') = Cardinality(Redirections(s)) + 1
        BY <4>1, <4>2, RedirectionsFinite, FS_AddElement
      <4>4. stage_attempts'[s] = stage_attempts[s] + 1
        BY <2>1, <3>2 DEF TypeOK
      <4> QED
        BY <2>1, <3>1, <3>2, <4>3, <4>4
    <3>3. CASE s # to
      <4>1. Redirections(s)' = Redirections(s)
        BY <2>2, <3>3 DEF Redirections
      <4>2. stage_attempts'[s] = stage_attempts[s]
        BY <2>1, <3>3 DEF TypeOK
      <4> QED
        BY <3>1, <4>1, <4>2
    <3> QED
      BY <3>2, <3>3
  <2> QED
    BY <2>3, <2>4, <2>5 DEF RevisionsAreAccountedFor
<1> QED
  BY <1>1, <1>2, CountersStep

\* The loop's three counters agree and stay within every budget: each revision
\* is logged under the iteration that asked for it and counted once, and the
\* router never sends a run back to a stage whose budget is spent.
THEOREM RevisionsAreAccountedForHolds == Spec => []RevisionsAreAccountedFor
<1>1. Init => RevisionsAreAccountedFor
  <2> SUFFICES ASSUME Init PROVE RevisionsAreAccountedFor
    OBVIOUS
  <2>1. \A s \in Target : Redirections(s) = {}
    BY DEF Init, Redirections
  <2>2. \A s \in Target : Cardinality(Redirections(s)) = 0
    BY <2>1, FS_EmptySet
  <2> QED
    BY <2>2, BudgetAssumption DEF Init, RevisionsAreAccountedFor
<1> QED
  BY <1>1, NextAccounted, TypesHold, PTL DEF Spec

(***************************************************************************)
(* Steps.                                                                  *)
(***************************************************************************)

\* Node executions a pass that stands at n has still to make.
PassLength == IF Provision THEN 7 ELSE 6
Remaining ==
  [n \in Node |-> CASE n = "planner" -> PassLength
                    [] n = "provision_gate" -> 6
                    [] n \in {"code_author", "content_reviser"} -> 5
                    [] n = "executor" -> 4
                    [] n = "student" -> 3
                    [] n = "reviewer" -> 2
                    [] OTHER -> 1]

\* Node executions the attempts made so far pay for.
Paid == PassLength * (1 + stage_attempts["planner"])
          + 5 * (stage_attempts["code_author"] + stage_attempts["content_reviser"])

\* The pass under way can be finished with what is paid for.
StepsArePaid ==
  /\ node \in Node => steps + Remaining[node] <= Paid
  /\ steps <= Paid
  /\ node = "exhausted" => RecursionLimit < Paid

\* Every step but the reviser's routing moves along the pass.
LEMMA PassStep ==
  ASSUME Typed, [Next]_vars, ~RevisorRoutes, ~RecursionLimitReached
  PROVE  \/ /\ node \in Node
            /\ steps' = steps + 1
            /\ node' \in Node => Remaining[node'] = Remaining[node] - 1
            /\ node' # "exhausted"
         \/ steps' = steps /\ (node' = node \/ node' \notin Node \cup {"exhausted"})
<1> is_terminal \in BOOLEAN
  BY DEF Typed, TypeOK
<1> USE ProvisionAssumption DEF Enter, Continue, Node, Remaining, PassLength
<1>1. CASE Planner
  BY <1>1 DEF Planner
<1>2. CASE PlannerRaises \/ CallRaises
  BY <1>2 DEF PlannerRaises, CallRaises
<1>3. CASE ProvisionGate
  BY <1>3 DEF ProvisionGate
<1>4. CASE CodeAuthor
  BY <1>4 DEF CodeAuthor
<1>5. CASE ContentReviser
  BY <1>5 DEF ContentReviser
<1>6. CASE Executor
  BY <1>6 DEF Executor
<1>7. CASE ExecutorError
  BY <1>7 DEF ExecutorError
<1>8. CASE ExecutorProvisioningFails
  BY <1>8 DEF ExecutorProvisioningFails
<1>9. CASE Student
  BY <1>9 DEF Student
<1>10. CASE Reviewer
  BY <1>10 DEF Reviewer
<1>11. CASE RevisorEnds
  BY <1>11 DEF RevisorEnds, RevisorRoute, WithTerminal
<1>12. CASE RevisorRaises
  BY <1>12 DEF RevisorRaises
<1>13. CASE Deliver
  BY <1>13 DEF Deliver
<1>14. CASE WriteCrashStub
  BY <1>14 DEF WriteCrashStub
<1>15. CASE UNCHANGED vars
  BY <1>15 DEF vars
<1>16. CASE ProvisioningRaises
  BY <1>16 DEF ProvisioningRaises
<1> QED
  BY <1>1, <1>2, <1>3, <1>4, <1>5, <1>6, <1>7, <1>8, <1>9, <1>10, <1>11, <1>12,
     <1>13, <1>14, <1>15, <1>16 DEF Next, Pass, Done

LEMMA NextPaid == Typed /\ StepsArePaid /\ [Next]_vars => StepsArePaid'
<1> SUFFICES ASSUME Typed, StepsArePaid, [Next]_vars
             PROVE  StepsArePaid'
  OBVIOUS
<1>1. /\ stage_attempts \in [Target -> Nat] /\ steps \in Nat
      /\ {"planner", "code_author", "content_reviser"} = Target
      /\ \A n \in Node : Remaining[n] \in Nat \ {0}
  BY DEF Typed, TypeOK, Target, Remaining, PassLength
<1>2. PassLength \in Nat /\ Paid \in Nat
  BY <1>1 DEF Paid, PassLength
<1>3. CASE RevisorRoutes
  <2>1. PICK to \in Target :
          /\ stage_attempts' = [stage_attempts EXCEPT ![to] = @ + 1]
          /\ node' \in {"END", to}
    BY <1>3, RoutingStep DEF Typed
  <2>2. /\ node = "revisor" /\ Remaining[node] = 1 /\ steps' = steps + 1
    BY <1>3 DEF RevisorRoutes, Enter, Remaining, Node
  <2>3. steps' <= Paid
    BY <1>1, <1>2, <2>2 DEF StepsArePaid, Node
  <2>4. to \in Node /\ Paid' = Paid + Remaining[to]
    <3> DEFINE p == stage_attempts["planner"]
               a == stage_attempts["code_author"]
               r == stage_attempts["content_reviser"]
    <3>1. p \in Nat /\ a \in Nat /\ r \in Nat
      BY <1>1
    <3>2. /\ p' = IF to = "planner" THEN p + 1 ELSE p
          /\ a' = IF to = "code_author" THEN a + 1 ELSE a
          /\ r' = IF to = "content_reviser" THEN r + 1 ELSE r
      BY <1>1, <2>1
    <3>3. /\ to \in Node
          /\ Remaining[to] = IF to = "planner" THEN PassLength ELSE 5
      BY <1>1 DEF Node, Remaining
    <3>4. /\ Paid = PassLength * (1 + p) + 5 * (a + r)
          /\ Paid' = PassLength * (1 + p') + 5 * (a' + r')
      BY DEF Paid, PassLength
    <3> HIDE DEF p, a, r
    <3> QED
      BY <1>1, <3>1, <3>2, <3>3, <3>4 DEF PassLength
  <2>5. Remaining[to] \in Nat
    BY <1>1, <2>4
  <2> QED
    BY <1>1, <1>2, <2>1, <2>2, <2>3, <2>4, <2>5 DEF StepsArePaid, Node
<1>4. CASE RecursionLimitReached
  <2>1. /\ node \in Node /\ node' = "exhausted" /\ steps' = steps
        /\ RecursionLimit <= steps
        /\ stage_attempts' = stage_attempts
    BY <1>1, <1>4, RecursionLimitAssumption DEF RecursionLimitReached, state
  <2>2. steps < Paid
    BY <1>1, <1>2, <2>1 DEF StepsArePaid
  <2>3. Paid' = Paid
    BY <2>1 DEF Paid
  <2> QED
    BY <1>1, <1>2, <2>1, <2>2, <2>3, RecursionLimitAssumption DEF StepsArePaid, Node
<1>5. CASE ~RevisorRoutes /\ ~RecursionLimitReached
  <2>1. Paid' = Paid
    BY <1>5, CountersStep DEF Paid
  <2>2. node \in Node => Remaining[node] \in Nat \ {0}
    BY <1>1
  <2>3. node' \in Node => Remaining[node'] \in Nat \ {0}
    BY <1>1
  <2> QED
    BY <1>1, <1>2, <1>5, <2>1, <2>2, <2>3, PassStep DEF StepsArePaid
<1> QED
  BY <1>3, <1>4, <1>5

LEMMA AlwaysPaid == Spec => []StepsArePaid
<1>1. Init => StepsArePaid
  BY DEF Init, StepsArePaid, Paid, Remaining, PassLength, Node, Target
<1> QED
  BY <1>1, NextPaid, AlwaysTyped, PTL DEF Spec

\* A run executes at most StepBound nodes, whatever the budgets are, and raises
\* GraphRecursionError only if LangGraph's limit is below that.
THEOREM StepsAreBoundedHolds == Spec => []StepsAreBounded
<1>1. TypeOK /\ RevisionsAreAccountedFor /\ StepsArePaid => StepsAreBounded
  <2> SUFFICES ASSUME TypeOK, RevisionsAreAccountedFor, StepsArePaid
               PROVE  StepsAreBounded
    OBVIOUS
  <2> DEFINE p == stage_attempts["planner"]
             a == stage_attempts["code_author"]
             r == stage_attempts["content_reviser"]
             bp == Budget["planner"]
             ba == Budget["code_author"]
             br == Budget["content_reviser"]
  <2>1. /\ p \in Nat /\ a \in Nat /\ r \in Nat /\ steps \in Nat
        /\ bp \in Nat /\ ba \in Nat /\ br \in Nat
        /\ p <= bp /\ a <= ba /\ r <= br
    BY BudgetAssumption DEF TypeOK, RevisionsAreAccountedFor, Target
  <2>2. /\ Paid = PassLength * (1 + p) + 5 * (a + r)
        /\ StepBound = PassLength * (1 + bp) + 5 * (ba + br)
    BY DEF Paid, StepBound, PassLength
  <2> HIDE DEF p, a, r, bp, ba, br
  <2>3. Paid \in Nat /\ StepBound \in Nat /\ Paid <= StepBound
    BY <2>1, <2>2 DEF PassLength
  <2> QED
    BY <2>1, <2>3, RecursionLimitAssumption DEF StepsAreBounded, StepsArePaid
<1> QED
  BY <1>1, TypesHold, RevisionsAreAccountedForHolds, AlwaysPaid, PTL

(***************************************************************************)
(* Evidence.                                                               *)
(***************************************************************************)

\* As a pass moves on, what it has written so far is what the scans find.
Fresh ==
  /\ node \in {"executor", "student", "reviewer", "revisor"} => LatestNotebook = iteration
  /\ node \in {"student", "reviewer", "revisor"} =>
       /\ LatestOf({"executor"}) = iteration
       /\ execution_report.ran = iteration
       /\ execution_report.copy
  /\ node \in {"reviewer", "revisor"} => LatestOf({"student"}) = iteration
  /\ node = "revisor" => LatestOf({"reviewer"}) = iteration

\* What each scan finds after a node has written its output.
LEMMA ScanStep ==
  ASSUME Typed, NEW stage \in Stage, WithOutput(stage)
  PROVE  /\ LatestNotebook' = IF stage \in NotebookStage THEN iteration ELSE LatestNotebook
         /\ \A s \in Stage :
              LatestOf({s})' = IF stage = s THEN iteration ELSE LatestOf({s})
<1>1. NotebookStage \in SUBSET Stage /\ \A s \in Stage : {s} \in SUBSET Stage
  BY DEF NotebookStage, Stage
<1> QED
  BY <1>1, OutputStep DEF LatestNotebook, LatestOf

LEMMA NextFresh == Typed /\ Fresh /\ [Next]_vars => Fresh'
<1> SUFFICES ASSUME Typed, Fresh, [Next]_vars
             PROVE  Fresh'
  OBVIOUS
<1> USE DEF Fresh, Enter
<1>0. \A s \in {"planner", "code_author", "executor", "student", "reviewer", "content_reviser"} :
        s \in Stage
  BY DEF Stage
<1>1. CASE Planner
  BY <1>1 DEF Planner, Continue
<1>2. CASE PlannerRaises \/ CallRaises
  BY <1>2 DEF PlannerRaises, CallRaises
<1>3. CASE ProvisionGate
  BY <1>3 DEF ProvisionGate, Continue
<1>4. CASE CodeAuthor
  <2>1. LatestNotebook' = iteration /\ iteration' = iteration
    BY <1>0, <1>4, ScanStep DEF CodeAuthor, NotebookStage
  <2>2. node' \in {"END", "executor"}
    BY <1>4 DEF CodeAuthor, Continue
  <2> QED
    BY <2>1, <2>2
<1>5. CASE ContentReviser
  <2>1. LatestNotebook' = iteration /\ iteration' = iteration
    BY <1>0, <1>5, ScanStep DEF ContentReviser, NotebookStage
  <2>2. node' \in {"END", "executor"}
    BY <1>5 DEF ContentReviser, Continue
  <2> QED
    BY <2>1, <2>2
<1>6. CASE Executor
  <2>1. LatestOf({"executor"})' = iteration /\ LatestNotebook' = LatestNotebook
    BY <1>0, <1>6, ScanStep DEF Executor, NotebookStage
  <2>2. /\ node = "executor" /\ iteration' = iteration
        /\ execution_report'.ran = LatestNotebook /\ execution_report'.copy
    BY <1>6 DEF Executor
  <2>3. node' \in {"END", "student"}
    BY <1>6 DEF Executor, Continue
  <2> QED
    BY <2>1, <2>2, <2>3
<1>7. CASE ExecutorError
  BY <1>7 DEF ExecutorError, WithTerminal, Continue
<1>8. CASE ExecutorProvisioningFails
  BY <1>8 DEF ExecutorProvisioningFails, ProvisioningFails, WithTerminal, Continue
<1>9. CASE Student
  <2>1. /\ LatestOf({"student"})' = iteration /\ LatestNotebook' = LatestNotebook
        /\ LatestOf({"executor"})' = LatestOf({"executor"})
    BY <1>0, <1>9, ScanStep DEF Student, NotebookStage
  <2>2. node = "student" /\ UNCHANGED <<iteration, execution_report>>
    BY <1>9 DEF Student
  <2>3. node' \in {"END", "reviewer"}
    BY <1>9 DEF Student, Continue
  <2> QED
    BY <2>1, <2>2, <2>3
<1>10. CASE Reviewer
  <2>1. /\ LatestOf({"reviewer"})' = iteration /\ LatestNotebook' = LatestNotebook
        /\ LatestOf({"executor"})' = LatestOf({"executor"})
        /\ LatestOf({"student"})' = LatestOf({"student"})
    BY <1>0, <1>10, ScanStep DEF Reviewer, NotebookStage
  <2>2. node = "reviewer" /\ UNCHANGED <<iteration, execution_report>>
    BY <1>10 DEF Reviewer
  <2>3. node' \in {"END", "revisor"}
    BY <1>10 DEF Reviewer, Continue
  <2> QED
    BY <2>1, <2>2, <2>3
<1>11. CASE RevisorEnds
  BY <1>11 DEF RevisorEnds, RevisorRoute, WithTerminal
<1>12. CASE RevisorRoutes
  <2>1. node' \in {"END"} \cup Target
    BY <1>12, RoutingStep DEF Typed
  <2> QED
    BY <2>1 DEF Target
<1>13. CASE RevisorRaises
  BY <1>13 DEF RevisorRaises
<1>14. CASE RecursionLimitReached
  BY <1>14 DEF RecursionLimitReached
<1>15. CASE Deliver
  BY <1>15 DEF Deliver
<1>16. CASE WriteCrashStub
  BY <1>16 DEF WriteCrashStub
<1>17. CASE UNCHANGED vars
  BY <1>17 DEF vars, state, store, LatestNotebook, LatestOf
<1>18. CASE ProvisioningRaises
  BY <1>18 DEF ProvisioningRaises
<1> QED
  BY <1>1, <1>2, <1>3, <1>4, <1>5, <1>6, <1>7, <1>8, <1>9, <1>10, <1>11, <1>12,
     <1>13, <1>14, <1>15, <1>16, <1>17, <1>18 DEF Next, Pass, Done

LEMMA AlwaysFresh == Spec => []Fresh
<1>1. Init => Fresh
  BY DEF Init, Fresh
<1> QED
  BY <1>1, NextFresh, AlwaysTyped, PTL DEF Spec

\* The reviser never decides on stale evidence: whenever it judges, the
\* execution report and both critics' reports are of this pass, and the report
\* is about the notebook this pass wrote.
THEOREM EvidenceIsOfThisPassHolds == Spec => []EvidenceIsOfThisPass
<1>1. Fresh => EvidenceIsOfThisPass
  <2> SUFFICES ASSUME Fresh, node = "revisor"
               PROVE  /\ \A s \in {"executor", "student", "reviewer"} : LatestOf({s}) = iteration
                      /\ LatestNotebook = iteration
                      /\ execution_report.ran = iteration
    BY DEF EvidenceIsOfThisPass
  <2> QED
    BY DEF Fresh
<1> QED
  BY <1>1, AlwaysFresh, PTL

(***************************************************************************)
(* The verdict and what it ships.                                          *)
(***************************************************************************)

\* Acceptance rests on the evidence at hand, and that evidence names an
\* executed copy of the last notebook.
Sound ==
  /\ AcceptedOnEvidence
  /\ IsAcceptable => FinalNotebook = [source |-> "executed", notebook |-> LatestNotebook]

LEMMA RevisorAccepts ==
  ASSUME Typed, Fresh, RevisorEnds
  PROVE  Sound'
<1> SUFFICES ASSUME IsAcceptable'
             PROVE  AcceptedOnEvidence' /\ FinalNotebook' = [source |-> "executed", notebook |-> LatestNotebook']
  BY DEF Sound, AcceptedOnEvidence
<1> DEFINE hollow == execution_report.copy /\ execution_report.hollow
           grade == grade_report.report
           review == reviewer_report.report
<1>1. /\ node = "revisor"
      /\ UNCHANGED <<outputs, iteration, store>>
      /\ terminal_ok' = (Verdict = "ACCEPTABLE")
  BY DEF RevisorEnds, Enter, WithTerminal
<1>2. /\ execution_report \in ExecutionReport
      /\ grade \in GradeReport
      /\ review \in ReviewerReport
  BY <1>1 DEF Typed, ReportsPresent, Graded, Reviewed
<1>3. execution_report # None /\ hollow \in BOOLEAN
  BY <1>2, NoReportAssumption DEF ExecutionReport
<1>4. Classify(execution_report, MergeReviewerFindings(grade, review), hollow, Mode) = "ACCEPTABLE"
  BY <1>1 DEF IsAcceptable, Verdict
<1> HIDE DEF hollow, grade, review
<1>5. /\ execution_report.ok /\ ~hollow
      /\ grade.graded
      /\ grade.quality_score >= QualityThreshold
      /\ FatalDimensions(grade) = {}
      /\ \A c \in {grade, review} : /\ ~HasBlockerInPlanScope(c)
                                    /\ ~HasHighSeverityCodeFinding(c)
                                    /\ ~HasWrongShape(c)
  BY <1>2, <1>3, <1>4, AcceptableNeedsEvidence
<1>6. /\ LatestNotebook = iteration /\ LatestOf({"executor"}) = iteration
      /\ execution_report.ran = iteration /\ execution_report.copy
  BY <1>1 DEF Fresh
<1>7. /\ LatestNotebook' = LatestNotebook
      /\ LatestOf({"executor"})' = LatestOf({"executor"})
      /\ UNCHANGED <<execution_report, grade_report, reviewer_report>>
  BY <1>1 DEF LatestNotebook, LatestOf, store
<1>8. ~execution_report.hollow
  BY <1>5, <1>6 DEF hollow
<1>9. AcceptedOnEvidence'
  BY <1>5, <1>6, <1>7, <1>8 DEF AcceptedOnEvidence, grade, review
<1>10. iteration # NoVersion
  BY DEF Typed, TypeOK, NoVersion
<1>11. FinalNotebook' = [source |-> "executed", notebook |-> LatestNotebook']
  BY <1>6, <1>7, <1>10 DEF FinalNotebook
<1> QED
  BY <1>9, <1>11

LEMMA NextSound == Typed /\ Settled /\ Fresh /\ Sound /\ [Next]_vars => Sound'
<1> SUFFICES ASSUME Typed, Settled, Fresh, Sound, [Next]_vars
             PROVE  Sound'
  OBVIOUS
<1>1. ASSUME UNCHANGED <<state, store>> PROVE Sound'
  BY <1>1 DEF Sound, AcceptedOnEvidence, IsAcceptable, FinalNotebook, LatestNotebook,
              LatestOf, state, store
<1>2. ASSUME ~IsAcceptable' PROVE Sound'
  BY <1>2 DEF Sound, AcceptedOnEvidence
<1>3. ASSUME node \in Node, UNCHANGED <<is_terminal, terminal_ok>> PROVE Sound'
  BY <1>2, <1>3 DEF Settled, IsAcceptable
<1>4. ASSUME ProvisioningFails PROVE Sound'
  BY <1>2, <1>4 DEF ProvisioningFails, WithTerminal, IsAcceptable
<1>5. CASE Planner
  BY <1>3, <1>5 DEF Planner, Enter, Node
<1>6. CASE PlannerRaises \/ CallRaises
  BY <1>1, <1>6 DEF PlannerRaises, CallRaises
<1>7. CASE ProvisionGate
  BY <1>1, <1>4, <1>7 DEF ProvisionGate
<1>8. CASE CodeAuthor
  BY <1>3, <1>8 DEF CodeAuthor, Enter, Node
<1>9. CASE ContentReviser
  BY <1>3, <1>9 DEF ContentReviser, Enter, Node
<1>10. CASE Executor
  BY <1>3, <1>10 DEF Executor, Enter, Node
<1>11. CASE ExecutorError
  BY <1>2, <1>11 DEF ExecutorError, WithTerminal, IsAcceptable
<1>12. CASE ExecutorProvisioningFails
  BY <1>4, <1>12 DEF ExecutorProvisioningFails
<1>13. CASE Student
  BY <1>3, <1>13 DEF Student, Enter, Node
<1>14. CASE Reviewer
  BY <1>3, <1>14 DEF Reviewer, Enter, Node
<1>15. CASE RevisorEnds
  BY <1>15, RevisorAccepts
<1>16. CASE RevisorRoutes
  BY <1>3, <1>16 DEF RevisorRoutes, Enter, Node
<1>17. CASE RevisorRaises
  BY <1>1, <1>17 DEF RevisorRaises
<1>18. CASE RecursionLimitReached
  BY <1>1, <1>18 DEF RecursionLimitReached
<1>19. CASE Deliver
  BY <1>1, <1>19 DEF Deliver
<1>20. CASE WriteCrashStub
  BY <1>1, <1>20 DEF WriteCrashStub
<1>21. CASE UNCHANGED vars
  BY <1>1, <1>21 DEF vars
<1>22. CASE ProvisioningRaises
  BY <1>1, <1>22 DEF ProvisioningRaises
<1> QED
  BY <1>5, <1>6, <1>7, <1>8, <1>9, <1>10, <1>11, <1>12, <1>13, <1>14, <1>15, <1>16,
     <1>17, <1>18, <1>19, <1>20, <1>21, <1>22 DEF Next, Pass, Done

LEMMA AlwaysSound == Spec => []Sound
<1>1. Init => Sound
  BY DEF Init, Sound, AcceptedOnEvidence, IsAcceptable
<1> QED
  BY <1>1, NextSound, AlwaysTyped, AlwaysSettled, AlwaysFresh, PTL DEF Spec

\* A run ends ACCEPTABLE only on complete and clean evidence, whatever the two
\* models answered on the way: the last notebook ran without an error, the
\* student graded it at or above the threshold with no fatal dimension, and
\* neither critic alone held anything against it.
THEOREM AcceptedOnEvidenceHolds == Spec => []AcceptedOnEvidence
BY AlwaysSound, PTL DEF Sound

\* What the run directory holds follows from the end the run came to.
Honest ==
  /\ node \notin Closed => files = {} /\ shipped = None
  /\ node = "crashed" => shipped = None
  /\ LessonShipsOnlyIfAccepted

LEMMA NextHonest == Typed /\ Settled /\ Sound /\ Honest /\ [Next]_vars => Honest'
<1> SUFFICES ASSUME Typed, Settled, Sound, Honest, [Next]_vars
             PROVE  Honest'
  OBVIOUS
<1>1. CASE Deliver
  <2>1. node' = "delivered" /\ UNCHANGED <<state, store>> /\ files = {}
    BY <1>1 DEF Deliver, Honest, Closed
  <2>2. IsAcceptable' = IsAcceptable /\ LatestNotebook' = LatestNotebook
    BY <2>1 DEF IsAcceptable, LatestNotebook, LatestOf, state
  <2>3. shipped' # None => shipped' = [source |-> "executed", notebook |-> LatestNotebook]
    BY <1>1 DEF Deliver, Sound
  <2>4. /\ "lesson.ipynb" \in files' <=> IsAcceptable
        /\ ~({"lesson.ipynb", "FAILED.md"} \subseteq files')
    BY <1>1 DEF Deliver
  <2> QED
    BY <2>1, <2>2, <2>3, <2>4 DEF Honest, LessonShipsOnlyIfAccepted, Closed
<1>2. CASE WriteCrashStub
  <2>1. /\ node' = "crashed" /\ shipped' = None
        /\ files' \subseteq {"FAILED.md"}
    BY <1>2 DEF WriteCrashStub, Honest, Closed
  <2> QED
    BY <2>1 DEF Honest, LessonShipsOnlyIfAccepted, Closed
<1>3. CASE UNCHANGED vars
  BY <1>3 DEF vars, Honest, LessonShipsOnlyIfAccepted, IsAcceptable, LatestNotebook,
              LatestOf, state, deliverables
<1>4. CASE node \in Node /\ ~Deliver /\ ~WriteCrashStub /\ ~UNCHANGED vars
  <2>1. UNCHANGED deliverables
    BY <1>4 DEF Next, Pass, Planner, PlannerRaises, CallRaises, ProvisionGate, ProvisioningRaises, ProvisioningFails,
         CodeAuthor, ContentReviser, Executor, ExecutorError, ExecutorProvisioningFails,
         Student, Reviewer, RevisorEnds, RevisorRoutes, RevisorRaises,
         RecursionLimitReached, Done, vars, deliverables
  <2>2. node' \notin Closed
    <3>1. node' \in Node \cup Stopped
      BY <1>4, RoutingStep DEF Typed, Next, Pass, Planner, PlannerRaises, CallRaises, ProvisionGate,
         ProvisioningRaises, CodeAuthor, ContentReviser, Executor, ExecutorError, ExecutorProvisioningFails,
         Student, Reviewer, RevisorEnds, RevisorRoute, RevisorRaises,
         RecursionLimitReached, Done, Continue, WithTerminal, Node, Stopped, Target
    <3> QED
      BY <3>1 DEF Node, Stopped, Closed
  <2>3. node \notin Closed
    BY <1>4 DEF Node, Closed
  <2> QED
    BY <2>1, <2>2, <2>3 DEF Honest, LessonShipsOnlyIfAccepted, deliverables, Closed
<1>5. CASE node \notin Node /\ ~Deliver /\ ~WriteCrashStub /\ ~UNCHANGED vars
  BY <1>5 DEF Next, Pass, Node, Enter, Planner, PlannerRaises, CallRaises, ProvisionGate, ProvisioningRaises,
         CodeAuthor, ContentReviser, Executor, ExecutorError, ExecutorProvisioningFails, Student,
         Reviewer, RevisorEnds, RevisorRoutes, RevisorRaises, RecursionLimitReached, Done
<1> QED
  BY <1>1, <1>2, <1>3, <1>4, <1>5

LEMMA AlwaysHonest == Spec => []Honest
<1>1. Init => Honest
  BY DEF Init, Honest, LessonShipsOnlyIfAccepted, Closed
<1> QED
  BY <1>1, NextHonest, AlwaysTyped, AlwaysSettled, AlwaysSound, PTL DEF Spec

\* The deliverable is honest in every run: a lesson file exactly when the run
\* ended acceptable, never beside a failure note, and always the executed copy
\* of the last notebook.
THEOREM LessonShipsOnlyIfAcceptedHolds == Spec => []LessonShipsOnlyIfAccepted
BY AlwaysHonest, PTL DEF Honest

(***************************************************************************)
(* The refinement.                                                         *)
(***************************************************************************)

\* Until the caller writes its answer the run is open and nothing is shipped;
\* from then on nothing moves.
LEMMA NodesStayOpen ==
  ASSUME Typed, Next, ~Deliver, ~WriteCrashStub
  PROVE  /\ UNCHANGED deliverables
         /\ node \notin Closed => node' \notin Closed
         /\ node \in Closed => node' = node
<1>1. CASE Done
  BY <1>1 DEF Done, vars
<1>2. CASE ~Done
  <2>1. UNCHANGED deliverables
    BY <1>2 DEF Next, Pass, Planner, PlannerRaises, CallRaises, ProvisionGate, ProvisioningRaises, ProvisioningFails,
         CodeAuthor, ContentReviser, Executor, ExecutorError, ExecutorProvisioningFails,
         Student, Reviewer, RevisorEnds, RevisorRoutes, RevisorRaises,
         RecursionLimitReached, deliverables
  <2>2. node \in Node
    BY <1>2 DEF Next, Pass, Node, Enter, Planner, PlannerRaises, CallRaises, ProvisionGate, ProvisioningRaises,
         CodeAuthor, ContentReviser, Executor, ExecutorError, ExecutorProvisioningFails, Student,
         Reviewer, RevisorEnds, RevisorRoutes, RevisorRaises, RecursionLimitReached
  <2>3. node' \in Node \cup Stopped
    BY <1>2, RoutingStep DEF Typed, Next, Pass, Planner, PlannerRaises, CallRaises, ProvisionGate, ProvisioningRaises,
         CodeAuthor, ContentReviser, Executor, ExecutorError, ExecutorProvisioningFails,
         Student, Reviewer, RevisorEnds, RevisorRoute, RevisorRaises,
         RecursionLimitReached, Continue, WithTerminal, Node, Stopped, Target
  <2> QED
    BY <2>1, <2>2, <2>3 DEF Node, Stopped, Closed
<1> QED
  BY <1>1, <1>2

\* What the caller of the abstract run sees.
SeenVerdict == IF node = "crashed" THEN "crashed"
               ELSE IF node # "delivered" THEN "open"
               ELSE IF "lesson.ipynb" \in files THEN "accepted" ELSE "refused"
SeenLesson == IF shipped = None THEN "none" ELSE shipped.source

\* The caller's answer is the abstract run's one verdict: a lesson that was
\* executed with an acceptance, none with a refusal.
LEMMA DeliverIsTheVerdict ==
  ASSUME Typed, Sound, Honest, Deliver
  PROVE  Lesson!Accept \/ Lesson!Refuse
<1>1. /\ node = "END" /\ node' = "delivered"
      /\ UNCHANGED stage_attempts
      /\ shipped = None
  BY DEF Deliver, Honest, Closed, state
<1>2. SeenVerdict = "open" /\ SeenLesson = "none"
  BY <1>1 DEF SeenVerdict, SeenLesson
<1>3. CASE IsAcceptable
  <2>1. "lesson.ipynb" \in files' /\ shipped' = FinalNotebook
    BY <1>3 DEF Deliver
  <2>2. FinalNotebook = [source |-> "executed", notebook |-> LatestNotebook]
    BY <1>3 DEF Sound
  <2>3. SeenVerdict' = "accepted"
    BY <1>1, <2>1 DEF SeenVerdict
  <2>4. SeenLesson' = "executed"
    <3>1. shipped' \in {[source |-> "executed", notebook |-> LatestNotebook]}
      BY <2>1, <2>2
    <3>2. LatestNotebook \in Version
      BY LookupTypes
    <3>3. shipped' # None
      BY <3>1, <3>2, NoReportAssumption DEF Shipped
    <3> QED
      BY <3>1, <3>3 DEF SeenLesson
  <2> QED
    BY <1>1, <1>2, <2>3, <2>4 DEF Lesson!Accept, SeenVerdict, SeenLesson
<1>4. CASE ~IsAcceptable
  <2>1. "lesson.ipynb" \notin files' /\ shipped' = None
    BY <1>4 DEF Deliver
  <2>2. SeenVerdict' = "refused" /\ SeenLesson' = "none"
    BY <1>1, <2>1 DEF SeenVerdict, SeenLesson
  <2> QED
    BY <1>1, <1>2, <2>2 DEF Lesson!Refuse, SeenVerdict, SeenLesson
<1> QED
  BY <1>3, <1>4

\* Every step of the pipeline is one of the abstract run, or none of its business.
LEMMA NextRefines ==
  ASSUME Typed, Sound, Honest, [Next]_vars
  PROVE  [Lesson!Next]_(Lesson!vars)
<1>1. CASE UNCHANGED vars
  BY <1>1 DEF vars, state, deliverables, Lesson!vars
<1>2. CASE Deliver
  BY <1>2, DeliverIsTheVerdict DEF Lesson!Next
<1>3. CASE WriteCrashStub
  <2>1. /\ node \in {"raised", "exhausted"} /\ node' = "crashed"
        /\ UNCHANGED <<stage_attempts, shipped>>
    BY <1>3 DEF WriteCrashStub, state
  <2>2. SeenVerdict = "open" /\ SeenVerdict' = "crashed" /\ UNCHANGED SeenLesson
    BY <2>1 DEF SeenVerdict, SeenLesson
  <2>3. Lesson!Refuse
    BY <2>1, <2>2 DEF Lesson!Refuse, SeenVerdict, SeenLesson
  <2> QED
    BY <2>3 DEF Lesson!Next
<1>4. CASE Next /\ ~Deliver /\ ~WriteCrashStub
  <2>1. UNCHANGED <<SeenVerdict, SeenLesson>>
    BY <1>4, NodesStayOpen DEF SeenVerdict, SeenLesson, Closed, deliverables
  <2>2. CASE UNCHANGED stage_attempts
    BY <2>1, <2>2 DEF Lesson!vars, SeenVerdict, SeenLesson
  <2>3. CASE RevisorRoutes
    <3>1. PICK to \in Target :
            /\ stage_attempts[to] < Budget[to]
            /\ stage_attempts' = [stage_attempts EXCEPT ![to] = @ + 1]
      BY <2>3, RoutingStep DEF Typed
    <3>2. to \in DOMAIN Budget
      BY BudgetAssumption
    <3>3. SeenVerdict = "open"
      BY <2>3 DEF RevisorRoutes, Enter, SeenVerdict
    <3>4. Lesson!Redo(to)
      BY <2>1, <3>1, <3>3 DEF Lesson!Redo, SeenVerdict, SeenLesson
    <3> QED
      BY <3>2, <3>4 DEF Lesson!Next
  <2> QED
    BY <2>2, <2>3, CountersStep
<1> QED
  BY <1>1, <1>2, <1>3, <1>4

\* The pipeline implements the safety half of LessonRun, whatever its agents
\* do: revisions within their budgets while the caller waits, then one verdict
\* that stands, with an executed lesson for an accepted run and none otherwise
\* (ImplementsLessonRun without its fairness).
THEOREM ImplementsLessonRunSafely == Spec => Lesson!Init /\ [][Lesson!Next]_(Lesson!vars)
<1>1. Init => Lesson!Init
  <2> SUFFICES ASSUME Init PROVE Lesson!Init
    OBVIOUS
  <2>1. SeenVerdict = "open" /\ SeenLesson = "none"
    BY DEF Init, SeenVerdict, SeenLesson
  <2>2. stage_attempts = [s \in DOMAIN Budget |-> 0]
    BY BudgetAssumption DEF Init
  <2> QED
    BY <2>1, <2>2 DEF Lesson!Init, SeenVerdict, SeenLesson
<1>2. Typed /\ Sound /\ Honest /\ [Next]_vars => [Lesson!Next]_(Lesson!vars)
  BY NextRefines
<1> QED
  BY <1>1, <1>2, AlwaysTyped, AlwaysSound, AlwaysHonest, PTL DEF Spec

(***************************************************************************)
(* Briefs.                                                                 *)
(***************************************************************************)

\* The nodes before the notebook of a pass is written.
Opening == {"planner", "provision_gate", "code_author", "content_reviser"}

\* The brief that started a pass is on disk until its notebook is written.
Briefed ==
  node \in Opening /\ iteration > 0 =>
    /\ iteration - 1 \in DOMAIN briefs
    /\ briefs[iteration - 1].to = routing_log[iteration].to_stage
    /\ briefs[iteration - 1].about = iteration - 1

\* A step to one of these nodes is the reviser's routing, or comes from one of
\* them and leaves briefs and decisions alone.
LEMMA OpeningStep ==
  ASSUME [Next]_vars, ~RevisorRoutes, node' \in Opening
  PROVE  node \in Opening /\ UNCHANGED <<iteration, routing_log, briefs>>
<1>1. node \in Opening
  BY DEF Opening, Next, Pass, Planner, PlannerRaises, CallRaises, ProvisionGate, ProvisioningRaises,
         ProvisioningFails, CodeAuthor, ContentReviser, Executor, ExecutorError,
         ExecutorProvisioningFails, Student, Reviewer, RevisorEnds, RevisorRoute,
         WithTerminal, RevisorRaises, RecursionLimitReached, Deliver, WriteCrashStub,
         Done, vars, Continue, Enter
<1>2. UNCHANGED briefs
  BY DEF Next, Pass, Planner, PlannerRaises, CallRaises, ProvisionGate, ProvisioningRaises,
         ProvisioningFails, CodeAuthor, ContentReviser, Executor, ExecutorError,
         ExecutorProvisioningFails, Student, Reviewer, RevisorEnds,
         RevisorRaises, RecursionLimitReached, Deliver, WriteCrashStub,
         Done, vars, store
<1> QED
  BY <1>1, <1>2, CountersStep

LEMMA NextBriefed ==
  Typed /\ RevisionsAreAccountedFor /\ Fresh /\ Briefed /\ [Next]_vars => Briefed'
<1> SUFFICES ASSUME Typed, RevisionsAreAccountedFor, Fresh, Briefed, [Next]_vars,
                    node' \in Opening, iteration' > 0
             PROVE  /\ iteration' - 1 \in DOMAIN briefs'
                    /\ briefs'[iteration' - 1].to = routing_log'[iteration'].to_stage
                    /\ briefs'[iteration' - 1].about = iteration' - 1
  BY DEF Briefed
<1>1. CASE RevisorRoutes
  <2> DEFINE to == CategoryToStage[Verdict]
  <2>1. node = "revisor" /\ PutBrief(to) /\ WithRoutingDecision(to)
    BY <1>1 DEF RevisorRoutes, Enter
  <2> HIDE DEF to
  <2>2. iteration \in Nat /\ execution_report.ran = iteration
    BY <2>1 DEF Fresh, Typed, TypeOK
  <2>3. iteration' = iteration + 1 /\ iteration' - 1 = iteration
    BY <2>1, <2>2 DEF WithRoutingDecision
  <2>4. iteration \in DOMAIN briefs' /\ briefs'[iteration] = [to |-> to, about |-> iteration]
    BY <2>1, <2>2 DEF PutBrief
  <2>5. routing_log'[iteration + 1] = [iteration |-> iteration, to_stage |-> to]
    BY <2>1, <2>2 DEF WithRoutingDecision, RevisionsAreAccountedFor, Typed, TypeOK
  <2> QED
    BY <2>3, <2>4, <2>5
<1>2. CASE ~RevisorRoutes
  <2>1. node \in Opening /\ UNCHANGED <<iteration, routing_log, briefs>>
    BY <1>2, OpeningStep
  <2> QED
    BY <2>1 DEF Briefed
<1> QED
  BY <1>1, <1>2

\* Every stage that is redone finds the brief of the pass before it, for the
\* stage the reviser named and about the notebook that pass executed, however
\* the passes before it went.
THEOREM EveryRevisionHasItsBriefHolds == Spec => []EveryRevisionHasItsBrief
<1>1. Init => Briefed
  BY DEF Init, Briefed
<1>2. Spec => []Briefed
  BY <1>1, NextBriefed, AlwaysTyped, RevisionsAreAccountedForHolds, AlwaysFresh, PTL DEF Spec
<1>3. Briefed => EveryRevisionHasItsBrief
  BY DEF Briefed, EveryRevisionHasItsBrief, Opening
<1> QED
  BY <1>2, <1>3, PTL

(***************************************************************************)
(* Artifact names.                                                         *)
(***************************************************************************)

\* The kinds of artifact the pass may still write when it is at a node.
ToCome(n) ==
  CASE n = "planner" -> {"planner", "lesson_notebook", "executor", "student", "reviewer"}
    [] n \in Opening \ {"planner"} -> {"lesson_notebook", "executor", "student", "reviewer"}
    [] n = "executor" -> {"executor", "student", "reviewer"}
    [] n = "student" -> {"student", "reviewer"}
    [] n = "reviewer" -> {"reviewer"}
    [] OTHER -> {}

\* No output is from a later pass, and none of this pass is of a kind to come.
Numbered ==
  /\ ArtifactNamesAreFresh
  /\ \A i \in DOMAIN outputs :
       /\ outputs[i].iteration <= iteration
       /\ outputs[i].iteration = iteration => ArtifactKind(outputs[i].stage) \notin ToCome(node)

\* A node that writes the artifact it is there for, and moves on.
LEMMA WriteNumbered ==
  ASSUME Typed, Numbered, NEW stage \in Stage, WithOutput(stage), iteration' = iteration,
         ArtifactKind(stage) \in ToCome(node),
         ToCome(node') \subseteq ToCome(node) \ {ArtifactKind(stage)}
  PROVE  Numbered'
<1> DEFINE n == Len(outputs) + 1
           o == [stage |-> stage, iteration |-> iteration]
<1>1. /\ outputs \in Seq(Output) /\ o \in Output /\ iteration \in Nat
      /\ outputs' = Append(outputs, o)
  BY DEF Typed, TypeOK, Output, WithOutput
<1>2. /\ n \in Nat /\ DOMAIN outputs' = DOMAIN outputs \cup {n} /\ n \notin DOMAIN outputs
      /\ outputs'[n] = o
      /\ \A i \in DOMAIN outputs : outputs'[i] = outputs[i]
  BY <1>1
<1>3. \A i \in DOMAIN outputs :
        outputs[i].iteration = iteration => ArtifactKind(outputs[i].stage) # ArtifactKind(stage)
  BY DEF Numbered
<1>4. ArtifactNamesAreFresh'
  BY <1>2, <1>3 DEF Numbered, ArtifactNamesAreFresh
<1>5. \A i \in DOMAIN outputs' :
        /\ outputs'[i].iteration <= iteration'
        /\ outputs'[i].iteration = iteration' => ArtifactKind(outputs'[i].stage) \notin ToCome(node')
  BY <1>1, <1>2 DEF Numbered
<1> QED
  BY <1>4, <1>5 DEF Numbered

\* A step that writes nothing and opens nothing.
LEMMA SkipNumbered ==
  ASSUME Numbered, UNCHANGED <<outputs, iteration>>, ToCome(node') \subseteq ToCome(node)
  PROVE  Numbered'
BY DEF Numbered, ArtifactNamesAreFresh

LEMMA NextNumbered == Typed /\ Numbered /\ [Next]_vars => Numbered'
<1> SUFFICES ASSUME Typed, Numbered, [Next]_vars
             PROVE  Numbered'
  OBVIOUS
<1>0. \A s \in {"planner", "code_author", "executor", "student", "reviewer", "content_reviser"} :
        s \in Stage
  BY DEF Stage
<1>ended. /\ ToCome("END") = {} /\ ToCome("raised") = {} /\ ToCome("exhausted") = {}
          /\ ToCome("delivered") = {} /\ ToCome("crashed") = {} /\ ToCome("revisor") = {}
  BY DEF ToCome, Opening
<1>coming. /\ ToCome("planner") = {"planner", "lesson_notebook", "executor", "student", "reviewer"}
           /\ \A n \in Opening \ {"planner"} :
                ToCome(n) = {"lesson_notebook", "executor", "student", "reviewer"}
           /\ ToCome("executor") = {"executor", "student", "reviewer"}
           /\ ToCome("student") = {"student", "reviewer"}
           /\ ToCome("reviewer") = {"reviewer"}
  BY DEF ToCome, Opening
<1>opening. /\ "provision_gate" \in Opening \ {"planner"}
            /\ "code_author" \in Opening \ {"planner"}
            /\ "content_reviser" \in Opening \ {"planner"}
  BY DEF Opening
<1>kinds. /\ ArtifactKind("code_author") = "lesson_notebook"
          /\ ArtifactKind("content_reviser") = "lesson_notebook"
          /\ \A s \in {"planner", "executor", "student", "reviewer"} : ArtifactKind(s) = s
  BY DEF ArtifactKind, NotebookStage
<1>1. CASE Planner
  <2>1. /\ node = "planner" /\ WithOutput("planner") /\ iteration' = iteration
        /\ node' \in {"END", "provision_gate", "code_author"}
    BY <1>1 DEF Planner, Enter, Continue
  <2>2. /\ ArtifactKind("planner") \in ToCome(node)
        /\ ToCome(node') \subseteq ToCome(node) \ {ArtifactKind("planner")}
    BY <2>1, <1>ended, <1>coming, <1>opening, <1>kinds
  <2>3. "planner" \in Stage
    BY <1>0
  <2> QED
    BY <2>1, <2>2, <2>3, WriteNumbered
<1>2. CASE CodeAuthor
  <2>1. /\ node = "code_author" /\ WithOutput("code_author") /\ iteration' = iteration
        /\ node' \in {"END", "executor"}
    BY <1>2 DEF CodeAuthor, Enter, Continue
  <2>2. /\ ArtifactKind("code_author") \in ToCome(node)
        /\ ToCome(node') \subseteq ToCome(node) \ {ArtifactKind("code_author")}
    BY <2>1, <1>ended, <1>coming, <1>opening, <1>kinds
  <2>3. "code_author" \in Stage
    BY <1>0
  <2> QED
    BY <2>1, <2>2, <2>3, WriteNumbered
<1>3. CASE ContentReviser
  <2>1. /\ node = "content_reviser" /\ WithOutput("content_reviser") /\ iteration' = iteration
        /\ node' \in {"END", "executor"}
    BY <1>3 DEF ContentReviser, Enter, Continue
  <2>2. /\ ArtifactKind("content_reviser") \in ToCome(node)
        /\ ToCome(node') \subseteq ToCome(node) \ {ArtifactKind("content_reviser")}
    BY <2>1, <1>ended, <1>coming, <1>opening, <1>kinds
  <2>3. "content_reviser" \in Stage
    BY <1>0
  <2> QED
    BY <2>1, <2>2, <2>3, WriteNumbered
<1>4. CASE Executor
  <2>1. /\ node = "executor" /\ WithOutput("executor") /\ iteration' = iteration
        /\ node' \in {"END", "student"}
    BY <1>4 DEF Executor, Enter, Continue
  <2>2. /\ ArtifactKind("executor") \in ToCome(node)
        /\ ToCome(node') \subseteq ToCome(node) \ {ArtifactKind("executor")}
    BY <2>1 DEF ToCome, Opening, ArtifactKind, NotebookStage
  <2>3. "executor" \in Stage
    BY <1>0
  <2> QED
    BY <2>1, <2>2, <2>3, WriteNumbered
<1>5. CASE Student
  <2>1. /\ node = "student" /\ WithOutput("student") /\ iteration' = iteration
        /\ node' \in {"END", "reviewer"}
    BY <1>5 DEF Student, Enter, Continue
  <2>2. /\ ArtifactKind("student") \in ToCome(node)
        /\ ToCome(node') \subseteq ToCome(node) \ {ArtifactKind("student")}
    BY <2>1 DEF ToCome, Opening, ArtifactKind, NotebookStage
  <2>3. "student" \in Stage
    BY <1>0
  <2> QED
    BY <2>1, <2>2, <2>3, WriteNumbered
<1>6. CASE Reviewer
  <2>1. /\ node = "reviewer" /\ WithOutput("reviewer") /\ iteration' = iteration
        /\ node' \in {"END", "revisor"}
    BY <1>6 DEF Reviewer, Enter, Continue
  <2>2. /\ ArtifactKind("reviewer") \in ToCome(node)
        /\ ToCome(node') \subseteq ToCome(node) \ {ArtifactKind("reviewer")}
    BY <2>1 DEF ToCome, Opening, ArtifactKind, NotebookStage
  <2>3. "reviewer" \in Stage
    BY <1>0
  <2> QED
    BY <2>1, <2>2, <2>3, WriteNumbered
<1>7. ASSUME node \in {"provision_gate", "executor"}, ProvisioningFails, node' = "END"
      PROVE  Numbered'
  <2>1. WithOutput("executor") /\ iteration' = iteration
    BY <1>7 DEF ProvisioningFails
  <2>2. /\ ArtifactKind("executor") \in ToCome(node)
        /\ ToCome(node') \subseteq ToCome(node) \ {ArtifactKind("executor")}
    BY <1>7, <1>ended, <1>coming, <1>opening, <1>kinds
  <2>3. "executor" \in Stage
    BY <1>0
  <2> QED
    BY <2>1, <2>2, <2>3, WriteNumbered
<1>8. CASE ProvisionGate
  <2>1. /\ node = "provision_gate"
        /\ node' = IF is_terminal' THEN "END" ELSE "code_author"
    BY <1>8 DEF ProvisionGate, Enter, Continue
  <2>2. CASE ProvisioningFails
    <3>1. node' = "END"
      BY <2>1, <2>2 DEF ProvisioningFails, WithTerminal
    <3> QED
      BY <2>1, <2>2, <3>1, <1>7
  <2>3. CASE UNCHANGED <<state, store, deliverables>>
    BY <2>1, <2>3, <1>ended, <1>coming, <1>opening, SkipNumbered DEF state
  <2> QED
    BY <1>8, <2>2, <2>3 DEF ProvisionGate
<1>9. CASE ExecutorProvisioningFails
  <2>1. node = "executor" /\ ProvisioningFails /\ node' = "END"
    BY <1>9 DEF ExecutorProvisioningFails, Enter, Continue, ProvisioningFails, WithTerminal
  <2> QED
    BY <2>1, <1>7
<1>10. CASE RevisorRoutes
  <2>1. iteration \in Nat /\ iteration' = iteration + 1 /\ outputs' = outputs
        /\ outputs \in Seq(Output)
    BY <1>10 DEF RevisorRoutes, WithRoutingDecision, Typed, TypeOK, Output
  <2>2. \A i \in DOMAIN outputs : outputs[i].iteration \in Nat
    <3> TAKE i \in DOMAIN outputs
    <3>1. outputs[i] \in Output
      BY <2>1
    <3> QED
      BY <3>1 DEF Output
  <2>3. ArtifactNamesAreFresh'
    BY <2>1 DEF Numbered, ArtifactNamesAreFresh
  <2>4. \A i \in DOMAIN outputs :
          outputs[i].iteration <= iteration + 1 /\ outputs[i].iteration # iteration + 1
    BY <2>1, <2>2 DEF Numbered
  <2> QED
    BY <2>1, <2>3, <2>4 DEF Numbered
<1>11. ASSUME node' \in Stopped \cup Closed, UNCHANGED <<outputs, iteration>> PROVE Numbered'
  BY <1>11, <1>ended, SkipNumbered DEF Stopped, Closed
<1>12. CASE PlannerRaises \/ CallRaises \/ ProvisioningRaises \/ RevisorRaises \/ RecursionLimitReached
            \/ Deliver \/ WriteCrashStub
  BY <1>12, <1>11 DEF PlannerRaises, CallRaises, ProvisioningRaises, RevisorRaises, RecursionLimitReached,
       Deliver, WriteCrashStub, Stopped, Closed, state
<1>13. CASE ExecutorError \/ RevisorEnds
  BY <1>13, <1>11 DEF ExecutorError, RevisorEnds, RevisorRoute, WithTerminal, Continue, Stopped
<1>14. CASE UNCHANGED vars
  BY <1>14, SkipNumbered DEF vars, state
<1> QED
  BY <1>1, <1>2, <1>3, <1>4, <1>5, <1>6, <1>8, <1>9, <1>10, <1>12, <1>13, <1>14
     DEF Next, Pass, Done

\* No artifact of a run is ever overwritten, with any budget: every version
\* that was written stays readable under its own name.
THEOREM ArtifactNamesAreFreshHolds == Spec => []ArtifactNamesAreFresh
<1>1. Init => Numbered
  BY DEF Init, Numbered, ArtifactNamesAreFresh
<1> QED
  BY <1>1, NextNumbered, AlwaysTyped, PTL DEF Spec, Numbered

(***************************************************************************)
(* What the summary keeps silent about.                                    *)
(***************************************************************************)

\* Stubs and kept notebooks are on record as soon as they are written.
SubstitutesRecorded ==
  \A v \in DOMAIN notebooks :
    /\ notebooks[v].kind = "stub" => "code_author" \in degradations
    /\ notebooks[v].kind = "kept" => "content_reviser" \in degradations

\* Where a run may end acceptable, a reviewer without an answer is on record.
ReviewOnRecord ==
  node = "revisor" \/ IsAcceptable =>
    "reviewer" \in degradations \/ reviewer_report.report.reviewed

\* Degradations are never taken back.
LEMMA DegradationsGrow ==
  ASSUME [Next]_vars
  PROVE  degradations \subseteq degradations'
BY DEF Next, Pass, Planner, PlannerRaises, CallRaises, ProvisionGate, ProvisioningRaises,
       ProvisioningFails, CodeAuthor, ContentReviser, Executor, ExecutorError,
       ExecutorProvisioningFails, Student, Reviewer, RevisorEnds, RevisorRoutes,
       RevisorRaises, RecursionLimitReached, Deliver, WriteCrashStub,
       Done, vars, state, Degrade

\* Two nodes write notebooks.
LEMMA NotebookWriters ==
  ASSUME [Next]_vars, ~CodeAuthor, ~ContentReviser
  PROVE  UNCHANGED notebooks
BY DEF Next, Pass, Planner, PlannerRaises, CallRaises, ProvisionGate, ProvisioningRaises,
       ProvisioningFails, Executor, ExecutorError,
       ExecutorProvisioningFails, Student, Reviewer, RevisorEnds, RevisorRoutes,
       RevisorRaises, RecursionLimitReached, Deliver, WriteCrashStub,
       Done, vars, store

\* Only the reviewer leads to the reviser, and only the reviser accepts.
LEMMA ToTheVerdict ==
  ASSUME Typed, Settled, [Next]_vars, ~Reviewer, node' = "revisor" \/ IsAcceptable'
  PROVE  /\ node = "revisor" \/ IsAcceptable
         /\ UNCHANGED reviewer_report
<1>1. CASE RevisorRoutes
  <2>1. node = "revisor" /\ UNCHANGED <<is_terminal, terminal_ok>>
    BY <1>1 DEF RevisorRoutes, Enter
  <2>2. node' # "revisor"
    BY <1>1, RoutingStep DEF Typed, Target
  <2> QED
    BY <2>1, <2>2, <1>1 DEF RevisorRoutes
<1>2. CASE RevisorEnds
  BY <1>2 DEF RevisorEnds, Enter, store
<1>3. CASE ~RevisorRoutes /\ ~RevisorEnds
  <2>1. UNCHANGED reviewer_report
    BY <1>3 DEF Next, Pass, Planner, PlannerRaises, CallRaises, ProvisionGate, ProvisioningRaises,
       ProvisioningFails, CodeAuthor, ContentReviser, Executor, ExecutorError,
       ExecutorProvisioningFails, Student,
       RevisorRaises, RecursionLimitReached, Deliver, WriteCrashStub, Done, vars, store
  <2>2. IsAcceptable' => IsAcceptable
    BY <1>3 DEF Next, Pass, Planner, PlannerRaises, CallRaises, ProvisionGate, ProvisioningRaises,
       ProvisioningFails, CodeAuthor, ContentReviser, Executor, ExecutorError,
       ExecutorProvisioningFails, Student,
       RevisorRaises, RecursionLimitReached, Deliver, WriteCrashStub, Done, vars, state, WithTerminal, IsAcceptable
  <2>3. node' = "revisor" => UNCHANGED node
    BY <1>3 DEF Next, Pass, Planner, PlannerRaises, CallRaises, ProvisionGate, ProvisioningRaises,
       ProvisioningFails, CodeAuthor, ContentReviser, Executor, ExecutorError,
       ExecutorProvisioningFails, Student,
       RevisorRaises, RecursionLimitReached, Deliver, WriteCrashStub, Done, vars, Continue
  <2> QED
    BY <2>1, <2>2, <2>3
<1> QED
  BY <1>1, <1>2, <1>3

LEMMA NextSubstitutesRecorded ==
  Typed /\ SubstitutesRecorded /\ [Next]_vars => SubstitutesRecorded'
<1> SUFFICES ASSUME Typed, SubstitutesRecorded, [Next]_vars
             PROVE  SubstitutesRecorded'
  OBVIOUS
<1>1. degradations \subseteq degradations'
  BY DegradationsGrow
<1>2. ASSUME NEW result, PutNotebook(result),
             result.kind = "stub" => "code_author" \in degradations',
             result.kind = "kept" => "content_reviser" \in degradations'
      PROVE  SubstitutesRecorded'
  BY <1>1, <1>2 DEF SubstitutesRecorded, PutNotebook
<1>3. CASE CodeAuthor
  <2>1. PICK result \in AuthorResult :
          PutNotebook(result) /\ Degrade("code_author", result.kind = "stub")
    BY <1>3 DEF CodeAuthor
  <2>2. result.kind # "kept"
    BY DEF AuthorResult
  <2> QED
    BY <1>2, <2>1, <2>2 DEF Degrade
<1>4. CASE ContentReviser
  <2>1. PICK kind \in {"rewrite", "kept"} :
          /\ PutNotebook([kind |-> kind, base |-> LatestNotebook])
          /\ Degrade("content_reviser", kind = "kept")
    BY <1>4 DEF ContentReviser
  <2> QED
    BY <1>2, <2>1 DEF Degrade
<1>5. CASE ~CodeAuthor /\ ~ContentReviser
  BY <1>1, <1>5, NotebookWriters DEF SubstitutesRecorded
<1> QED
  BY <1>3, <1>4, <1>5

LEMMA NextReviewOnRecord ==
  Typed /\ Settled /\ ReviewOnRecord /\ [Next]_vars => ReviewOnRecord'
<1> SUFFICES ASSUME Typed, Settled, ReviewOnRecord, [Next]_vars,
                    node' = "revisor" \/ IsAcceptable'
             PROVE  "reviewer" \in degradations' \/ reviewer_report'.report.reviewed
  BY DEF ReviewOnRecord
<1>1. CASE Reviewer
  <2>1. PICK answer \in ReviewerAnswers :
          /\ reviewer_report' = [report |-> ReadReviewerReport(answer), read |-> AuthorsNotebook]
          /\ Degrade("reviewer", ~answer.usable)
    BY <1>1 DEF Reviewer
  <2>2. CASE answer.usable
    BY <2>1, <2>2 DEF ReadReviewerReport
  <2>3. CASE ~answer.usable
    BY <2>1, <2>3 DEF Degrade
  <2> QED
    BY <2>2, <2>3
<1>2. CASE ~Reviewer
  BY <1>2, ToTheVerdict, DegradationsGrow DEF ReviewOnRecord
<1> QED
  BY <1>1, <1>2

\* A summary that lists no degradation is right about every pass of the run:
\* every notebook in the store is one a model wrote for it, and an accepted
\* run was reviewed.
THEOREM SilentSummaryIsHonestHolds == Spec => []SilentSummaryIsHonest
<1>1. Init => SubstitutesRecorded /\ ReviewOnRecord
  BY DEF Init, SubstitutesRecorded, ReviewOnRecord, IsAcceptable
<1>2. SubstitutesRecorded /\ ReviewOnRecord => SilentSummaryIsHonest
  BY DEF SubstitutesRecorded, ReviewOnRecord, SilentSummaryIsHonest
<1> QED
  BY <1>1, <1>2, NextSubstitutesRecorded, NextReviewOnRecord, AlwaysTyped, AlwaysSettled,
     PTL DEF Spec

(***************************************************************************)
(* What the critics read.                                                  *)
(***************************************************************************)

\* Up to the latest one, every notebook after the author's last is its
\* predecessor rewritten.
Rewritten(v) ==
  /\ v \in DOMAIN notebooks
  /\ notebooks[v].kind \in {"rewrite", "kept"}
  /\ notebooks[v].base = v - 1

Descends ==
  /\ node \in Opening => LatestNotebook = iteration - 1
  /\ node = "content_reviser" => iteration > 0
  /\ LatestNotebook # NoVersion =>
       /\ AuthorsNotebook \in 0..LatestNotebook
       /\ \A v \in AuthorsNotebook + 1 .. LatestNotebook : Rewritten(v)
  /\ node \in {"reviewer", "revisor"} => grade_report.read = AuthorsNotebook
  /\ node = "revisor" => reviewer_report.read = AuthorsNotebook

\* A step that writes no notebook leaves the descent as it is.
LEMMA DescentKept ==
  ASSUME Descends, UNCHANGED <<LatestNotebook, AuthorsNotebook, notebooks>>
  PROVE  LatestNotebook' # NoVersion =>
           /\ AuthorsNotebook' \in 0..LatestNotebook'
           /\ \A v \in AuthorsNotebook' + 1 .. LatestNotebook' : Rewritten(v)'
BY DEF Descends, Rewritten

LEMMA ScansKept ==
  ASSUME Typed, [Next]_vars, ~CodeAuthor, ~ContentReviser
  PROVE  UNCHANGED <<LatestNotebook, AuthorsNotebook, notebooks>>
<1>1. ASSUME NEW stage \in Stage, WithOutput(stage), stage \notin NotebookStage
      PROVE  UNCHANGED <<LatestNotebook, AuthorsNotebook>>
  <2>1. "code_author" \in Stage /\ stage # "code_author"
    BY <1>1 DEF Stage, NotebookStage
  <2>2. LatestNotebook' = LatestNotebook /\ LatestOf({"code_author"})' = LatestOf({"code_author"})
    BY <1>1, <2>1, ScanStep
  <2> QED
    BY <2>2 DEF AuthorsNotebook
<1>2. /\ \A s \in {"planner", "executor", "student", "reviewer"} :
           s \in Stage /\ s \notin NotebookStage
  BY DEF Stage, NotebookStage
<1>3. (\E s \in {"planner", "executor", "student", "reviewer"} : WithOutput(s))
        \/ UNCHANGED outputs
  BY DEF Next, Pass, Planner, PlannerRaises, CallRaises, ProvisionGate, ProvisioningRaises,
       ProvisioningFails, Executor, ExecutorError,
       ExecutorProvisioningFails, Student, Reviewer, RevisorEnds, RevisorRoutes,
       RevisorRaises, RecursionLimitReached, Deliver, WriteCrashStub,
       Done, vars, state
<1>4. UNCHANGED outputs => UNCHANGED <<LatestNotebook, AuthorsNotebook>>
  BY DEF LatestNotebook, AuthorsNotebook, LatestOf
<1>5. UNCHANGED <<LatestNotebook, AuthorsNotebook>>
  BY <1>1, <1>2, <1>3, <1>4
<1> QED
  BY <1>5, NotebookWriters

LEMMA NextDescends == Typed /\ Fresh /\ Descends /\ [Next]_vars => Descends'
<1> SUFFICES ASSUME Typed, Fresh, Descends, [Next]_vars
             PROVE  Descends'
  OBVIOUS
<1>0. /\ iteration \in Nat /\ LatestNotebook \in Version /\ AuthorsNotebook \in Version
      /\ NoVersion = -1
  BY LookupTypes DEF Typed, TypeOK, NoVersion
<1>1. CASE CodeAuthor
  <2>1. /\ node' \in {"END", "executor"} /\ iteration' = iteration
    BY <1>1 DEF CodeAuthor, Continue
  <2>2. LatestNotebook' = iteration /\ AuthorsNotebook' = iteration
    BY <1>1, ScanStep DEF CodeAuthor, NotebookStage, Stage, AuthorsNotebook
  <2> QED
    BY <1>0, <2>1, <2>2 DEF Descends, Opening
<1>2. CASE ContentReviser
  <2>1. /\ node = "content_reviser" /\ node' \in {"END", "executor"} /\ iteration' = iteration
        /\ WithOutput("content_reviser")
    BY <1>2 DEF ContentReviser, Enter, Continue
  <2>2. LatestNotebook = iteration - 1 /\ iteration > 0
    BY <2>1 DEF Descends, Opening
  <2>3. LatestNotebook' = iteration /\ AuthorsNotebook' = AuthorsNotebook
    BY <2>1, ScanStep DEF NotebookStage, Stage, AuthorsNotebook
  <2>4. PICK kind \in {"rewrite", "kept"} : PutNotebook([kind |-> kind, base |-> LatestNotebook])
    BY <1>2 DEF ContentReviser
  <2>5. ASSUME NEW v, v = iteration PROVE Rewritten(v)'
    BY <2>1, <2>2, <2>4, <2>5 DEF PutNotebook, Rewritten
  <2>6. ASSUME NEW v \in AuthorsNotebook + 1 .. LatestNotebook PROVE Rewritten(v)'
    <3>1. AuthorsNotebook \in 0..LatestNotebook /\ Rewritten(v)
      BY <1>0, <2>2 DEF Descends
    <3>2. v # iteration
      BY <1>0, <2>2, <3>1
    <3> QED
      BY <2>4, <3>1, <3>2 DEF PutNotebook, Rewritten
  <2>7. \A v \in AuthorsNotebook' + 1 .. LatestNotebook' : Rewritten(v)'
    <3> SUFFICES ASSUME NEW v \in AuthorsNotebook + 1 .. iteration PROVE Rewritten(v)'
      BY <2>3
    <3>1. AuthorsNotebook \in 0..LatestNotebook
      BY <1>0, <2>2 DEF Descends
    <3>2. v = iteration \/ v \in AuthorsNotebook + 1 .. LatestNotebook
      BY <1>0, <2>2, <3>1
    <3> QED
      BY <2>5, <2>6, <3>2
  <2>8. AuthorsNotebook' \in 0..LatestNotebook'
    <3>1. AuthorsNotebook \in 0..LatestNotebook
      BY <1>0, <2>2 DEF Descends
    <3> QED
      BY <1>0, <2>2, <2>3, <3>1
  <2> QED
    BY <2>1, <2>7, <2>8 DEF Descends, Opening
<1>3. CASE RevisorRoutes
  <2>1. PICK to \in Target : iteration' = iteration + 1 /\ node' \in {"END", to}
    BY <1>3, RoutingStep DEF Typed
  <2>2. node = "revisor" /\ LatestNotebook = iteration
    BY <1>3 DEF RevisorRoutes, Enter, Fresh
  <2>3. UNCHANGED <<LatestNotebook, AuthorsNotebook, notebooks>>
    BY <1>3, ScansKept DEF RevisorRoutes, CodeAuthor, ContentReviser, Enter
  <2>4. node' \in {"END", "planner", "code_author", "content_reviser"}
    BY <2>1 DEF Target
  <2>5. LatestNotebook' = iteration' - 1 /\ iteration' > 0
    BY <1>0, <2>1, <2>2, <2>3
  <2>6. node' \notin {"reviewer", "revisor"}
    BY <2>4
  <2>7. LatestNotebook' # NoVersion =>
           /\ AuthorsNotebook' \in 0..LatestNotebook'
           /\ \A v \in AuthorsNotebook' + 1 .. LatestNotebook' : Rewritten(v)'
    BY <2>3, DescentKept
  <2> QED
    BY <2>5, <2>6, <2>7 DEF Descends
<1>4. CASE Student
  <2>1. /\ node' \in {"END", "reviewer"} /\ grade_report'.read = AuthorsNotebook
        /\ node = "student"
    BY <1>4 DEF Student, Enter, Continue
  <2>2. UNCHANGED <<LatestNotebook, AuthorsNotebook, notebooks>>
    BY <2>1, ScansKept DEF CodeAuthor, ContentReviser, Enter
  <2> QED
    BY <2>1, <2>2, DescentKept DEF Descends, Opening
<1>5. CASE Reviewer
  <2>1. /\ node' \in {"END", "revisor"} /\ reviewer_report'.read = AuthorsNotebook
        /\ node = "reviewer" /\ UNCHANGED grade_report
    BY <1>5 DEF Reviewer, Enter, Continue
  <2>2. UNCHANGED <<LatestNotebook, AuthorsNotebook, notebooks>>
    BY <2>1, ScansKept DEF CodeAuthor, ContentReviser, Enter
  <2> QED
    BY <2>1, <2>2, DescentKept DEF Descends, Opening
<1>6. CASE ~CodeAuthor /\ ~ContentReviser /\ ~RevisorRoutes /\ ~Student /\ ~Reviewer
  <2>1. UNCHANGED <<LatestNotebook, AuthorsNotebook, notebooks>>
    BY <1>6, ScansKept
  <2>2. node' \in Opening => node \in Opening /\ UNCHANGED iteration
    BY <1>6, OpeningStep
  <2>3. /\ node' = "content_reviser" => node = "content_reviser"
        /\ node' \in {"reviewer", "revisor"} => UNCHANGED <<node, grade_report, reviewer_report>>
    BY <1>6 DEF Next, Pass, Planner, PlannerRaises, CallRaises, ProvisionGate, ProvisioningRaises,
         Executor, ExecutorError, ExecutorProvisioningFails, RevisorEnds, RevisorRoute,
         WithTerminal, RevisorRaises, RecursionLimitReached, Deliver, WriteCrashStub, Done,
         vars, store, Continue
  <2>4. "content_reviser" \in Opening
    BY DEF Opening
  <2> QED
    BY <2>1, <2>2, <2>3, <2>4, DescentKept DEF Descends
<1> QED
  BY <1>1, <1>2, <1>3, <1>4, <1>5, <1>6

\* What the critics judge is, with any budget and any answers, the notebook
\* that ran or one it descends from by rewrites alone.
THEOREM CriticsReadAnAncestorHolds == Spec => []CriticsReadAnAncestor
<1>1. Init => Descends
  <2> SUFFICES ASSUME Init PROVE Descends
    OBVIOUS
  <2>1. \A stages : LatestIn(<<>>, stages) = NoVersion
    BY DEF LatestIn, OutputsOf
  <2> QED
    BY <2>1 DEF Init, Descends, LatestNotebook, LatestOf, NoVersion
<1>2. Typed /\ Fresh /\ Descends => CriticsReadAnAncestor
  <2> SUFFICES ASSUME Typed, Fresh, Descends, node = "revisor"
               PROVE  /\ grade_report.read = reviewer_report.read
                      /\ grade_report.read \in 0..execution_report.ran
                      /\ \A v \in grade_report.read + 1 .. execution_report.ran :
                           notebooks[v].kind \in {"rewrite", "kept"} /\ notebooks[v].base = v - 1
    BY DEF CriticsReadAnAncestor
  <2>1. LatestNotebook = iteration /\ execution_report.ran = iteration /\ iteration # NoVersion
    BY DEF Fresh, Typed, TypeOK, NoVersion
  <2> QED
    BY <2>1 DEF Descends, Rewritten
<1> QED
  BY <1>1, <1>2, NextDescends, AlwaysTyped, AlwaysFresh, PTL DEF Spec

=============================================================================

# Forged: a verification project in TLA+

`forged` turns a topic and a learner profile into a lesson notebook, or into a
course of them. Language models plan, write and criticise; deterministic code
decides what happens next. This project models that deterministic part: who may
run after whom, what is read by whom, when the loop stops, and what a run leaves
behind. What a model answers is a nondeterministic choice everywhere.

Paths below are relative to `src/forged/`.

## 1. The system

### Components, their state and their operations

| Component | Code | State it keeps | Operations |
|---|---|---|---|
| Lesson graph | `pipeline/graph.py`, `pipeline/state.py` | one immutable `PipelineState`: iteration, outputs, routing log, attempts, degradations, terminal flag | one coroutine per node, run one at a time by LangGraph; conditional edges |
| Classifier | `pipeline/failure.py` | none | `classify`: a cascade of rules over merged evidence |
| Router | `pipeline/router.py` | budgets | `route`: category and attempts to a stage, or the end |
| Reviser | `pipeline/agents/reviser.py` | none | read, coerce and merge reports; classify; write the brief; start the next pass |
| Writing agents | `agents/planner.py`, `code_author.py`, `content_reviser.py` | none | plan; draft or patch a notebook; rewrite its prose |
| Critics | `agents/student.py`, `reviewer.py` | none | a graded report; a second report without a grade |
| Executor | `agents/executor.py`, `executor.py` | none | run the notebook in a kernel, write report and executed copy |
| Environment cache | `provisioning.py`, `pipeline/provision_gate.py` | venvs under a cache root, the user's kernel registry | build, cache hit, failure |
| Artifact store | `artifacts.py` | a run directory | put, get |
| Deliverables | `deliverables.py` | files of the run directory | summary, notebook or failure note, package, crash stub |
| Course | `curriculum/` | `CourseSpec`, results | plan, edit, gate, run modules in order, remediate, assemble |
| Front door | `ui/`, `service.py` | `Session` (plan, undo history, confirmation, launch), the environment's API key | plan, edit, adjust, undo, confirm, options, launch |
| Safety net | `curriculum/reactive.py` | the grown course, results not handled yet, rounds | plan a round, run its modules, end it |
| Assembler | `curriculum/assembler.py`, `cli.py` | files of the course directory, the exit code | index, report, navigation |
| Model client | `llm.py`, `usage.py` | an SDK client per agent, one tracer per process, usage ledger | one call, one retry on truncation |

How they interact: the graph calls an agent per node; an agent reads the store by
the names it finds in `state.outputs`, calls a model, puts an artifact and
returns a new state. The reviser is the only agent that chooses the next node.
The caller of the graph (the command line, or the course orchestrator for each
module) writes the deliverables from the final state, and the orchestrator also
writes a crash stub when the graph raised. The gate and the executor both ask the
environment cache for a kernel. The front door runs planner and adjuster in its
own process and launches the build as a subprocess.

### What is hard

* **Stale evidence.** Agents find their input by scanning the outputs backwards,
  each for its own set of stages. Two stages write notebooks, and not every reader
  looks for both.
* **Loops.** Three targets, three budgets, three counters kept apart.
* **Failure of one stage of many.** Every agent degrades in its own way on the errors it
  expects, and all that call a model, the provisioning and the reviser may raise others; the
  deliverables must stay honest for all of it.
* **The cascade.** Ten rules in a fixed order over two critics' merged reports.
* **A cache on disk without a lock**, with kills, timeouts and a registry that is
  shared more widely than the cache.
* **Sessions.** The front door's callbacks overlap: a model call takes seconds
  while other callbacks change the same session.
* **A key in the environment of the process**, for the calls of several tabs at once.
* **A course that grows while it runs**, under two bounds, on signals of the modules
  that were run so far.

`PROJECT.json` lists these as hazards, each at its line, with the properties that
cover it or the reason why none does yet.

## 2. The modules

| Module | Models | Lines of code it stands for |
|---|---|---|
| `Failure` | classifier, coercions and merges; pure operators | `failure.py`, readers of `reviser.py`, parsers of the critics |
| `Router` | category to stage, budgets | `router.py` |
| `LessonPipeline` | one lesson run: graph, agents, store, deliverables | `graph.py`, `state.py`, `agents/*`, `provision_gate.py`, `deliverables.py`, one module of `orchestrator.py` |
| `LessonRun` | abstract: what a lesson run promises its caller | a specification, not a translation |
| `Judgement` | the verdict on one pass for any answers | `reviser.py` and `failure.py` alone |
| `Provisioning` | processes over the environment cache | `provisioning.py` |
| `CoursePlan` | a course and its edits; pure operators | `curriculum/operations.py`, `model.py`, the step function of `gate.py` |
| `PlanGate` | `forged learn` up to the build | `cli.py`, `gate.py`, `adjuster.py`, `planner.py` |
| `FrontDoor` | one browser tab: its session, overlapping listeners, the builds it launches | `ui/front_door.py`, `ui/app.py`, `service.py`, `cli._build_confirmed` |
| `ModelCalls` | the key scope and the model calls of several tabs | `service.py`, `llm.py` |
| `CourseRun` | a course with its safety net, to the assembled outcome | `orchestrator.py`, `reactive.py`, `assembler.py`, `cli.py` |
| `MC*` | instances for TLC | |
| `*Proofs` | theorems about the module of that name | |

`LessonPipeline` extends `Failure` and `Router`; its refinement mapping
instantiates `LessonRun`. `Judgement` extends `Failure`; `PlanGate` and `FrontDoor`
extend `CoursePlan`, so that both edit a course with the same operators. `CourseRun`
sees of a lesson run what `ModuleResult` keeps: the verdict and the signals.

### LessonPipeline: state and actions

An action is the whole coroutine of a node with the conditional edge behind it:
`node` is the node about to run. `Enter` is LangGraph's own step counter (an
external definition). Correspondences that are not by name:

* `outputs` keeps stage and iteration of every `StageOutput`. An artifact's name is
  `<kind>_v<iteration>`, so the version of an artifact *is* an iteration.
* `notebooks` is the store's notebooks: a version's kind (`draft`, the two-cell
  `stub`, a `patch`, a `rewrite`, an unrevised copy `kept`) and the version it was
  made from. `briefs` says what stage a revision brief is for and which notebook's
  execution it describes. Of the reports only the latest can be read by any node
  (every scan is backwards and the student, the reviewer and the executor write one
  per pass), so only the latest is kept.
* `LatestNotebook` and `AuthorsNotebook` are the two backward scans of the code: for
  both notebook stages, and for the code author alone.
* `ProvisioningFails` is shared by the gate and the executor as `_terminal_failure`
  is in the code.
* `PlannerRaises`, `CallRaises` and `ProvisioningRaises` are the errors nobody on the way
  catches. Code author, content reviser, student and reviewer catch the `RuntimeError` that a
  failed request becomes; what `LLMClient.complete` does before and after the request (it
  opens the observation, it reads the first choice) and a missing persona raise others.
* `RevisorEnds`, `RevisorRoutes` and `RevisorRaises` are the three ways
  `RevisorAgent.run` ends. It raises on values the reader does not expect in an
  answer that has the required keys.
* `Deliver` and `WriteCrashStub` are the caller's part. `InCourse` chooses between
  the orchestrator and the command line, which writes nothing when the graph raised.

### Provisioning: state and actions

`venv[r]` is the set of parts on disk under cache root `r`, `kernel` the root whose
venv the registered kernel runs in. Every subprocess is one step, at its end; `Fail`
is the local function `fail`, with the registration possibly done when it timed out;
`Crash` kills a process anywhere. An ok is a `hit` or `built`, as `cache_hit` says.
`Concurrent = FALSE` runs requests one at a time.

### PlanGate: state and actions

`course` is the plan on screen, `rounds` the lines read. Every line is a round, also
one that cannot be applied. `Adjust(op)` is a structural edit: `Applies` says where
`apply_adjustment` does not raise, `ApplyStructural` what it returns, `WarnedOf` what
the warning names. `Decide` is a yes or a no, `Replan` a plan by the planner or, when
that fails, the old one. The classifier may answer any list of the constant
`TargetList`, wrong numbers and repeated ones included. A title is the sequence of
names joined in it, so a merged title contains its parts. `BuildConfirmed` is the
decision between a lesson, a course and a refusal. The names begin with `Gate` where
`FrontDoor` has one of its own, so that one module can prove about both.

The edits themselves are in `CoursePlan`. `DropLoop` is the `for` over the targets of a
drop, as a function of the number of targets handled; `DropOrder` is `sorted`, as a
permutation of the list that never rises (equal numbers cannot be told apart), because
the library's sort has a meaning for TLC only and nothing could be proved of it.

### FrontDoor: state and actions

`session` is the `gr.State` of the tab. A listener of Gradio gets the session value
when it is clicked and returns the one that replaces it, so `BeginPlan`, `BeginAdjust`
and `BeginLaunch` put the session they read into `running`, and `EndPlan`, `EndAdjust`
and `EndLaunch` write theirs over whatever is there. One listener handles one click at a
time (Gradio's default concurrency limit); different ones overlap. The listeners that
wait for nothing are one step, which is the best case for the code. `EndPlan` and `EndAdjust` have a disjunct for every way
out of the `try` statements; `EndLaunch` is `service.build`, which checks `CanBuild`
again. `BuildRun` is what the child process makes of the request file. `serial`, `plans`,
`confirmed` and `overwrote` are observers. `shown` is the number in the widget: the change
event puts it into the session at once (blank is 0), but for a number of `Refused`, which
stays on screen under a warning while the session keeps its options. "Check status" and the key status change
nothing.

### ModelCalls: state and actions

A caller is one click. `Enter` and `Leave` are the two ends of `_api_key_scope`; a caller
without a key passes it without the lock. `Ask` builds the SDK client of the agent with
the key that is in the environment then (`_connection_kwargs`), or fails, and looks at
the tracer without its lock; `MakeTracer` is the part under it. `Respond` is the request
and its retry. Any call may be the last one of its caller, as the models may have
answered all that was needed or an exception leaves the scope. `env` has the key of the
holder of the lock; `Ambient` is what the process was started with.

### CourseRun: state and actions

`course`, `results`, `pending` and `round` are `all_modules`, `all_results`, `pending` and
`_round`; `pending` holds positions in `results`. `RunBase` and `RunRemedy` are the bodies
of the two loops; a module runs in one step, because the process awaits it, and its
result is any accepted-or-not with a fidelity signal per pass of the reviser. A run that
raised has no signals. `PlanRound` is the remediation planner, whose failure is the empty
answer; `Placed` is where the layer puts the module. `depth = 0` is a run without
`--redecompose`. `Assemble` writes index and report and returns the exit code. `handed` is an observer.

### What is abstracted

Wording everywhere: texts of findings, reasons, briefs, the digest, the remake
decision, the topic-fidelity signals, summaries. No guard reads them. Scores are in
fifths of a point. The lesson mode is a constant of a run although a replan may
declare another one. The executor's branch for a missing notebook is left out: every
path to it passes a notebook stage. The structural check of the executed copy is a
boolean. Coverage of a requested capability by terms is set inclusion in `PlanGate` and
`FrontDoor`, and a module has no scope or depth. In `FrontDoor` the learner's inputs are a constant, the
provisioning switch is left out, and the request file is read as it was written. In
`CourseRun` a module's focus areas are among its objectives. The ledger and what an
observation records are not in `ModelCalls`. Provisioning has one requirement set; its early returns and its font warm-up
change nothing and are left out; removing a directory is one step.

## 3. The runs

| Run | Question | Instance |
|---|---|---|
| `lesson_run` | does a run judge on fresh evidence, ship only what was accepted, end, and implement `LessonRun`? | one revision of each kind, provisioning on, in a course; 4 student and 3 reviewer answers that reach every rule |
| `default_budget` | do the three accounts of revisions agree for the shipped budgets (2, 3, 1) and a recursion limit of 25? | command line, provisioning off; 2 and 2 answers |
| `judgement` | does the cascade keep its promises for every pair of answers? | 7 rubrics on both sides of floor and threshold, 6 sets of findings, 9 verdicts, 2 stated scores |
| `provisioning` | is the marker truthful, and when is an ok not usable, one run at a time? | 3 processes, two of them under one root, one under another; 3 requests each |
| `plan_gate` | do edits keep numbers, references, modes and order, and announce losses? | 5 plans of up to 4 modules, two of them with slips; 3 lines; all target lists up to 2 numbers from -1 to 3, and the permutations |
| `front_door` | is only a confirmed plan launched, as previewed, and what takes an overlap? | a course of three modules and a drop, which makes of it a course that lacks a capability, a lesson and an empty plan; a limit, a refused number and blank; 3 plans given to the session, 2 changes of the options, 2 builds, 2 slow listeners at a time |
| `course_run` | does a grown course stay within its bounds, hand back each drop once, show each gap, end? | 2 modules, 3 answers of the planner, 2 passes per module, 6 command lines |
| `model_calls` | does each call use its key, is one tracer built, does every call end? | 3 callers: a plan and an adjustment with a key each, a plan without one |
| `rewrite_regraded` | is the shipped notebook the one the critics read? **No.** | violation |
| `patch_base` | does a patch fit the notebook its brief is about? **No.** | violation |
| `two_processes` | is the marker truthful with two builds at once? **No.** | violation |
| `known_overflow` | is what a remediation covers still unknown to the learner? **No.** | violation |

Why the bounds are enough. With one revision of each kind a run can replan, rewrite
code and rewrite prose in any order, so every ordered pair of revisions occurs, which
is what the scans and the counters can get wrong; the shipped budgets add repetition
of one kind. `steps` and `iteration` need no bound of their own: the budgets bound
them, and the model shows that. `MaxAttempts = 3` lets a failed or killed build be
followed by a complete one and by a cache hit. `Judgement` stops after one judgement,
and the recursion limit of 25 in `default_budget` fires `RecursionLimitReached`.
`MaxRounds = 3` in `plan_gate` (10 in the code) is enough to merge a merged module, to
drop a plan to nothing and to edit the empty plan; three modules are the fewest where two
are not neighbours, and four the fewest in which two titles are listed twice. In `front_door`, `MaxPlans = 3` is a plan, an edit and its undo or a
second plan; `MaxChanges = 2` lets a number be typed before or while a listener is busy and
be replaced or blanked; `MaxBuilds = 2` is enough for a plan that is built twice;
`MaxRunning = 2` is enough because a lost update takes two listeners; `MaxUndo = 1` (20 in the
code) lets the history overflow. In `course_run`, `MaxPasses = 2` tells a first pass from a last one;
the command lines have no budget, budgets that end before, inside and after a round, and a
negative number; two rounds are the fewest in which a drop could be handed back twice.
In `model_calls` the calls are those of `service.plan` and `service.adjust` as they are.

Properties worth explaining:

* `RevisionsAreAccountedFor`: iteration, routing log and attempts are three accounts of
  the same thing, updated by three calls.
* `EvidenceIsOfThisPass` and `CriticsReadAnAncestor` together say how fresh the
  evidence is: the reports are of this pass, the execution is of this notebook, and the
  critics read that notebook or one it was rewritten from. The gap between the two is
  the finding `TheRewriteIsRegraded`.
* `AcceptedOnEvidence` states acceptance on what the critics said, not on the category.
* `SilentSummaryIsHonest`: degradations accumulate, so a summary without a section
  means there were none on any pass.
* `ImplementsLessonRun`: with a refinement mapping (attempts to `spent`, files to the
  verdict), every behaviour is one of `LessonRun`, its liveness included.
* `OnlyASharedNameMisleads` says how far an "ok" of the cache can be trusted: its own
  environment is complete, but after a cache hit the kernel may run in that of another root,
  complete or not.
* `DropTakesItsTargets` and `OnlyDistantMergesMisplace` say where an edit does what its
  numbers say, and their premises are where it does not: a repeated number drops a
  module nobody named, and for a merge of distant modules see the divergences below. With slips
  in the plan (repeated titles, a prerequisite that comes later) the properties on
  references still hold.
* `JoinsAreNew` is a premise that the proofs of `NoEditDangles` and
  `OnlyDistantMergesMisplace` turned out to need. `merge_modules` takes the two old titles
  out of the merged module's prerequisites and does not look for the new one. In a plan
  that lists two titles twice, or in which the planner wrote an "A + B" itself, the joined
  title may already be there, and the merged module can name itself. The plan `Twice` of
  the `plan_gate` run has such titles.
* `OnlyLostUpdatesSurprise` is of the same kind: a plan is built twice, or with another
  number of modules than the widget shows (unless that number was refused), only after one listener has replaced a session
  it had not read. That this happens is in the model (`EndPlan` and `EndAdjust` after
  `SetOptions` or `EndLaunch`), and nothing in the code prevents it; no money is spent on an
  unconfirmed plan even then (`LaunchedAsConfirmed`).
* `OverflowHandedBackOnce` relates each result to the rounds: planned for at most once, and
  never forgotten as long as rounds and modules last.
* `GapsAreVisible` goes from a module's last pass to the written files.
* `KeysStayApart` speaks of calls with a key. A call without one may see the key of
  another; which it should use is nowhere said.

Fairness: `WF_vars(Pass)` in `LessonPipeline`. The graph's nodes are coroutines awaited in turn by one
event loop, and every model call, kernel cell and build subprocess has a timeout, so
a run that can take its next step takes it. Nothing is assumed about what a step
does. `CourseRun` has `WF_vars(Next)` for the same reason: it is one sequential process. In
`ModelCalls` every caller has weak fairness of its own: a thread that can go on does, and
the SDK's timeout ends a request. The lock needs no stronger fairness, since callers are finitely
many and each takes it once. `Provisioning`, `Judgement`, `PlanGate` and `FrontDoor`
assume no fairness.

### Findings

1. **The rewrite is not re-graded.** Both critics look for the code author's latest
   notebook only. After the content reviser they read the old notebook beside the
   execution report of the new one (`agents/student.py:291`, `agents/reviewer.py:232`).
2. **A patch may land on the wrong notebook.** The code author patches its own last
   notebook; after a content revision the brief's cell numbers are about another
   (`agents/code_author.py:157`).
3. **Two builds at once** leave a marker on an incomplete environment
   (`provisioning.py:348`).
4. **The overflow is declared known.** The profile a remediation is planned and run with
   counts the objectives of the module that dropped something as prior knowledge, the
   dropped capability included (`curriculum/reactive.py:78` and `:91`).

Further disagreements between the code and what it says of itself, read in the code and
seen in these models, without a run of their own:

* The crash stub says the module "never produced a plan or a notebook"
  (`deliverables.py:234`), but a run that raises on a later pass has both on disk.
* A student can cause a replan, together with a reviewer that contradicts itself:
  `pipeline/failure.py:206` merges `fit` and the problems separately, while
  `reviser.py:330` says that a novice's verdict alone cannot.
* Merging the ends of a chain gives two modules that build on each other
  (`curriculum/operations.py:110`); reorder refuses such a plan.
* Two cache roots share a kernel name: it is made of the requirements alone
  (`provisioning.py:220`) and registered for the user, while venv and marker belong to a cache
  root, which is another for a lesson than for the modules of a course
  (`pipeline/provision_gate.py:71`). A build that registers and then fails under one root
  leaves the name pointing at a directory it has wiped; a cache hit under the other returns
  ok all the same, "True when the lesson can run (a kernel is ready ...)" (`provisioning.py:101`).
* A limit typed while the planner works is shown and not used (`ui/front_door.py:153`).
* Under `--max-modules` the exit code is 0 although modules of the plan were not run
  (`cli.py:350` speaks of "every module"); the index says so.

## 4. The proofs

TLC checks the instances above; TLAPS proves the following for every budget, mode, set
of answers and recursion limit, and for any number of processes and roots. The
assumptions are the named ASSUMEs of the modules: types of the constants, and that
`None` is none of the values it stands beside.

* `LessonPipelineProofs`. `Typed` (the type invariant, that a report is there when the
  next node reads it, and that the scans of the outputs have a last hit) is inductive;
  everything rests on it. `Settled` says that a terminal run is at `END` or beyond, which gives `TerminalIsFinal`. `StepsArePaid` charges every node execution
  either to the first pass or to a revision, at a price per position in the graph;
  with the budgets it gives `StepsAreBounded`. `Fresh` places each latest output
  relative to the iteration for every node, which gives `EvidenceIsOfThisPass`.
  `Sound` carries the evidence of an accepted verdict until delivery
  (`AcceptedOnEvidence`), and `Honest` relates files, `shipped` and the verdict
  (`LessonShipsOnlyIfAccepted`). `Briefed`, `Numbered`, `SubstitutesRecorded` with
  `ReviewOnRecord`, and `Descends` are the strengthenings of the four properties on the
  store: each says of every node what must be there, or may still be written, when it runs
  (`EveryRevisionHasItsBrief`, `ArtifactNamesAreFresh`, `SilentSummaryIsHonest`,
  `CriticsReadAnAncestor`). `ImplementsLessonRunSafely` is the step simulation: the mapped
  initial state is one of `LessonRun`, and every step is one of its steps or a stutter. It
  uses `Typed`, `Sound` and `Honest`: that an accepted verdict delivers an executed notebook
  is what `LessonRun` promises its caller.
* `FailureProofs`: types of the readers and of the merge, and what an `ACCEPTABLE`
  verdict says of the merged report; used by the other modules.
* `CourseRunProofs`: every safety property of `CourseRun`, for any course, planner and
  command line. `Counts` is inductive: the k-th result is that of the k-th module, the
  base loop runs a prefix in order, and a remediation happens only after all of the base
  course (`RemedyAfterWhole`; otherwise the budget was met already). It gives
  `WithinBudget` and `OnlyAttemptedIsKnown`. `Handing` follows a drop through the rounds:
  between two rounds what is pending was handed to none and is a tail of the results,
  during a round all that was handed back lies before its new results. It gives
  `OverflowHandedBackOnce`. `Assembled` gives `GapsAreVisible`.
* `ModelCallsProofs`: both safety properties, for any number of callers. The invariant
  says that the lock is held by the one caller with a key inside its scope, that the
  environment has this caller's key exactly then, and that a client of a caller with a key
  was built with it.
* `PlanGateProofs`: the type invariant and every action property of `PlanGate`, for any
  planner and classifier and for plans and target lists of any length. Each edit has a lemma
  that says what it makes of a course (`MergeResult`, `DropResult`, `ForceSingleFacts`,
  `SetModeFacts`, `ReorderFacts`), and `EditResult` collects them, so that the theorems are
  arguments about one edit and not about its code. `EditType` is the step of the type
  invariant: the numbering is kept, and types are kept for a plan that is not numbered too,
  which the front door needs. The loop of a drop is handled by `UpTo` (what holds at 0 and
  passes from k - 1 to k holds up to n, from the least counterexample) and `LoopExists` (the
  recursive function that is the loop exists). `DropTakesItsTargets` rests on two facts:
  a list of numbers has a permutation that never rises (`FallsExists`, by inserting one
  number at a time), and, once the targets down to the k-th greatest are gone, the modules
  below it still have their old numbers (`TakenOneMore`).
* `FrontDoorProofs`: all of `FrontDoor`, for any planner, edits, limits and any overlap.
  `LaunchedAsConfirmed`: a session that says it is confirmed holds a confirmed plan, and so does
  every session that some listener has read and will write back; that a stale session is sound
  too is what makes the overlap harmless here. The types (`TInv`) need the same of stale
  sessions: what a listener read when it adjusts or launches had a plan, a launch had not been
  launched before, and a plan has been counted. `PreviewIsKept` follows, since every request was
  let through by preview, and preview and the child process agree on every plan and limit
  (`PreviewAgrees`). `OnlyLostUpdatesSurprise` is not inductive by itself: `Calm` adds that,
  while nothing was lost, a session that looks as if it was not launched was not, and that
  the limit of the session, and the one that a launch has read, agrees with the number on
  screen, refused numbers apart. `TInv` and
  `Calm` were checked with TLC on small instances before they were proved.
* `JudgementProofs`: every property of `Judgement`, for all answers.
* `ProvisioningProofs`: the three properties of `Provisioning` under the assumption
  `Concurrent = FALSE`, for any roots; with a single root the second becomes
  `OkMeansAKernelIsReady`, which is what `ProvisionResult` says of an ok. The run
  `two_processes` shows that the assumption cannot be dropped. `Sequential` says how far the
  disk is at each step, `KernelFollows` whose the kernel is.

`FrontDoorProofs` extends `PlanGateProofs` for the lemmas about the edits, and with them
come the assumptions of `PlanGate` on its own constants (a parsed plan is numbered, target
lists are lists of integers). No proof about the front door cites them.

With this every invariant of the runs that pass, and every action property, is a theorem.
Model-checked only: the liveness properties (`EveryModuleLeavesATrace`, `Termination`,
`CallsEnd`) and the fairness half of `ImplementsLessonRun`, which need ENABLED, out of this
prover's reach; and the four violations, which are counterexamples. What a recursive
function or a fold computes is not proved by the library's induction, which takes an
operator as a parameter: the drop loop goes by least counterexample instead, of the joined
title of `ForceSingle` only its type is needed, and the scans of the outputs are
carried along the run.

## 5. What is left

In this order; each with its hazards in `PROJECT.json`.

1. The usage ledger: which requests it counts (a first answer that was cut off and a call
   without a trace context are not).
2. NAV.md: the neighbours of a module among those that were run.

Not modelled and not planned: prompt text, packaging, rendering, argument parsing,
configuration, logging, the plan's requirement and mode parsers, patch cell indices,
the structural and topic-fidelity heuristics: pure text without state. The run directory's
stamp (`service.py:452`) is about real time.

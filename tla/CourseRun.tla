------------------------------ MODULE CourseRun ------------------------------
(***************************************************************************)
(* The build of a confirmed course: the modules run one after another      *)
(* (curriculum/orchestrator.py), the reactive safety net plans and runs    *)
(* further modules for what a run dropped (curriculum/reactive.py), and    *)
(* the outcome is assembled (curriculum/assembler.py, cli._finalize_course *)
(* and _report_course_result).  How one module runs is LessonPipeline;     *)
(* here a run is its result: a topic-fidelity signal for each pass of the  *)
(* reviser that could assess one, and whether the lesson was accepted.     *)
(***************************************************************************)
EXTENDS Integers, FiniteSets, SequencesExt

CONSTANTS Title,
          Objective,   \* learning objectives, the capabilities of a module
          Base,        \* the confirmed course
          Answer,      \* what the remediation planner may plan; <<>> when it fails
          Options,     \* the command line: how many modules and rounds at most
          All,         \* no --max-modules
          MaxPasses    \* bound: passes of the reviser in one module

\* A remediation module lists what its round was planned for, another one nothing.
Module == [title : Title, order : Nat, objectives : SUBSET Objective,
           prerequisites : SUBSET Title, remedy : SUBSET Objective]
Topic == [title : Title, objectives : SUBSET Objective]

ASSUME BaseAssumption ==
  /\ Base \in Seq(Module)
  /\ \A p \in DOMAIN Base : Base[p].order = p - 1 /\ Base[p].remedy = {}
ASSUME AnswerAssumption == Answer \subseteq Seq(Topic)
ASSUME OptionsAssumption ==
  All \notin Int /\ Options \subseteq [modules : Int \cup {All}, depth : Nat]
ASSUME PassesAssumption == MaxPasses \in Nat

VARIABLES
  options,    \* chosen at the start
  phase,
  course,     \* all_modules
  todo,       \* what the loop under way still has to run
  results,    \* all_results
  pending,    \* results whose drops are not handled, by position
  round,      \* rounds ended
  handed,     \* observer: the results whose drops each round was planned for
  outcome     \* what the command leaves and returns

vars == <<options, phase, course, todo, results, pending, round, handed, outcome>>

Signals(objectives) == BoundedSeq(SUBSET objectives, MaxPasses)
Result == [module : Nat, known : SUBSET Objective, signals : Signals(Objective), ok : BOOLEAN]
NoOutcome == "preview"

-----------------------------------------------------------------------------
\* Helpers

\* course.modules[:max_modules]; a negative number counts from the end.
Selected(modules, max) ==
  CASE max = All -> modules
    [] max # All /\ max >= Len(modules) -> modules
    [] max # All /\ max < Len(modules) /\ max >= 0 -> SubSeq(modules, 1, max)
    [] OTHER -> SubSeq(modules, 1, Len(modules) + max)

\* Mutation: one module more.
BudgetExceeded(taken) == options.modules # All /\ Len(taken) > options.modules

BudgetExhausted(taken) == options.modules # All /\ Len(taken) >= options.modules

Missing(result) == UNION ToSet(result.signals)

Dropping(some) == {i \in some : Missing(results[i]) # {}}
Dropped(some) == UNION {Missing(results[i]) : i \in some}
DroppingTitles(some) == {course[results[i].module + 1].title : i \in Dropping(some)}

ObjectivesOf(modules) == UNION {m.objectives : m \in modules}

\* Mutation: the module itself counts as taught.
KnownAfter(module) == ObjectivesOf({m \in ToSet(course) : m.order <= module.order})

\* What the learner is said to know: in the base course the modules before,
\* in a remediation all modules, which have a smaller order.
KnownBefore(module) == ObjectivesOf({m \in ToSet(course) : m.order < module.order})

-----------------------------------------------------------------------------
\* The loops

Init ==
  /\ options \in Options
  /\ phase = "base"
  /\ course = Base
  /\ todo = Selected(Base, options.modules)
  /\ results = <<>>
  /\ pending = {}
  /\ round = 0
  /\ handed = [r \in 1 .. options.depth |-> {}]
  /\ outcome = NoOutcome

\* run_module_with_handdown: the result is recorded whatever happens; a run that
\* raised has no signals and is not accepted.
RunModule(module) ==
  /\ todo' = Tail(todo)
  /\ \E signals \in Signals(module.objectives), ok \in BOOLEAN :
       results' = Append(results, [module |-> module.order, known |-> KnownBefore(module),
                                   signals |-> signals, ok |-> ok])
  /\ UNCHANGED <<options, phase, pending, round, handed, outcome>>

RunBase ==
  /\ phase = "base"
  /\ todo # <<>>
  /\ RunModule(Head(todo))
  /\ UNCHANGED course

FinishBase ==
  /\ phase = "base"
  /\ todo = <<>>
  /\ phase' = "rounds"
  /\ pending' = DOMAIN results
  /\ UNCHANGED <<options, course, todo, results, round, handed, outcome>>

\* Mutation: the rounds are not counted.
ContinuesAnyRound == Dropping(pending) # {} /\ ~BudgetExhausted(results)

Continues == round < options.depth /\ Dropping(pending) # {} /\ ~BudgetExhausted(results)

\* The planner decides what to teach.
PlanRound ==
  /\ phase = "rounds"
  /\ Continues
  /\ todo' \in Answer
  /\ phase' = "remedy"
  /\ handed' = [handed EXCEPT ![round + 1] = Dropping(pending)]
  /\ UNCHANGED <<options, course, results, pending, round, outcome>>

StopRounds ==
  /\ phase = "rounds"
  /\ ~Continues
  /\ phase' = "assemble"
  /\ UNCHANGED <<options, course, todo, results, pending, round, handed, outcome>>

\* This layer decides where it sits.
Placed(topic) ==
  [title |-> topic.title, order |-> Len(course), objectives |-> topic.objectives,
   prerequisites |-> DroppingTitles(pending), remedy |-> Dropped(pending)]

\* Mutation: a round that has begun is run to its end.
RunRemedyUnchecked ==
  /\ phase = "remedy"
  /\ todo # <<>>
  /\ RunModule(Placed(Head(todo)))
  /\ course' = Append(course, Placed(Head(todo)))

RunRemedy ==
  /\ phase = "remedy"
  /\ todo # <<>>
  /\ ~BudgetExhausted(results)
  /\ RunModule(Placed(Head(todo)))
  /\ course' = Append(course, Placed(Head(todo)))

RoundResults == {i \in DOMAIN results : \A p \in pending : i > p}

\* Mutation: a planner that failed is asked again.
EndRoundRetrying ==
  /\ phase = "remedy"
  /\ todo = <<>> \/ BudgetExhausted(results)
  /\ todo' = <<>>
  /\ phase' = "rounds"
  /\ IF RoundResults = {} THEN UNCHANGED <<pending, round>>
     ELSE pending' = RoundResults /\ round' = round + 1
  /\ UNCHANGED <<options, course, results, handed, outcome>>

\* Mutation: the next round looks at every result again.
EndRoundKeepingAll ==
  /\ phase = "remedy"
  /\ todo = <<>> \/ BudgetExhausted(results)
  /\ todo' = <<>>
  /\ phase' = IF RoundResults = {} THEN "assemble" ELSE "rounds"
  /\ pending' = DOMAIN results
  /\ round' = round + 1
  /\ UNCHANGED <<options, course, results, handed, outcome>>

\* The next round looks at what this one ran; nothing run ends the loop.
EndRound ==
  /\ phase = "remedy"
  /\ todo = <<>> \/ BudgetExhausted(results)
  /\ todo' = <<>>
  /\ phase' = IF RoundResults = {} THEN "assemble" ELSE "rounds"
  /\ pending' = RoundResults
  /\ round' = round + 1
  /\ UNCHANGED <<options, course, results, handed, outcome>>

-----------------------------------------------------------------------------
\* Assembly

\* Of two results of one module the later one counts.
ResultOf(module) ==
  LET its == {i \in DOMAIN results : results[i].module = module.order}
  IN  IF its = {} THEN "not run" ELSE IF results[Max(its)].ok THEN "ok" ELSE "failed"

\* README.md: one entry for each module of the grown course.
CourseIndex ==
  [p \in DOMAIN course |-> [title |-> course[p].title, status |-> ResultOf(course[p]),
                            buildsOn |-> course[p].prerequisites, covers |-> course[p].remedy]]

\* Mutation: the report looks at the first pass of a module.
ReportOfFirst ==
  [i \in DOMAIN results |->
     [module |-> results[i].module, ok |-> results[i].ok,
      dropped |-> IF results[i].signals = <<>> THEN {} ELSE Head(results[i].signals)]]

\* COURSE.md and what is printed: one section for each module that was run.
CourseReport ==
  [i \in DOMAIN results |->
     [module |-> results[i].module, ok |-> results[i].ok, dropped |-> Missing(results[i])]]

\* What the command returns: a module that was not run is not missed.
ExitOk == \A i \in DOMAIN results : results[i].ok

Assemble ==
  /\ phase = "assemble"
  /\ phase' = "done"
  /\ outcome' = [index |-> CourseIndex, report |-> CourseReport, exitOk |-> ExitOk]
  /\ UNCHANGED <<options, course, todo, results, pending, round, handed>>

Done == phase = "done" /\ UNCHANGED vars

Next ==
  RunBase \/ FinishBase \/ PlanRound \/ StopRounds \/ RunRemedy \/ EndRound \/ Assemble \/ Done

\* The process works on: a model call ends with an answer or an error.
Spec == Init /\ [][Next]_vars /\ WF_vars(Next)

-----------------------------------------------------------------------------
\* Properties

\* Type invariant.
TypeOK ==
  /\ options \in Options
  /\ phase \in {"base", "rounds", "remedy", "assemble", "done"}
  /\ course \in Seq(Module)
  /\ todo \in IF phase = "remedy" THEN Seq(Topic) ELSE Seq(Module)
  /\ results \in Seq(Result)
  /\ pending \subseteq DOMAIN results
  /\ round \in 0 .. options.depth
  /\ handed \in [1 .. options.depth -> SUBSET DOMAIN results]

\* "max_modules caps the TOTAL number of module runs (base + remediation)":
\* neither the rounds nor a round that planned several modules goes past it
\* (run_course, _budget_exhausted).
WithinBudget ==
  options.modules \in Nat => Len(results) <= options.modules

\* The learner is said to know only what a module that was run before was to
\* teach: a base course cut short by --max-modules never reaches a remediation,
\* which counts all its modules as known (_augment_profile, _augment_for_remediation).
OnlyAttemptedIsKnown ==
  \A i \in DOMAIN results :
    results[i].known \subseteq
      UNION {course[results[j].module + 1].objectives : j \in 1 .. i - 1}

\* A module that dropped something is handed back to the planner in one round at
\* most, and in one unless the loop ran out of rounds or of modules: no overflow
\* is planned for twice and none is forgotten between two rounds
\* (run_course_reactive).
OverflowHandedBackOnce ==
  \A i \in DOMAIN results :
    LET rounds == {r \in DOMAIN handed : i \in handed[r]} IN
    /\ Cardinality(rounds) <= 1
    /\ phase = "done" /\ Missing(results[i]) # {} /\ rounds = {} =>
         round = options.depth \/ BudgetExhausted(results)

\* "Nothing is silently lost": an objective of any module of the grown course is
\* in its notebook, as its last pass saw it, or the index says the module was not
\* run or failed, or the report names it (_render_course_index,
\* _render_module_report_section).
GapsAreVisible ==
  phase = "done" =>
    \A p \in DOMAIN course :
      \/ outcome.index[p].status # "ok"
      \/ \E i \in DOMAIN results :
           /\ results[i].module = course[p].order
           /\ results[i].signals # <<>> => Last(results[i].signals) \subseteq outcome.report[i].dropped

\* "The loop is bounded twice so it always terminates".
Termination == <>(phase = "done")

\* What the brief of the remediation planner assumes, that everything else is
\* already known: what a module was planned to cover is not among it.
OverflowIsNotKnown ==
  \A i \in DOMAIN results :
    results[i].known \cap course[results[i].module + 1].remedy = {}

=============================================================================

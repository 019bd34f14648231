------------------------------- MODULE PlanGate ------------------------------
(***************************************************************************)
(* `forged learn` up to the build: plan, readiness pre-flight, the         *)
(* interactive gate, the decision what to build (forged/cli.py,            *)
(* curriculum/gate.py).  Planner, readiness assessor, classifier and       *)
(* learner are free: every answer they may give is a choice.               *)
(***************************************************************************)
EXTENDS CoursePlan

CONSTANTS TargetList,     \* target lists the classifier may answer
          MaxRounds       \* MAX_ADJUSTMENT_ROUNDS

Numbered(c) == \A p \in DOMAIN c : c[p].order = p - 1

\* _parse_course numbers the modules, and refuses a plan without any.
ASSUME ParsedPlanAssumption == \A c \in Plan : c # <<>> /\ Numbered(c)
ASSUME RoundsAssumption == MaxRounds \in Nat
ASSUME TargetListAssumption == TargetList \subseteq Seq(Int)

VARIABLES phase,     \* where _cmd_learn is, or how it ended
          course,    \* the plan on screen
          rounds,    \* lines read so far
          intent,    \* the last structural intent the gate applied
          warned     \* capabilities its warning named

gateVars == <<phase, course, rounds, intent, warned>>

Phase == {"planning", "preflight", "gate", "confirmed",
          "failed", "cancelled", "refused", "lesson", "course", "reported"}

NoIntent == [op |-> "none", targets |-> <<>>, word |-> Undecided]

GateInit ==
  /\ phase = "planning"
  /\ course = <<>>
  /\ rounds = 0
  /\ intent = NoIntent
  /\ warned = {}

MakePlan ==
  /\ phase = "planning"
  /\ phase' = "preflight"
  /\ course' \in Plan
  /\ UNCHANGED <<rounds, intent, warned>>

PlanningFails ==
  /\ phase = "planning"
  /\ phase' = "failed"
  /\ UNCHANGED <<course, rounds, intent, warned>>

\* A single lesson judged out of reach is planned again, and kept when that
\* fails.  Then the gate, --yes, --plan-only, or a usage error without a
\* terminal.
Preflight ==
  /\ phase = "preflight"
  /\ course' \in {course} \cup (IF Len(course) = 1 THEN Plan ELSE {})
  /\ phase' \in {"gate", "confirmed", "reported", "failed"}
  /\ UNCHANGED <<rounds, intent, warned>>

-----------------------------------------------------------------------------
\* The gate: one line of the learner per round

\* Mutation: one line more than the limit.
RoundPastLimit ==
  /\ phase = "gate"
  /\ rounds <= MaxRounds
  /\ rounds' = rounds + 1

Round ==
  /\ phase = "gate"
  /\ rounds < MaxRounds
  /\ rounds' = rounds + 1

EndOfInput ==
  /\ phase = "gate" /\ rounds < MaxRounds
  /\ phase' = "cancelled"
  /\ UNCHANGED <<course, rounds, intent, warned>>

Decide ==
  /\ Round
  /\ phase' \in {"confirmed", "cancelled"}
  /\ UNCHANGED <<course, intent, warned>>

\* A failed re-plan keeps the plan.
Replan ==
  /\ Round
  /\ course' \in Plan \cup {course}
  /\ intent' = NoIntent
  /\ warned' = {}
  /\ UNCHANGED phase

IntentsFor(op) ==
  [op : {op}, targets : TargetList,
   word : IF op = "set_mode" THEN LessonMode \cup {Undecided} ELSE {Undecided}]

Adjust(op) ==
  /\ Round
  /\ \E i \in IntentsFor(op) :
       /\ Applies(course, i)
       /\ course' = ApplyStructural(course, i)
       /\ warned' = WarnedOf(course, i)
       /\ intent' = i
  /\ UNCHANGED phase

\* A bad target re-prompts.
CannotApply ==
  /\ Round
  /\ \E op \in StructuralOp : \E i \in IntentsFor(op) : ~Applies(course, i)
  /\ intent' = NoIntent
  /\ warned' = {}
  /\ UNCHANGED <<phase, course>>

RoundLimit ==
  /\ phase = "gate" /\ rounds >= MaxRounds
  /\ phase' = "cancelled"
  /\ UNCHANGED <<course, rounds, intent, warned>>

-----------------------------------------------------------------------------
\* One module is a lesson; a course has to cover what was requested.
BuildConfirmed ==
  /\ phase = "confirmed"
  /\ phase' = CASE Len(course) = 1 -> "lesson"
                [] Len(course) # 1 /\ Requested \subseteq AllCapabilities(course) -> "course"
                [] OTHER -> "refused"
  /\ UNCHANGED <<course, rounds, intent, warned>>

GateNext ==
  \/ MakePlan \/ PlanningFails \/ Preflight
  \/ EndOfInput \/ Decide \/ Replan \/ CannotApply \/ RoundLimit
  \/ \E op \in StructuralOp : Adjust(op)
  \/ BuildConfirmed

GateSpec == GateInit /\ [][GateNext]_gateVars

-----------------------------------------------------------------------------
\* Properties

\* Type invariant: the plan is a sequence of modules numbered by position, also
\* after any edits: the learner's next sentence refers to modules by the numbers
\* on screen, and the edit looks them up by position (render_plan prints order,
\* _validate_index counts).
GateTypeOK ==
  /\ phase \in Phase
  /\ course \in Seq(ModuleSpec) /\ Numbered(course)
  /\ rounds \in 0 .. MaxRounds
  /\ intent = NoIntent \/ intent \in Intent
  /\ warned \subseteq Capability

Distinct(c) == \A p, q \in DOMAIN c : c[p].title = c[q].title => p = q

Dangling(c) == (UNION {c[p].prerequisites : p \in DOMAIN c}) \ Titles(c)
BuildsOnItself(c) == {p \in DOMAIN c : c[p].title \in c[p].prerequisites}

\* The title a merge would make is in the plan neither as a title nor as a
\* reference.  A planner that writes "A + B" itself, or lists A and B twice,
\* may break this: merge_modules looks for the old titles only.
JoinsAreNew(c) ==
  \A p, q \in DOMAIN c : p # q =>
    c[p].title \o c[q].title \notin Titles(c) \cup UNION {c[r].prerequisites : r \in DOMAIN c}

\* The gate applied a structural edit in this step.
Edits == phase' = "gate" /\ rounds' > rounds /\ intent' \in Intent

\* An edit leaves no prerequisite that names a module which is gone, beyond
\* those the planner wrote, and none of a module on itself where a merged title
\* is a new one: references are by title, and merges and drops change titles
\* under them.
NoEditDangles ==
  [][Edits => /\ Dangling(course') \subseteq Dangling(course)
              /\ BuildsOnItself(course) = {} /\ JoinsAreNew(course)
                   => BuildsOnItself(course') = {}]_gateVars

\* Capabilities that leave the plan by an edit are all in the warning shown
\* for it, for any list of targets ("never silently dropped", gate.py:9).
LossIsWarned ==
  [][Edits => AllCapabilities(course) \ AllCapabilities(course') \subseteq warned']_gateVars

\* A drop without repeated targets takes the modules with these numbers and
\* no others, although the list shrinks under it.
DropTakesItsTargets ==
  [][Edits /\ intent'.op = "drop" /\ Distinct(course)
           /\ Cardinality(ToSet(intent'.targets)) = Len(intent'.targets)
      => Titles(course') =
           Titles(course) \ {course[t + 1].title : t \in ToSet(intent'.targets)}]_gateVars

\* A module that takes the place of others is decided only if all of them
\* were, and is then taught at least as strictly as each of them.
MergingKeepsDecisions ==
  [][Edits => \A q \in DOMAIN course' : course'[q].title \notin Titles(course) =>
       \A p \in DOMAIN course : course[p].title \notin Titles(course') =>
         /\ course[p].mode = Undecided => course'[q].mode = Undecided
         /\ course'[q].mode # Undecided
              => ModeStrictness[course[p].mode] <= ModeStrictness[course'[q].mode]]_gateVars

InOrder(c) ==
  \A p, q \in DOMAIN c : c[q].title \in c[p].prerequisites => q < p

\* In a plan whose prerequisites come first, and in which no two titles joined
\* make the title of a module that is there (JoinsAreNew), they still come first
\* after any edit, but for the merge of two modules that are not neighbours:
\* reorder refuses, the others keep the order.
OnlyDistantMergesMisplace ==
  [][Edits /\ JoinsAreNew(course) /\ InOrder(course) /\ ~InOrder(course')
      => /\ intent'.op = "merge"
         /\ intent'.targets[1] - intent'.targets[2] \notin {-1, 1}]_gateVars

=============================================================================

----------------------------- MODULE CoursePlan ------------------------------
(***************************************************************************)
(* A course plan and its deterministic edits (forged/curriculum/model.py   *)
(* and operations.py, the step function of gate.py).  A course is a        *)
(* sequence of modules; targets count from 0, as in the code.  A title is  *)
(* the sequence of the names joined by " + " in it.                        *)
(***************************************************************************)
EXTENDS Integers, FiniteSets, SequencesExt

CONSTANTS Name,          \* titles a planner gives
          Capability,    \* objectives and focus areas
          Plan,          \* courses the planner may answer
          Requested      \* capabilities that can be assessed

\* How executable a mode is.  "undecided" stands for None.
ModeStrictness == [conceptual |-> 0, artifact |-> 1, executable |-> 2]
LessonMode == DOMAIN ModeStrictness
Undecided == "undecided"

Title == Seq(Name)
ModuleSpec ==
  [title : Title, order : Nat, prerequisites : SUBSET Title,
   capabilities : SUBSET Capability, mode : LessonMode \cup {Undecided}]

ASSUME PlanAssumption == Plan \subseteq Seq(ModuleSpec)
ASSUME RequestedAssumption == Requested \subseteq Capability

AllCapabilities(course) == UNION {course[p].capabilities : p \in DOMAIN course}
Titles(course) == {course[p].title : p \in DOMAIN course}

StructuralOp == {"merge", "drop", "force_single", "reorder", "set_mode"}
\* An intent of the classifier; "word" is the mode word found in the sentence.
Intent == [op : StructuralOp, targets : Seq(Int), word : LessonMode \cup {Undecided}]

Indices(course) == 0 .. Len(course) - 1

-----------------------------------------------------------------------------
\* Helpers

\* Mutation: an undecided part is outvoted by a decided one.
MergeModesOfDecided(modes) ==
  IF modes \subseteq {Undecided} THEN Undecided
  ELSE CHOOSE m \in modes \ {Undecided} :
         \A n \in modes \ {Undecided} : ModeStrictness[n] <= ModeStrictness[m]

MergeModes(modes) ==
  IF Undecided \in modes THEN Undecided
  ELSE CHOOSE m \in modes : \A n \in modes : ModeStrictness[n] <= ModeStrictness[m]

\* Mutation: modules keep the order they had.
RenumberNot(modules) == modules

Renumber(modules) ==
  [p \in DOMAIN modules |-> [modules[p] EXCEPT !.order = p - 1]]

\* Mutation: titles of modules that are gone stay listed.
RemapKeepingDropped(module, rename, drop) ==
  LET renamed == {IF t \in DOMAIN rename THEN rename[t] ELSE t : t \in module.prerequisites}
  IN  [module EXCEPT !.prerequisites = renamed \ {module.title}]

RemapPrerequisites(module, rename, drop) ==
  LET renamed == {IF t \in DOMAIN rename THEN rename[t] ELSE t :
                    t \in module.prerequisites \ drop}
  IN  [module EXCEPT !.prerequisites = renamed \ {module.title}]

-----------------------------------------------------------------------------
\* Operations

MergedModule(early, late) ==
  [title |-> early.title \o late.title,
   order |-> early.order,
   prerequisites |-> (early.prerequisites \cup late.prerequisites) \ {early.title, late.title},
   capabilities |-> early.capabilities \cup late.capabilities,
   mode |-> MergeModes({early.mode, late.mode})]

\* The two modules become one at the earlier position.
MergeModules(course, first, second) ==
  LET lo == IF first < second THEN first ELSE second
      hi == IF first < second THEN second ELSE first
      merged == MergedModule(course[lo + 1], course[hi + 1])
      rename == [t \in {course[lo + 1].title, course[hi + 1].title} |-> merged.title]
      rebuilt == [p \in DOMAIN course |->
                    IF p = lo + 1 THEN merged ELSE RemapPrerequisites(course[p], rename, {})]
  IN  Renumber(RemoveAt(rebuilt, hi + 1))

DropModule(course, target) ==
  LET removed == course[target + 1]
      survivors == RemoveAt(course, target + 1)
  IN  Renumber([p \in DOMAIN survivors |->
                  RemapPrerequisites(survivors[p], <<>>, {removed.title})])

ForceSingle(course) ==
  IF Len(course) <= 1 THEN course
  ELSE <<[title |-> FlattenSeq([p \in DOMAIN course |-> course[p].title]),
          order |-> 0,
          prerequisites |-> {},
          capabilities |-> AllCapabilities(course),
          mode |-> MergeModes({course[p].mode : p \in DOMAIN course})]>>

SetMode(course, target, mode) == [course EXCEPT ![target + 1].mode = mode]

Sequenced(course, newOrder) == [p \in DOMAIN newOrder |-> course[newOrder[p] + 1]]

\* Of two modules with one title the later one counts.
PositionOfTitle(course, title) ==
  CHOOSE p \in DOMAIN course :
    course[p].title = title /\ \A q \in p + 1 .. Len(course) : course[q].title # title

\* Mutation: the learner's order is taken as it comes.
PrerequisitesAllowAny(course) == TRUE

PrerequisitesAllow(course) ==
  \A p \in DOMAIN course : \A t \in course[p].prerequisites \cap Titles(course) :
    PositionOfTitle(course, t) < p

CanReorder(course, newOrder) ==
  /\ Len(newOrder) = Len(course)
  /\ ToSet(newOrder) = Indices(course)
  /\ PrerequisitesAllow(Sequenced(course, newOrder))

ReorderModules(course, newOrder) == Renumber(Sequenced(course, newOrder))

-----------------------------------------------------------------------------
\* The step function of the gate, shared with the front door

\* The elements of a list, any two of them as Before allows.
Arranged(list, Before(_, _)) ==
  LET at == CHOOSE at \in Bijection(DOMAIN list, DOMAIN list) :
              \A i, j \in DOMAIN list : i < j => Before(list[at[i]], list[at[j]])
  IN  [k \in DOMAIN list |-> list[at[k]]]

\* Mutation: lowest first, so that a drop shifts the targets after it.
DropOrderAscending(targets) == Arranged(targets, <=)

DropOrder(targets) == Arranged(targets, >=)

\* Mutation: only the last drop is reported.
LostWithLast(lost, dropped) == dropped

LostWith(lost, dropped) == lost \cup dropped

\* One drop; a target out of range fails the whole edit.
DropStep(acc, target) ==
  IF ~acc.ok \/ target \notin Indices(acc.course) THEN [acc EXCEPT !.ok = FALSE]
  ELSE [ok |-> TRUE,
        course |-> DropModule(acc.course, target),
        lost |-> LostWith(acc.lost, acc.course[target + 1].capabilities)]

\* The loop over the targets, and what it makes of a course.
DropLoop(course, targets) ==
  LET acc[k \in 0 .. Len(targets)] ==
        IF k = 0 THEN [ok |-> targets # <<>>, course |-> course, lost |-> {}]
        ELSE DropStep(acc[k - 1], DropOrder(targets)[k])
  IN  acc

DropAll(course, targets) == DropLoop(course, targets)[Len(targets)]

\* Where apply_adjustment does not raise.
Applies(course, intent) ==
  LET targets == intent.targets IN
  CASE intent.op = "set_mode" ->
         Len(targets) = 1 /\ targets[1] \in Indices(course) /\ intent.word \in LessonMode
    [] intent.op = "merge" ->
         Len(targets) = 2 /\ ToSet(targets) \subseteq Indices(course) /\ targets[1] # targets[2]
    [] intent.op = "drop" -> DropAll(course, targets).ok
    [] intent.op = "force_single" -> TRUE
    [] intent.op = "reorder" -> CanReorder(course, targets)

ApplyStructural(course, intent) ==
  LET targets == intent.targets IN
  CASE intent.op = "set_mode" -> SetMode(course, targets[1], intent.word)
    [] intent.op = "merge" -> MergeModules(course, targets[1], targets[2])
    [] intent.op = "drop" -> DropAll(course, targets).course
    [] intent.op = "force_single" -> ForceSingle(course)
    [] intent.op = "reorder" -> ReorderModules(course, targets)

\* The capabilities the warning names.
WarnedOf(course, intent) ==
  IF intent.op = "drop" THEN DropAll(course, intent.targets).lost ELSE {}

=============================================================================

------------------------------ MODULE FrontDoor ------------------------------
(***************************************************************************)
(* One browser tab of `forged ui`: the session of ui/front_door.py, the    *)
(* service behind it (service.py) and the build process a launch starts.   *)
(*                                                                         *)
(* Every button is a function of the session value.  The listener reads    *)
(* the session when it starts and replaces it when it ends (ui/app.py      *)
(* 167-193).  Three of them take time: planning and adjusting wait for a   *)
(* model, launching starts a process.  One listener handles one click at a *)
(* time, but different listeners overlap, and the one that ends last wins. *)
(* The others are one step, the best case for the code.                    *)
(***************************************************************************)
EXTENDS CoursePlan

CONSTANTS Asked,       \* structural edits the learner may ask for
          MaxUndo,     \* MAX_UNDO
          Limit,       \* what the learner types as "Max modules"; 0 is blank
          Refused,     \* numbers set_options refuses: negative, or not whole
          NoPlan,
          MaxPlans,    \* bound: plans the session is given
          MaxChanges,  \* bound: changes of the options
          MaxBuilds,   \* bound: builds launched
          MaxRunning   \* bound: slow listeners at a time

ASSUME NoPlanAssumption == NoPlan \notin Seq(ModuleSpec)
ASSUME AskedAssumption == Asked \subseteq Intent
ASSUME LimitAssumption == Limit \subseteq Nat /\ Refused \cap Nat = {}
ASSUME BoundsAssumption ==
  /\ MaxUndo \in Nat \ {0} /\ MaxPlans \in Nat /\ MaxChanges \in Nat
  /\ MaxBuilds \in Nat /\ MaxRunning \in Nat

VARIABLES
  session,    \* the gr.State of the tab
  running,    \* listeners under way, with the session each has read
  shown,      \* the number in the "Max modules" widget
  builds,     \* build requests, with what became of each
  plans,      \* observer: plans given to the session so far
  changes,    \* observer: changes of the options so far
  confirmed,  \* observer: plans the learner saw confirmed
  overwrote   \* observer: has a listener replaced a session it had not read

observers == <<plans, changes, confirmed, overwrote>>
vars == <<session, running, shown, builds, observers>>

Slow == {"plan", "adjust", "launch"}

\* The numbers a launch and a plan are known by start at 1; serial is not in
\* the code, it tells one plan in the session from the next.
Session ==
  [plan : Seq(ModuleSpec) \cup {NoPlan}, history : Seq(Seq(ModuleSpec)),
   confirmed : BOOLEAN, launch : 0 .. MaxBuilds, limit : Limit \cup {0}, serial : 0 .. MaxPlans]

NewSession(limit) ==
  [plan |-> NoPlan, history |-> <<>>, confirmed |-> FALSE, launch |-> 0,
   limit |-> limit, serial |-> 0]

\* What the widget may show.
Widget == Limit \cup {0} \cup Refused

Click == [read : Session, shown : Widget]
Build == [plan : Seq(ModuleSpec), limit : Limit \cup {0}, shown : Widget,
          serial : 1 .. MaxPlans]

Init ==
  /\ session = NewSession(0)
  /\ running = <<>>
  /\ shown = 0
  /\ builds = <<>>
  /\ plans = 0
  /\ changes = 0
  /\ confirmed = {}
  /\ overwrote = FALSE

-----------------------------------------------------------------------------
\* The service

\* Mutation: the estimate ignores the limit.
BuildingAll(plan, limit) == Len(plan)

\* The number of modules the preview announces.
Building(plan, limit) == IF limit = 0 \/ limit > Len(plan) THEN Len(plan) ELSE limit

\* Mutation: a course is launched whatever it dropped.
CanBuildAny(plan, limit) == Building(plan, limit) # 0

\* _preview: a course must cover what was requested, and something is built.
CanBuild(plan, limit) ==
  /\ Len(plan) # 1 => Requested \subseteq AllCapabilities(plan)
  /\ Building(plan, limit) # 0

\* What the build process makes of a request (load_request, _build_confirmed):
\* it reads nothing else.
BuildRun(plan, limit) ==
  CASE Len(plan) = 1 -> [kind |-> "lesson", ran |-> 1]
    [] Len(plan) # 1 /\ ~(Requested \subseteq AllCapabilities(plan)) ->
         [kind |-> "refused", ran |-> 0]
    [] OTHER -> [kind |-> "course",
                 ran |-> Len(SubSeq(plan, 1, IF limit = 0 THEN Len(plan)
                                             ELSE Min({limit, Len(plan)})))]

\* service.edit: the edit the learner chose, if it applies.
EditsOf(plan) == {ApplyStructural(plan, i) : i \in {i \in Asked : Applies(plan, i)}}

\* service.adjust: an edit too, or a plan made again with guidance.
AdjustmentsOf(plan) == Plan \cup EditsOf(plan)

-----------------------------------------------------------------------------
\* Steps on a session value

\* Mutation: every plan is remembered.
LastOfAll(history) == history

\* history[-MAX_UNDO:]
LastOf(history) ==
  IF Len(history) <= MaxUndo THEN history
  ELSE SubSeq(history, Len(history) - MaxUndo + 1, Len(history))

\* Mutation: an edited plan stays confirmed.
WithPlanStillConfirmed(s, plan) ==
  [s EXCEPT !.plan = plan, !.history = LastOf(Append(@, s.plan)), !.serial = plans + 1]

WithPlan(s, plan) ==
  [s EXCEPT !.plan = plan, !.history = LastOf(Append(@, s.plan)),
            !.confirmed = FALSE, !.launch = 0, !.serial = plans + 1]

Confirmable(s) == s.plan # NoPlan /\ CanBuild(s.plan, s.limit)

Confirmed(s) == [s EXCEPT !.confirmed = Confirmable(s) \/ @]

NoteConfirmed(s) ==
  confirmed' = IF Confirmable(s) THEN confirmed \cup {s.plan} ELSE confirmed

\* A listener is clicked and reads the session (a launch, what is on screen
\* too); it is still busy otherwise.
Begin(listener) ==
  /\ listener \notin DOMAIN running
  /\ Cardinality(DOMAIN running) < MaxRunning
  /\ running' = [l \in DOMAIN running \cup {listener} |->
                   IF l # listener THEN running[l]
                   ELSE [read |-> session, shown |-> IF listener = "launch" THEN shown ELSE 0]]
  /\ UNCHANGED <<session, shown, builds, observers>>

\* It ends, and its session replaces whatever is there by now.
End(listener, newSession) ==
  /\ session' = newSession
  /\ running' = [other \in DOMAIN running \ {listener} |-> running[other]]
  /\ overwrote' = (overwrote \/ session # running[listener].read)
  /\ UNCHANGED <<shown, changes>>

\* The session gets a plan: the bound, and the observer's count.
CountPlan == plans < MaxPlans /\ plans' = plans + 1

-----------------------------------------------------------------------------
\* The slow listeners

BeginPlan == Begin("plan")

\* A failure returns the session that was read.
EndPlan ==
  /\ "plan" \in DOMAIN running
  /\ LET read == running["plan"].read IN
     \/ End("plan", read) /\ UNCHANGED plans
     \/ /\ CountPlan
        /\ \E plan \in Plan :
             End("plan", [NewSession(read.limit) EXCEPT !.plan = plan, !.serial = plans + 1])
  /\ UNCHANGED <<builds, confirmed>>

BeginAdjust == session.plan # NoPlan /\ Begin("adjust")

\* The classifier's answer: it fails or cannot be applied, confirms, cancels,
\* asks for a re-plan, or edits.
EndAdjust ==
  /\ "adjust" \in DOMAIN running
  /\ LET read == running["adjust"].read IN
     \/ End("adjust", read) /\ UNCHANGED <<plans, confirmed>>
     \/ End("adjust", Confirmed(read)) /\ NoteConfirmed(read) /\ UNCHANGED plans
     \/ End("adjust", NewSession(read.limit)) /\ UNCHANGED <<plans, confirmed>>
     \/ /\ CountPlan
        /\ \E plan \in AdjustmentsOf(read.plan) : End("adjust", WithPlan(read, plan))
        /\ UNCHANGED confirmed
  /\ UNCHANGED builds

\* Mutation: a launched plan can be launched again.
LaunchableAgain(s) == s.plan # NoPlan /\ s.confirmed

Launchable(s) == s.plan # NoPlan /\ s.confirmed /\ s.launch = 0

BeginLaunch == Launchable(session) /\ Begin("launch")

\* service.build checks once more, writes the request and starts the process.
ServiceBuild(click) ==
  /\ CanBuild(click.read.plan, click.read.limit)
  /\ Len(builds) < MaxBuilds
  /\ builds' = Append(builds, [plan |-> click.read.plan, limit |-> click.read.limit,
                               shown |-> click.shown, serial |-> click.read.serial])

\* When any of it fails the session that was read comes back.
EndLaunch ==
  /\ "launch" \in DOMAIN running
  /\ LET read == running["launch"].read IN
     \/ End("launch", read) /\ UNCHANGED builds
     \/ ServiceBuild(running["launch"]) /\ End("launch", [read EXCEPT !.launch = Len(builds) + 1])
  /\ UNCHANGED <<plans, confirmed>>

-----------------------------------------------------------------------------
\* The quick listeners

Edit ==
  /\ session.plan # NoPlan
  /\ CountPlan
  /\ \E plan \in EditsOf(session.plan) : session' = WithPlan(session, plan)
  /\ UNCHANGED <<running, shown, builds, changes, confirmed, overwrote>>

Undo ==
  /\ session.history # <<>>
  /\ CountPlan
  /\ session' = [session EXCEPT !.plan = Last(session.history), !.history = Front(@),
                                !.confirmed = FALSE, !.launch = 0, !.serial = plans + 1]
  /\ UNCHANGED <<running, shown, builds, changes, confirmed, overwrote>>

Confirm ==
  /\ ~session.confirmed
  /\ Confirmable(session)
  /\ session' = Confirmed(session)
  /\ NoteConfirmed(session)
  /\ UNCHANGED <<running, shown, builds, plans, changes, overwrote>>

Cancel ==
  /\ session' = NewSession(session.limit)
  /\ UNCHANGED <<running, shown, builds, observers>>

\* The change event of the widget, handled at once.  A refused number stays on
\* screen, under a warning, and the session keeps its options.
SetOptions ==
  /\ changes < MaxChanges
  /\ changes' = changes + 1
  /\ shown' \in Widget \ {shown}
  /\ session' = IF shown' \in Refused THEN session ELSE [session EXCEPT !.limit = shown']
  /\ UNCHANGED <<running, builds, plans, confirmed, overwrote>>

-----------------------------------------------------------------------------
Next ==
  \/ BeginPlan \/ EndPlan \/ BeginAdjust \/ EndAdjust \/ BeginLaunch \/ EndLaunch
  \/ Edit \/ Undo \/ Confirm \/ Cancel \/ SetOptions

Spec == Init /\ [][Next]_vars

-----------------------------------------------------------------------------
\* Properties

\* Type invariant: a session that remembers MAX_UNDO plans at most, what has
\* been clicked, and the builds.
TypeOK ==
  /\ session \in Session /\ Len(session.history) <= MaxUndo
  /\ DOMAIN running \subseteq Slow /\ \A l \in DOMAIN running : running[l] \in Click
  /\ shown \in Widget
  /\ builds \in Seq(Build) /\ Len(builds) <= MaxBuilds
  /\ plans \in 0 .. MaxPlans /\ changes \in 0 .. MaxChanges
  /\ confirmed \subseteq Seq(ModuleSpec)
  /\ overwrote \in BOOLEAN

\* Money is spent only on a plan the learner has confirmed as it stands:
\* whichever listeners overlap, and whatever an edit, an undo or a late answer
\* of the model puts in its place, no other plan is launched (FrontDoor.launch,
\* _with_plan).
LaunchedAsConfirmed == \A b \in DOMAIN builds : builds[b].plan \in confirmed

\* The front door and the build process agree: what preview let through and
\* priced is not refused by the child, which builds as many modules as the
\* estimate named (service._preview, cli._build_confirmed, run_course).
PreviewIsKept ==
  \A b \in DOMAIN builds :
    LET run == BuildRun(builds[b].plan, builds[b].limit) IN
    /\ run.kind # "refused"
    /\ run.ran = Building(builds[b].plan, builds[b].limit)

\* What the learner does not expect takes two listeners that overlap, the one
\* that ends last writing back a session it read before the other: without that,
\* no plan is built twice ("This plan was already launched."), and a build has
\* as many modules as the widget says when launch is clicked ("Max modules to
\* build (blank or 0 = all)", app.py:147), unless it shows a number that was
\* refused with a warning.
OnlyLostUpdatesSurprise ==
  ~overwrote =>
    /\ \A a, b \in DOMAIN builds : builds[a].serial = builds[b].serial => a = b
    /\ \A b \in DOMAIN builds : builds[b].shown \notin Refused =>
         BuildRun(builds[b].plan, builds[b].limit).ran = Building(builds[b].plan, builds[b].shown)

=============================================================================

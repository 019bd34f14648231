--------------------------- MODULE FrontDoorProofs ---------------------------
(***************************************************************************)
(* The front door for any planner, any edits, any limits and any overlap   *)
(* of the listeners: what is launched was confirmed (what an edit makes of *)
(* a plan is not used there), the types (it is, by EditType), what preview *)
(* promises, and what takes a lost update.                                 *)
(***************************************************************************)
EXTENDS FrontDoor, PlanGateProofs

Fields == {"plan", "history", "confirmed", "launch", "limit", "serial"}

\* A session that says it is confirmed holds a plan the learner saw confirmed.
Sound(s) == DOMAIN s = Fields /\ (s.confirmed => s.plan \in confirmed)

\* So does every session a listener has read; the one a launch has read is
\* confirmed.
Reads ==
  \A l \in DOMAIN running :
    Sound(running[l].read) /\ (l = "launch" => running[l].read.confirmed)

Built ==
  /\ builds \in Seq({builds[b] : b \in DOMAIN builds})
  /\ LaunchedAsConfirmed

IInv == Sound(session) /\ Reads /\ Built

-----------------------------------------------------------------------------
\* A new session holds no plan and is not confirmed.
LEMMA NewIsSound ==
  ASSUME NEW limit
  PROVE  Sound(NewSession(limit)) /\ ~NewSession(limit).confirmed
BY DEF Sound, NewSession, Fields

\* A plan that is put in place of another is not confirmed.
LEMMA WithPlanIsSound ==
  ASSUME NEW s, Sound(s), NEW plan
  PROVE  DOMAIN WithPlan(s, plan) = Fields /\ ~WithPlan(s, plan).confirmed
BY DEF Sound, WithPlan, Fields

\* What every listener has read stays sound while sessions come and go.
LEMMA ReadsStay ==
  ASSUME Reads, confirmed \subseteq confirmed',
         NEW l, running' = [other \in DOMAIN running \ {l} |-> running[other]]
  PROVE  Reads'
<1> SUFFICES ASSUME NEW k \in DOMAIN running'
             PROVE  (Sound(running[k].read) /\ (k = "launch" => running[k].read.confirmed))'
  BY DEF Reads
<1>1. k \in DOMAIN running /\ running'[k] = running[k]
  OBVIOUS
<1>2. Sound(running[k].read) /\ (k = "launch" => running[k].read.confirmed)
  BY <1>1 DEF Reads
<1> QED
  BY <1>1, <1>2 DEF Sound

\* A listener that begins reads what is there.
LEMMA BeginIsSound ==
  ASSUME IInv, NEW l, Begin(l), l = "launch" => session.confirmed
  PROVE  IInv'
<1> DEFINE With(seen) == [k \in DOMAIN running \cup {l} |->
                            IF k # l THEN running[k] ELSE [read |-> session, shown |-> seen]]
<1>1. UNCHANGED <<session, builds, confirmed>> /\ \E seen : running' = With(seen)
  BY DEF Begin, observers
<1>2. PICK seen : running' = With(seen)
  BY <1>1
<1>3. Sound(session)' /\ Built'
  BY <1>1 DEF IInv, Sound, Built, LaunchedAsConfirmed
<1>4. Reads'
  <2> SUFFICES ASSUME NEW k \in DOMAIN running'
               PROVE  (Sound(running[k].read) /\ (k = "launch" => running[k].read.confirmed))'
    BY DEF Reads
  <2>1. DOMAIN running' = {l} \cup DOMAIN running
        /\ running'[k] = IF k = l THEN [read |-> session, shown |-> seen] ELSE running[k]
    BY <1>2 
  <2>2. CASE k = l
    BY <1>1, <2>1, <2>2 DEF IInv, Sound
  <2>3. CASE k # l
    <3>1. Sound(running[k].read) /\ (k = "launch" => running[k].read.confirmed)
      BY <2>1, <2>3 DEF IInv, Reads
    <3> QED
      BY <1>1, <2>1, <2>3, <3>1 DEF Sound
  <2> QED
    BY <2>2, <2>3
<1> QED
  BY <1>3, <1>4 DEF IInv

\* What was launched as confirmed stays so.
LEMMA BuiltStays ==
  ASSUME Built, UNCHANGED builds, confirmed \subseteq confirmed'
  PROVE  Built'
BY DEF Built, LaunchedAsConfirmed

\* A listener that ends puts a sound session in place.
LEMMA EndIsSound ==
  ASSUME IInv, NEW l, NEW s, End(l, s), confirmed \subseteq confirmed', UNCHANGED builds,
         DOMAIN s = Fields, s.confirmed => s.plan \in confirmed'
  PROVE  IInv'
<1>1. session' = s /\ running' = [other \in DOMAIN running \ {l} |-> running[other]]
  BY DEF End
<1>2. Sound(session)'
  BY <1>1 DEF Sound
<1>3. Reads'
  BY <1>1, ReadsStay DEF IInv
<1>4. Built'
  BY BuiltStays DEF IInv
<1> QED
  BY <1>2, <1>3, <1>4 DEF IInv

\* Confirming a session that holds a plan, and noting that it was seen.
LEMMA ConfirmedIsSound ==
  ASSUME NEW s, Sound(s), NoteConfirmed(s)
  PROVE  /\ confirmed \subseteq confirmed'
         /\ DOMAIN Confirmed(s) = Fields
         /\ Confirmed(s).confirmed => Confirmed(s).plan \in confirmed'
<1>1. /\ DOMAIN Confirmed(s) = Fields
      /\ Confirmed(s).plan = s.plan
      /\ Confirmed(s).confirmed = (Confirmable(s) \/ s.confirmed)
  BY DEF Confirmed, Sound, Fields
<1>2. CASE Confirmable(s)
  <2>1. confirmed' = confirmed \cup {s.plan}
    BY <1>2 DEF NoteConfirmed
  <2> QED
    BY <1>1, <2>1
<1>3. CASE ~Confirmable(s)
  <2>1. confirmed' = confirmed
    BY <1>3 DEF NoteConfirmed
  <2> QED
    BY <1>1, <1>3, <2>1 DEF Sound
<1> QED
  BY <1>2, <1>3

LEMMA Starts == Init => IInv
<1> SUFFICES ASSUME Init PROVE IInv
  OBVIOUS
<1>1. session = NewSession(0) /\ running = <<>> /\ builds = <<>>
  BY DEF Init
<1>2. Sound(session)
  BY <1>1, NewIsSound
<1> QED
  BY <1>1, <1>2 DEF IInv, Reads, Built, LaunchedAsConfirmed

\* The slow listeners begin and end.
LEMMA SlowAreSound ==
  ASSUME IInv, BeginPlan \/ EndPlan \/ BeginAdjust \/ EndAdjust \/ BeginLaunch
  PROVE  IInv'
<1>1. CASE BeginPlan \/ BeginAdjust
  BY <1>1, BeginIsSound DEF BeginPlan, BeginAdjust
<1>2. CASE BeginLaunch
  BY <1>2, BeginIsSound DEF BeginLaunch, Launchable
<1>3. CASE EndPlan
  <2> DEFINE read == running["plan"].read
  <2>1. "plan" \in DOMAIN running /\ UNCHANGED <<builds, confirmed>>
    BY <1>3 DEF EndPlan
  <2>2. Sound(read)
    BY <2>1 DEF IInv, Reads
  <2>3. CASE End("plan", read)
    BY <2>1, <2>2, <2>3, EndIsSound DEF Sound
  <2>4. CASE \E plan \in Plan :
               End("plan", [NewSession(read.limit) EXCEPT !.plan = plan, !.serial = plans + 1])
    <3>1. PICK plan \in Plan :
            End("plan", [NewSession(read.limit) EXCEPT !.plan = plan, !.serial = plans + 1])
      BY <2>4
    <3> DEFINE new == [NewSession(read.limit) EXCEPT !.plan = plan, !.serial = plans + 1]
    <3>2. DOMAIN new = Fields /\ ~new.confirmed
      BY DEF NewSession, Fields
    <3> HIDE DEF new
    <3>3. End("plan", new)
      BY <3>1 DEF new
    <3> QED
      BY <2>1, <3>2, <3>3, EndIsSound
  <2> QED
    BY <1>3, <2>3, <2>4 DEF EndPlan
<1>4. CASE EndAdjust
  <2> DEFINE read == running["adjust"].read
  <2>1. "adjust" \in DOMAIN running /\ UNCHANGED builds
    BY <1>4 DEF EndAdjust
  <2>2. Sound(read)
    BY <2>1 DEF IInv, Reads
  <2>3. CASE End("adjust", read) /\ UNCHANGED confirmed
    BY <2>1, <2>2, <2>3, EndIsSound DEF Sound
  <2>4. CASE End("adjust", Confirmed(read)) /\ NoteConfirmed(read)
    BY <2>1, <2>2, <2>4, EndIsSound, ConfirmedIsSound
  <2>5. CASE End("adjust", NewSession(read.limit)) /\ UNCHANGED confirmed
    BY <2>1, <2>5, EndIsSound, NewIsSound DEF Sound
  <2>6. CASE UNCHANGED confirmed /\ \E plan \in AdjustmentsOf(read.plan) :
               End("adjust", WithPlan(read, plan))
    <3>1. PICK plan \in AdjustmentsOf(read.plan) : End("adjust", WithPlan(read, plan))
      BY <2>6
    <3>2. DOMAIN WithPlan(read, plan) = Fields /\ ~WithPlan(read, plan).confirmed
      BY <2>2, WithPlanIsSound
    <3> QED
      BY <2>1, <2>6, <3>1, <3>2, EndIsSound
  <2> QED
    BY <1>4, <2>3, <2>4, <2>5, <2>6 DEF EndAdjust
<1> QED
  BY <1>1, <1>2, <1>3, <1>4

\* Only here a build is added, of the session the launch has read.
LEMMA LaunchIsSound ==
  ASSUME IInv, EndLaunch
  PROVE  IInv'
<1> DEFINE read == running["launch"].read
<1>1. "launch" \in DOMAIN running /\ UNCHANGED confirmed
  BY DEF EndLaunch
<1>2. Sound(read) /\ read.confirmed /\ read.plan \in confirmed
  BY <1>1 DEF IInv, Reads, Sound
<1>3. CASE End("launch", read) /\ UNCHANGED builds
  BY <1>1, <1>2, <1>3, EndIsSound DEF Sound
<1>4. CASE ServiceBuild(running["launch"])
           /\ End("launch", [read EXCEPT !.launch = Len(builds) + 1])
  <2> DEFINE new == [read EXCEPT !.launch = Len(builds) + 1]
             old == {builds[b] : b \in DOMAIN builds}
  <2>1. DOMAIN new = Fields /\ new.plan = read.plan
    BY <1>2 DEF Sound, Fields
  <2> HIDE DEF new
  <2>2. PICK build : build.plan = read.plan /\ builds' = Append(builds, build)
    BY <1>4 DEF ServiceBuild
  <2>3. session' = new
        /\ running' = [other \in DOMAIN running \ {"launch"} |-> running[other]]
    BY <1>4 DEF End, new
  <2>4. Sound(session)'
    BY <1>1, <1>2, <2>1, <2>3 DEF Sound
  <2>5. Reads'
    BY <1>1, <2>3, ReadsStay DEF IInv
  <2>6. builds \in Seq(old) /\ LaunchedAsConfirmed
    BY DEF IInv, Built
  <2> HIDE DEF old
  <2>7. builds \in Seq(old \cup {build})
    BY <2>6
  <2>8. /\ builds' \in Seq(old \cup {build})
        /\ Len(builds') = Len(builds) + 1 /\ Len(builds) \in Nat
        /\ DOMAIN builds = 1 .. Len(builds)
        /\ \A b \in 1 .. Len(builds) : builds'[b] = builds[b]
        /\ builds'[Len(builds) + 1] = build
    BY <2>2, <2>7
  <2>9. DOMAIN builds' = 1 .. Len(builds) + 1
    BY <2>8
  <2>10. builds' \in Seq({builds'[b] : b \in DOMAIN builds'})
    BY <2>8, <2>9
  <2>11. LaunchedAsConfirmed'
    <3> SUFFICES ASSUME NEW b \in 1 .. Len(builds) + 1 PROVE builds'[b].plan \in confirmed
      BY <1>1, <2>9 DEF LaunchedAsConfirmed
    <3>1. CASE b \in 1 .. Len(builds)
      BY <2>6, <2>8, <3>1 DEF LaunchedAsConfirmed
    <3>2. CASE b = Len(builds) + 1
      BY <1>2, <2>2, <2>8, <3>2
    <3> QED
      BY <2>8, <3>1, <3>2
  <2> QED
    BY <2>4, <2>5, <2>10, <2>11 DEF IInv, Built
<1> QED
  BY <1>3, <1>4 DEF EndLaunch

\* The quick listeners.
LEMMA QuickAreSound ==
  ASSUME IInv, Edit \/ Undo \/ Confirm \/ Cancel \/ SetOptions
  PROVE  IInv'
<1>1. UNCHANGED <<running, builds>> /\ Sound(session) /\ Reads /\ Built
  BY DEF IInv, Edit, Undo, Confirm, Cancel, SetOptions, observers
<1>2. ASSUME DOMAIN session' = Fields, confirmed \subseteq confirmed',
             session'.confirmed => session'.plan \in confirmed'
      PROVE  IInv'
  <2>1. Reads'
    BY <1>1, <1>2 DEF Reads, Sound
  <2> QED
    BY <1>1, <1>2, <2>1, BuiltStays DEF IInv, Sound
<1>3. CASE Edit
  <2>1. PICK plan : session' = WithPlan(session, plan)
    BY <1>3 DEF Edit
  <2>2. confirmed' = confirmed
    BY <1>3 DEF Edit
  <2> QED
    BY <1>1, <1>2, <2>1, <2>2, WithPlanIsSound
<1>4. CASE Undo
  <2>1. confirmed' = confirmed /\ DOMAIN session' = Fields /\ ~session'.confirmed
    BY <1>1, <1>4 DEF Undo, Sound, Fields
  <2> QED
    BY <1>2, <2>1
<1>5. CASE Confirm
  <2>1. session' = Confirmed(session) /\ NoteConfirmed(session)
    BY <1>5 DEF Confirm
  <2> QED
    BY <1>1, <1>2, <2>1, ConfirmedIsSound
<1>6. CASE Cancel
  <2>1. confirmed' = confirmed /\ session' = NewSession(session.limit)
    BY <1>6 DEF Cancel, observers
  <2> QED
    BY <1>2, <2>1, NewIsSound DEF Sound
<1>7. CASE SetOptions
  <2>1. /\ confirmed' = confirmed
        /\ session' = session \/ session' = [session EXCEPT !.limit = shown']
    BY <1>7 DEF SetOptions, observers
  <2>2. DOMAIN session' = Fields /\ session'.plan = session.plan
        /\ session'.confirmed = session.confirmed
    BY <1>1, <2>1 DEF Sound, Fields
  <2> QED
    BY <1>1, <1>2, <2>1, <2>2 DEF Sound
<1> QED
  BY <1>3, <1>4, <1>5, <1>6, <1>7

\* Every step keeps the invariant.
LEMMA Stays == IInv /\ [Next]_vars => IInv'
<1> SUFFICES ASSUME IInv, [Next]_vars PROVE IInv'
  OBVIOUS
<1>1. CASE Next
  BY <1>1, SlowAreSound, LaunchIsSound, QuickAreSound DEF Next
<1>2. CASE UNCHANGED vars
  BY <1>2 DEF vars, observers, IInv, Sound, Reads, Built, LaunchedAsConfirmed
<1> QED
  BY <1>1, <1>2

\* Whichever listeners overlap, and however often a session is overwritten with
\* an older one, only a plan the learner saw confirmed is launched
\* (FrontDoor.launch, FrontDoor._with_plan).
THEOREM LaunchedAsConfirmedHolds == Spec => []LaunchedAsConfirmed
<1>1. IInv => LaunchedAsConfirmed
  BY DEF IInv, Built
<1> QED
  BY <1>1, Starts, Stays, PTL DEF Spec

(***************************************************************************)
(* Types, and what preview promises.                                       *)
(***************************************************************************)

\* A session of at most n plans: one that holds a plan has counted it.
Whole(s, n) ==
  /\ s \in Session /\ Len(s.history) <= MaxUndo
  /\ s.serial <= n /\ (s.plan # NoPlan => s.serial >= 1)

\* What a listener has read.  Adjusting and launching begin with a plan on
\* screen, launching with one that is not launched yet.
WholeClick(l, click) ==
  /\ click \in Click /\ Whole(click.read, plans)
  /\ l \in {"adjust", "launch"} => click.read.plan # NoPlan
  /\ l = "launch" => click.read.launch = 0

\* Every request was let through by preview.
Requests ==
  /\ builds \in Seq(Build) /\ Len(builds) <= MaxBuilds
  /\ \A b \in DOMAIN builds :
       CanBuild(builds[b].plan, builds[b].limit) /\ builds[b].serial <= plans

Around ==
  /\ plans \in 0 .. MaxPlans /\ changes \in 0 .. MaxChanges
  /\ overwrote \in BOOLEAN /\ shown \in Widget
  /\ confirmed \subseteq Seq(ModuleSpec)

TInv ==
  /\ Around
  /\ Whole(session, plans)
  /\ DOMAIN running \subseteq Slow /\ \A l \in DOMAIN running : WholeClick(l, running[l])
  /\ Requests

LEMMA NumbersFacts ==
  /\ MaxUndo \in Nat /\ MaxUndo # 0 /\ MaxPlans \in Nat /\ MaxBuilds \in Nat
  /\ MaxChanges \in Nat
  /\ Limit \subseteq Nat /\ 0 \in Widget
BY BoundsAssumption, LimitAssumption DEF Widget

\* Remembering one plan more.
LEMMA LastOfFacts ==
  ASSUME NEW h \in Seq(Seq(ModuleSpec))
  PROVE  LastOf(h) \in Seq(Seq(ModuleSpec)) /\ Len(LastOf(h)) <= MaxUndo
<1> DEFINE n == Len(h)
           tail == SubSeq(h, n - MaxUndo + 1, n)
<1>1. n \in Nat /\ MaxUndo \in Nat /\ MaxUndo # 0 /\ \A k \in 1 .. n : h[k] \in Seq(ModuleSpec)
  BY NumbersFacts
<1>2. CASE n <= MaxUndo
  BY <1>1, <1>2 DEF LastOf
<1>3. CASE ~(n <= MaxUndo)
  <2>1. LastOf(h) = tail
    BY <1>3 DEF LastOf
  <2>2. n - MaxUndo + 1 \in 1 .. n + 1 /\ n - MaxUndo + 1 \in Nat
    BY <1>1, <1>3
  <2>3. \A k \in n - MaxUndo + 1 .. n : h[k] \in Seq(ModuleSpec)
    BY <1>1, <2>2
  <2>4. tail \in Seq(Seq(ModuleSpec)) /\ Len(tail) = n - (n - MaxUndo + 1) + 1
    <3> HIDE DEF n
    <3>1. n - MaxUndo + 1 <= n
      BY <1>1, <2>2, <1>3
    <3> QED
      BY <1>1, <2>2, <2>3, <3>1, SubSeqProperties
  <2> QED
    BY <1>1, <2>1, <2>4
<1> QED
  BY <1>2, <1>3

\* The session values the listeners put in place.
LEMMA NewIsWhole ==
  ASSUME NEW limit \in Limit \cup {0}, NEW n \in 0 .. MaxPlans
  PROVE  Whole(NewSession(limit), n) /\ NewSession(limit).limit = limit
                                     /\ NewSession(limit).serial = 0
<1>1. <<>> \in Seq(Seq(ModuleSpec)) /\ Len(<<>>) = 0
  OBVIOUS
<1> QED
  BY <1>1, NumbersFacts DEF Whole, NewSession, Session

LEMMA NewPlanIsWhole ==
  ASSUME NEW limit \in Limit \cup {0}, NEW n \in 1 .. MaxPlans, NEW plan \in Seq(ModuleSpec)
  PROVE  LET s == [NewSession(limit) EXCEPT !.plan = plan, !.serial = n] IN
         Whole(s, n) /\ s.limit = limit /\ s.serial = n
<1> DEFINE u == NewSession(limit)
           s == [u EXCEPT !.plan = plan, !.serial = n]
<1>1. u \in Session /\ Len(u.history) <= MaxUndo /\ u.limit = limit
  <2>1. 0 \in 0 .. MaxPlans
    BY NumbersFacts
  <2> QED
    BY <2>1, NewIsWhole DEF Whole
<1> HIDE DEF u
<1>2. /\ s.plan = plan /\ s.history = u.history /\ s.limit = u.limit /\ s.serial = n
  BY <1>1 DEF Session
<1>3. n \in 0 .. MaxPlans /\ n <= n /\ n >= 1
  BY NumbersFacts
<1>4. s \in Session
  BY <1>1, <1>3 DEF Session
<1> HIDE DEF s
<1>5. Whole(s, n)
  BY <1>1, <1>2, <1>3, <1>4 DEF Whole
<1> QED
  BY <1>1, <1>2, <1>5 DEF s, u

LEMMA WithPlanIsWhole ==
  ASSUME NEW s, NEW n \in Nat, Whole(s, n), s.plan # NoPlan, NEW plan \in Seq(ModuleSpec),
         plans + 1 \in 1 .. MaxPlans
  PROVE  /\ Whole(WithPlan(s, plan), plans + 1)
         /\ WithPlan(s, plan).limit = s.limit
         /\ WithPlan(s, plan).serial = plans + 1
<1> DEFINE h == LastOf(Append(s.history, s.plan))
<1>1. s.plan \in Seq(ModuleSpec) /\ s.history \in Seq(Seq(ModuleSpec)) /\ s \in Session
  BY DEF Whole, Session
<1>2. Append(s.history, s.plan) \in Seq(Seq(ModuleSpec))
  BY <1>1
<1>3. h \in Seq(Seq(ModuleSpec)) /\ Len(h) <= MaxUndo
  BY <1>2, LastOfFacts
<1>4. WithPlan(s, plan) =
        [s EXCEPT !.plan = plan, !.history = h, !.confirmed = FALSE, !.launch = 0,
                  !.serial = plans + 1]
  BY DEF WithPlan
<1> HIDE DEF h
<1> DEFINE t == [s EXCEPT !.plan = plan, !.history = h, !.confirmed = FALSE, !.launch = 0,
                          !.serial = plans + 1]
<1>5. /\ t.plan = plan /\ t.history = h /\ t.limit = s.limit /\ t.serial = plans + 1
  BY <1>1 DEF Session
<1>6. /\ plans + 1 \in 0 .. MaxPlans /\ 0 \in 0 .. MaxBuilds
      /\ plans + 1 <= plans + 1 /\ plans + 1 >= 1
  BY NumbersFacts
<1>7. t \in Session
  BY <1>1, <1>3, <1>6 DEF Session
<1> HIDE DEF t
<1>8. Whole(t, plans + 1)
  BY <1>3, <1>5, <1>6, <1>7 DEF Whole
<1> QED
  BY <1>4, <1>5, <1>8 DEF t

LEMMA ConfirmedIsWhole ==
  ASSUME NEW s, NEW n, Whole(s, n)
  PROVE  /\ Whole(Confirmed(s), n)
         /\ Confirmed(s).limit = s.limit /\ Confirmed(s).launch = s.launch
         /\ Confirmed(s).serial = s.serial /\ Confirmed(s).plan = s.plan
<1>1. s \in Session
  BY DEF Whole
<1>2. (Confirmable(s) \/ s.confirmed) \in BOOLEAN
  OBVIOUS
<1>3. PICK x \in BOOLEAN : Confirmed(s) = [s EXCEPT !.confirmed = x]
  BY <1>2 DEF Confirmed
<1> QED
  BY <1>1, <1>3 DEF Whole, Session

LEMMA NoteIsTyped ==
  ASSUME NEW s, NEW n, Whole(s, n), confirmed \subseteq Seq(ModuleSpec), NoteConfirmed(s)
  PROVE  confirmed' \subseteq Seq(ModuleSpec)
<1>1. s.plan # NoPlan => s.plan \in Seq(ModuleSpec)
  BY DEF Whole, Session
<1> QED
  BY <1>1 DEF NoteConfirmed, Confirmable

\* What the learner or the model asks for is a plan.
LEMMA AskedPlansAreTyped ==
  ASSUME NEW plan \in Seq(ModuleSpec)
  PROVE  EditsOf(plan) \subseteq Seq(ModuleSpec) /\ AdjustmentsOf(plan) \subseteq Seq(ModuleSpec)
<1>1. ASSUME NEW i \in Asked, Applies(plan, i) PROVE ApplyStructural(plan, i) \in Seq(ModuleSpec)
  <2>1. i \in Intent
    BY AskedAssumption
  <2> QED
    BY <1>1, <2>1, EditFacts, EditType
<1>2. EditsOf(plan) \subseteq Seq(ModuleSpec)
  BY <1>1 DEF EditsOf
<1> QED
  BY <1>2, PlanAssumption DEF AdjustmentsOf

\* Counting one plan more spoils nothing.
PlansGrow == plans' \in 0 .. MaxPlans /\ plans <= plans'

LEMMA WholeGrows ==
  ASSUME NEW s, plans \in Nat, PlansGrow, Whole(s, plans)
  PROVE  Whole(s, plans')
<1>1. s.serial \in Nat /\ plans' \in Nat /\ s.serial <= plans /\ plans <= plans'
  BY NumbersFacts DEF Whole, Session, PlansGrow
<1> QED
  BY <1>1 DEF Whole

LEMMA RequestsStay ==
  ASSUME Requests, plans \in Nat, PlansGrow, UNCHANGED builds
  PROVE  Requests'
<1> SUFFICES ASSUME NEW b \in DOMAIN builds PROVE builds[b].serial <= plans'
  BY DEF Requests
<1>1. builds[b] \in Build /\ builds[b].serial <= plans
  BY DEF Requests
<1>2. builds[b].serial \in Nat /\ plans' \in Nat
  BY <1>1, NumbersFacts DEF Build, PlansGrow
<1> QED
  BY <1>1, <1>2 DEF PlansGrow

LEMMA ClickStays ==
  ASSUME NEW l, NEW click, WholeClick(l, click), plans \in Nat, PlansGrow
  PROVE  /\ click \in Click /\ Whole(click.read, plans')
         /\ l \in {"adjust", "launch"} => click.read.plan # NoPlan
         /\ l = "launch" => click.read.launch = 0
BY WholeGrows DEF WholeClick

LEMMA BeginIsTyped ==
  ASSUME TInv, NEW l \in Slow, Begin(l),
         l \in {"adjust", "launch"} => session.plan # NoPlan, l = "launch" => session.launch = 0
  PROVE  TInv'
<1> DEFINE click(seen) == [read |-> session, shown |-> seen]
           With(seen) == [k \in DOMAIN running \cup {l} |-> IF k # l THEN running[k] ELSE click(seen)]
<1>1. UNCHANGED <<session, shown, builds, plans, changes, confirmed, overwrote>>
  BY DEF Begin, observers
<1>2. PICK seen \in {shown, 0} : running' = With(seen)
  BY DEF Begin
<1>3. Around /\ Whole(session, plans) /\ Requests /\ DOMAIN running \subseteq Slow
      /\ \A k \in DOMAIN running : WholeClick(k, running[k])
  BY DEF TInv
<1>4. seen \in Widget
  BY <1>3, NumbersFacts DEF Around
<1>5. WholeClick(l, click(seen))
  BY <1>3, <1>4 DEF WholeClick, Click, Whole
<1> HIDE DEF click
<1>6. DOMAIN running' = DOMAIN running \cup {l}
      /\ \A k \in DOMAIN running' : running'[k] = IF k # l THEN running[k] ELSE click(seen)
  BY <1>2
<1> HIDE DEF With
<1>7. \A k \in DOMAIN running' : WholeClick(k, running'[k])
  BY <1>3, <1>5, <1>6
<1>8. \A k \in DOMAIN running' : WholeClick(k, running[k])'
  BY <1>1, <1>7 DEF WholeClick, Whole
<1>9. Around' /\ Whole(session, plans)' /\ Requests'
  BY <1>1, <1>3 DEF Around, Whole, Requests
<1> QED
  BY <1>3, <1>6, <1>8, <1>9 DEF TInv

LEMMA EndIsTyped ==
  ASSUME TInv, NEW l, NEW s, End(l, s), PlansGrow, Whole(s, plans'),
         confirmed' \subseteq Seq(ModuleSpec), Requests'
  PROVE  TInv'
<1>1. session' = s /\ running' = [k \in DOMAIN running \ {l} |-> running[k]] /\ shown' = shown
      /\ changes' = changes /\ overwrote' \in BOOLEAN
  BY DEF End, TInv, Around
<1>2. Around /\ DOMAIN running \subseteq Slow /\ \A k \in DOMAIN running : WholeClick(k, running[k])
      /\ plans \in Nat
  BY NumbersFacts DEF TInv, Around
<1>3. DOMAIN running' \subseteq DOMAIN running /\ \A k \in DOMAIN running' : running'[k] = running[k]
  BY <1>1
<1>4. ASSUME NEW k \in DOMAIN running' PROVE WholeClick(k, running[k])'
  <2>1. k \in DOMAIN running /\ running'[k] = running[k] /\ WholeClick(k, running[k])
    BY <1>2, <1>3
  <2> DEFINE c == running[k]
  <2>2. /\ c \in Click /\ Whole(c.read, plans')
        /\ k \in {"adjust", "launch"} => c.read.plan # NoPlan
        /\ k = "launch" => c.read.launch = 0
    BY <1>2, <2>1, ClickStays
  <2>3. /\ running'[k] \in Click /\ Whole(running'[k].read, plans')
        /\ k \in {"adjust", "launch"} => running'[k].read.plan # NoPlan
        /\ k = "launch" => running'[k].read.launch = 0
    BY <2>1, <2>2, Zenon
  <2> QED
    BY <2>3 DEF WholeClick, Whole
<1>5. Around'
  BY <1>1, <1>2 DEF Around, PlansGrow
<1>6. Whole(session, plans)'
  BY <1>1 DEF Whole
<1> QED
  BY <1>2, <1>3, <1>4, <1>5, <1>6 DEF TInv

LEMMA TypesStart == Init => TInv
<1> SUFFICES ASSUME Init PROVE TInv
  OBVIOUS
<1>1. /\ session = NewSession(0) /\ running = <<>> /\ shown = 0 /\ builds = <<>>
      /\ plans = 0 /\ changes = 0 /\ confirmed = {} /\ overwrote = FALSE
  BY DEF Init
<1>2. 0 \in 0 .. MaxPlans /\ 0 \in 0 .. MaxChanges
  BY NumbersFacts
<1>3. Whole(session, plans)
  BY <1>1, <1>2, NewIsWhole
<1>4. Requests
  BY <1>1, NumbersFacts DEF Requests
<1>5. Around
  BY <1>1, <1>2, NumbersFacts DEF Around
<1>6. DOMAIN running = {}
  BY <1>1
<1> QED
  BY <1>3, <1>4, <1>5, <1>6 DEF TInv

\* The bound lets one plan more be counted.
LEMMA CountPlanGrows ==
  ASSUME CountPlan, plans \in 0 .. MaxPlans
  PROVE  PlansGrow /\ plans' = plans + 1 /\ plans + 1 \in 1 .. MaxPlans
BY NumbersFacts DEF CountPlan, PlansGrow

LEMMA SlowAreTyped ==
  ASSUME TInv, BeginPlan \/ EndPlan \/ BeginAdjust \/ EndAdjust \/ BeginLaunch
  PROVE  TInv'
<1>1. CASE BeginPlan
  BY <1>1, BeginIsTyped DEF BeginPlan, Slow
<1>2. CASE BeginAdjust
  BY <1>2, BeginIsTyped DEF BeginAdjust, Slow
<1>3. CASE BeginLaunch
  BY <1>3, BeginIsTyped DEF BeginLaunch, Launchable, Slow
<1>4. /\ plans \in 0 .. MaxPlans /\ plans \in Nat /\ confirmed \subseteq Seq(ModuleSpec) /\ Requests
      /\ \A l \in DOMAIN running : WholeClick(l, running[l])
  BY NumbersFacts DEF TInv, Around
<1>5. UNCHANGED plans => PlansGrow
  BY <1>4 DEF PlansGrow
<1>6. CASE EndPlan
  <2> DEFINE read == running["plan"].read
             with(plan) == [NewSession(read.limit) EXCEPT !.plan = plan, !.serial = plans + 1]
  <2>1. "plan" \in DOMAIN running /\ UNCHANGED <<builds, confirmed>>
    BY <1>6 DEF EndPlan
  <2>2. Whole(read, plans) /\ read.limit \in Limit \cup {0}
    BY <1>4, <2>1 DEF WholeClick, Whole, Session
  <2>3. CASE End("plan", read) /\ UNCHANGED plans
    BY <1>4, <1>5, <2>1, <2>2, <2>3, RequestsStay, WholeGrows, EndIsTyped
  <2>4. CASE CountPlan /\ \E plan \in Plan : End("plan", with(plan))
    <3>1. PICK plan \in Plan : End("plan", with(plan))
      BY <2>4
    <3>2. PlansGrow /\ plans' = plans + 1 /\ plans + 1 \in 1 .. MaxPlans
      BY <1>4, <2>4, CountPlanGrows
    <3>3. plan \in Seq(ModuleSpec)
      BY PlanAssumption
    <3> HIDE DEF read
    <3>4. Whole(with(plan), plans + 1)
      BY <2>2, <3>2, <3>3, NewPlanIsWhole
    <3> HIDE DEF with
    <3> QED
      BY <1>4, <2>1, <3>1, <3>2, <3>4, RequestsStay, EndIsTyped
  <2> QED
    BY <1>6, <2>3, <2>4 DEF EndPlan
<1>7. CASE EndAdjust
  <2> DEFINE read == running["adjust"].read
  <2>1. "adjust" \in DOMAIN running /\ UNCHANGED builds
    BY <1>7 DEF EndAdjust
  <2>2. Whole(read, plans) /\ read.limit \in Limit \cup {0} /\ read.plan # NoPlan
        /\ read.plan \in Seq(ModuleSpec)
    BY <1>4, <2>1 DEF WholeClick, Whole, Session
  <2> HIDE DEF read
  <2>3. CASE End("adjust", read) /\ UNCHANGED <<plans, confirmed>>
    BY <1>4, <1>5, <2>1, <2>2, <2>3, RequestsStay, WholeGrows, EndIsTyped
  <2>4. CASE End("adjust", Confirmed(read)) /\ NoteConfirmed(read) /\ UNCHANGED plans
    <3>1. Whole(Confirmed(read), plans) /\ confirmed' \subseteq Seq(ModuleSpec)
      BY <1>4, <2>2, <2>4, ConfirmedIsWhole, NoteIsTyped
    <3> QED
      BY <1>4, <1>5, <2>1, <2>4, <3>1, RequestsStay, WholeGrows, EndIsTyped
  <2>5. CASE End("adjust", NewSession(read.limit)) /\ UNCHANGED <<plans, confirmed>>
    <3>1. Whole(NewSession(read.limit), plans)
      BY <1>4, <2>2, NewIsWhole
    <3> QED
      BY <1>4, <1>5, <2>1, <2>5, <3>1, RequestsStay, WholeGrows, EndIsTyped
  <2>6. CASE /\ CountPlan
             /\ \E plan \in AdjustmentsOf(read.plan) : End("adjust", WithPlan(read, plan))
             /\ UNCHANGED confirmed
    <3>1. PICK plan \in AdjustmentsOf(read.plan) : End("adjust", WithPlan(read, plan))
      BY <2>6
    <3>2. PlansGrow /\ plans' = plans + 1 /\ plans + 1 \in 1 .. MaxPlans
      BY <1>4, <2>6, CountPlanGrows
    <3>3. plan \in Seq(ModuleSpec)
      BY <2>2, <3>1, AskedPlansAreTyped
    <3>4. Whole(WithPlan(read, plan), plans + 1)
      BY <1>4, <2>2, <3>2, <3>3, WithPlanIsWhole
    <3> QED
      BY <1>4, <2>1, <2>6, <3>1, <3>2, <3>4, RequestsStay, EndIsTyped
  <2> QED
    BY <1>7, <2>3, <2>4, <2>5, <2>6 DEF EndAdjust, read
<1> QED
  BY <1>1, <1>2, <1>3, <1>6, <1>7

\* What a launch that goes through adds.
RequestOf(click) ==
  [plan |-> click.read.plan, limit |-> click.read.limit, shown |-> click.shown,
   serial |-> click.read.serial]

LEMMA RequestIsTyped ==
  ASSUME NEW click, WholeClick("launch", click), plans \in 0 .. MaxPlans
  PROVE  RequestOf(click) \in Build /\ RequestOf(click).serial <= plans
<1>1. /\ click.read.plan \in Seq(ModuleSpec)
      /\ click.read.limit \in Limit \cup {0} /\ click.shown \in Widget
      /\ click.read.serial \in 0 .. MaxPlans /\ click.read.serial >= 1
      /\ click.read.serial <= plans
  BY DEF WholeClick, Click, Whole, Session
<1>2. click.read.serial \in 1 .. MaxPlans
  BY <1>1, NumbersFacts
<1> QED
  BY <1>1, <1>2 DEF RequestOf, Build

\* The builds after a launch: what was there, and the new one last.
LEMMA BuildsAppend ==
  ASSUME NEW click, WholeClick("launch", click), plans \in 0 .. MaxPlans, Requests,
         ServiceBuild(click)
  PROVE  /\ Len(builds) \in Nat /\ Len(builds) < MaxBuilds
         /\ CanBuild(click.read.plan, click.read.limit)
         /\ builds' \in Seq(Build) /\ Len(builds') = Len(builds) + 1
         /\ DOMAIN builds = 1 .. Len(builds) /\ DOMAIN builds' = 1 .. Len(builds) + 1
         /\ \A b \in DOMAIN builds : b \in DOMAIN builds' /\ builds'[b] = builds[b]
         /\ \A b \in DOMAIN builds' : b \in DOMAIN builds \/ b = Len(builds) + 1
         /\ builds'[Len(builds) + 1] = RequestOf(click)
<1> DEFINE new == RequestOf(click)
<1>1. builds' = Append(builds, new) /\ CanBuild(click.read.plan, click.read.limit)
      /\ Len(builds) < MaxBuilds
  BY DEF ServiceBuild, RequestOf
<1>2. new \in Build /\ builds \in Seq(Build)
  BY RequestIsTyped DEF Requests
<1> HIDE DEF new
<1>3. Len(builds) \in Nat /\ DOMAIN builds = 1 .. Len(builds)
  BY <1>2
<1>4. /\ builds' \in Seq(Build) /\ Len(builds') = Len(builds) + 1
      /\ DOMAIN builds' = 1 .. Len(builds) + 1
      /\ \A b \in 1 .. Len(builds) : builds'[b] = builds[b]
      /\ builds'[Len(builds) + 1] = new
  BY <1>1, <1>2
<1> QED
  BY <1>1, <1>3, <1>4 DEF new

LEMMA LaunchIsTyped ==
  ASSUME TInv, EndLaunch
  PROVE  TInv'
<1> DEFINE click == running["launch"]
           read == click.read
           new == [read EXCEPT !.launch = Len(builds) + 1]
<1>1. "launch" \in DOMAIN running /\ UNCHANGED <<plans, confirmed>>
  BY DEF EndLaunch
<1>2. /\ plans \in 0 .. MaxPlans /\ plans \in Nat /\ confirmed \subseteq Seq(ModuleSpec) /\ Requests
      /\ WholeClick("launch", click)
  BY <1>1, NumbersFacts DEF TInv, Around
<1>3. Whole(read, plans) /\ PlansGrow /\ plans' = plans
  BY <1>1, <1>2 DEF WholeClick, PlansGrow
<1>4. CASE End("launch", read) /\ UNCHANGED builds
  BY <1>1, <1>2, <1>3, <1>4, RequestsStay, EndIsTyped
<1>5. CASE ServiceBuild(click) /\ End("launch", new)
  <2> HIDE DEF click
  <2>1. /\ Len(builds) \in Nat /\ Len(builds) < MaxBuilds
        /\ CanBuild(click.read.plan, click.read.limit)
        /\ builds' \in Seq(Build) /\ Len(builds') = Len(builds) + 1
        /\ \A b \in DOMAIN builds : b \in DOMAIN builds' /\ builds'[b] = builds[b]
        /\ \A b \in DOMAIN builds' : b \in DOMAIN builds \/ b = Len(builds) + 1
        /\ builds'[Len(builds) + 1] = RequestOf(click)
    BY <1>2, <1>5, BuildsAppend
  <2>2. Len(builds) + 1 \in 0 .. MaxBuilds
    BY <2>1, NumbersFacts
  <2>3. Whole(new, plans)
    BY <1>3, <2>2 DEF Whole, Session
  <2>4. RequestOf(click).serial <= plans /\ RequestOf(click).plan = click.read.plan
        /\ RequestOf(click).limit = click.read.limit
    BY <1>2, RequestIsTyped DEF RequestOf
  <2>5. ASSUME NEW b \in DOMAIN builds'
        PROVE  CanBuild(builds'[b].plan, builds'[b].limit) /\ builds'[b].serial <= plans
    <3>1. CASE b \in DOMAIN builds
      BY <1>2, <2>1, <3>1 DEF Requests
    <3>2. CASE b = Len(builds) + 1
      BY <2>1, <2>4, <3>2
    <3> QED
      BY <2>1, <3>1, <3>2
  <2>6. Len(builds') <= MaxBuilds
    BY <2>1, NumbersFacts
  <2>7. Requests'
    <3>1. ASSUME NEW p, NEW limit, CanBuild(p, limit) PROVE CanBuild(p, limit)'
      BY <3>1 DEF CanBuild
    <3> QED
      BY <1>1, <2>1, <2>5, <2>6 DEF Requests, CanBuild
  <2> HIDE DEF new
  <2> QED
    BY <1>1, <1>2, <1>3, <1>5, <2>3, <2>7, EndIsTyped
<1> QED
  BY <1>4, <1>5 DEF EndLaunch

LEMMA QuickAreTyped ==
  ASSUME TInv, Edit \/ Undo \/ Confirm \/ Cancel \/ SetOptions
  PROVE  TInv'
<1>0. changes \in 0 .. MaxChanges
  BY DEF TInv, Around
<1>1. /\ plans \in 0 .. MaxPlans /\ plans \in Nat /\ confirmed \subseteq Seq(ModuleSpec) /\ Requests
      /\ \A l \in DOMAIN running : WholeClick(l, running[l])
      /\ DOMAIN running \subseteq Slow /\ overwrote \in BOOLEAN /\ shown \in Widget
      /\ Whole(session, plans)
  BY NumbersFacts DEF TInv, Around
<1>2. UNCHANGED <<running, builds, overwrote>> /\ changes' \in 0 .. MaxChanges
  <2>1. CASE Edit \/ Undo \/ Confirm \/ Cancel
    BY <1>0, <2>1 DEF Edit, Undo, Confirm, Cancel, observers
  <2>2. CASE SetOptions
    BY <1>0, <2>2, NumbersFacts DEF SetOptions
  <2> QED
    BY <2>1, <2>2
<1>3. session \in Session /\ session.limit \in Limit \cup {0}
  BY <1>1 DEF Whole, Session
<1>4. UNCHANGED plans => PlansGrow
  BY <1>1 DEF PlansGrow
<1>5. ASSUME PlansGrow, Whole(session', plans'), confirmed' \subseteq Seq(ModuleSpec),
             shown' \in Widget
      PROVE  TInv'
  <2>1. Requests'
    BY <1>1, <1>2, <1>5, RequestsStay
  <2>2. ASSUME NEW l \in DOMAIN running PROVE WholeClick(l, running[l])'
    <3> DEFINE c == running[l]
    <3>1. WholeClick(l, c)
      BY <1>1
    <3> HIDE DEF c
    <3>2. /\ c \in Click /\ Whole(c.read, plans')
          /\ l \in {"adjust", "launch"} => c.read.plan # NoPlan
          /\ l = "launch" => c.read.launch = 0
      BY <1>1, <1>5, <3>1, ClickStays
    <3>3. running'[l] = c
      BY <1>2 DEF c
    <3> QED
      BY <3>2, <3>3 DEF WholeClick, Whole
  <2>3. Around'
    BY <1>1, <1>2, <1>5 DEF Around, PlansGrow
  <2>4. Whole(session, plans)'
    BY <1>5 DEF Whole
  <2> QED
    BY <1>1, <1>2, <2>1, <2>2, <2>3, <2>4 DEF TInv
<1>6. CASE Edit
  <2>1. PICK plan \in EditsOf(session.plan) : session' = WithPlan(session, plan)
    BY <1>6 DEF Edit
  <2>2. CountPlan /\ session.plan # NoPlan /\ confirmed' = confirmed /\ shown' = shown
    BY <1>6 DEF Edit
  <2>3. session.plan \in Seq(ModuleSpec)
    BY <1>3, <2>2 DEF Session
  <2>4. plan \in Seq(ModuleSpec)
    BY <2>1, <2>3, AskedPlansAreTyped
  <2>5. PlansGrow /\ plans' = plans + 1 /\ plans + 1 \in 1 .. MaxPlans
    BY <1>1, <2>2, CountPlanGrows
  <2>6. Whole(WithPlan(session, plan), plans + 1)
    BY <1>1, <2>2, <2>4, <2>5, WithPlanIsWhole
  <2> QED
    BY <1>1, <1>5, <2>1, <2>2, <2>5, <2>6
<1>7. CASE Undo
  <2> DEFINE h == session.history
             back == [session EXCEPT !.plan = Last(h), !.history = Front(h), !.confirmed = FALSE,
                                     !.launch = 0, !.serial = plans + 1]
  <2>1. /\ h # <<>> /\ CountPlan /\ confirmed' = confirmed /\ shown' = shown
        /\ session' = back
    BY <1>7 DEF Undo
  <2>2. PlansGrow /\ plans' = plans + 1 /\ plans + 1 \in 1 .. MaxPlans
    BY <1>1, <2>1, CountPlanGrows
  <2>3. h \in Seq(Seq(ModuleSpec)) /\ Len(h) <= MaxUndo
    BY <1>1 DEF Whole, Session
  <2>4. Last(h) \in Seq(ModuleSpec) /\ Front(h) \in Seq(Seq(ModuleSpec)) /\ Len(Front(h)) <= MaxUndo
    <3> HIDE DEF h
    <3>1. Len(h) \in Nat /\ Len(h) # 0
      BY <2>1, <2>3
    <3>2. Len(h) - 1 \in Nat /\ Len(h) - 1 <= Len(h) /\ Len(h) \in 1 .. Len(h)
      BY <3>1
    <3>3. Last(h) \in Seq(ModuleSpec)
      BY <2>3, <3>2 DEF Last
    <3>4. \A k \in 1 .. Len(h) - 1 : h[k] \in Seq(ModuleSpec)
      BY <2>3, <3>2
    <3>5. SubSeq(h, 1, Len(h) - 1) \in Seq(Seq(ModuleSpec))
          /\ Len(SubSeq(h, 1, Len(h) - 1)) = Len(h) - 1
      <4> DEFINE m == Len(h) - 1
      <4>1. m \in 1 - 1 .. Len(h) /\ 1 \in 1 .. Len(h) + 1 /\ m - 1 + 1 = m /\ 1 \in Int /\ m \in Int
        BY <3>1, <3>2
      <4>2. \A k \in 1 .. m : h[k] \in Seq(ModuleSpec)
        BY <3>4
      <4> HIDE DEF m
      <4>3. SubSeq(h, 1, m) \in Seq(Seq(ModuleSpec)) /\ Len(SubSeq(h, 1, m)) = m
        BY <2>3, <3>1, <4>1, <4>2, SubSeqProperties
      <4> QED
        BY <4>3 DEF m
    <3>6. Front(h) = SubSeq(h, 1, Len(h) - 1)
      BY DEF Front
    <3> QED
      BY <2>3, <3>1, <3>3, <3>5, <3>6, NumbersFacts
  <2> HIDE DEF h
  <2>5. /\ back.plan = Last(h) /\ back.history = Front(h) /\ back.serial = plans + 1
    BY <1>3 DEF Session
  <2>6. plans + 1 \in 0 .. MaxPlans /\ 0 \in 0 .. MaxBuilds /\ plans + 1 <= plans + 1
        /\ plans + 1 >= 1
    BY <2>2, NumbersFacts
  <2>7. back \in Session
    BY <1>3, <2>4, <2>6 DEF Session
  <2> HIDE DEF back
  <2>8. Whole(back, plans + 1)
    BY <2>4, <2>5, <2>6, <2>7 DEF Whole
  <2> QED
    BY <1>1, <1>5, <2>1, <2>2, <2>8
<1>8. CASE Confirm
  <2>1. session' = Confirmed(session) /\ NoteConfirmed(session) /\ UNCHANGED <<plans, shown>>
    BY <1>8 DEF Confirm
  <2>2. Whole(Confirmed(session), plans) /\ confirmed' \subseteq Seq(ModuleSpec)
    BY <1>1, <2>1, ConfirmedIsWhole, NoteIsTyped
  <2> QED
    BY <1>1, <1>4, <1>5, <2>1, <2>2
<1>9. CASE Cancel
  <2>1. session' = NewSession(session.limit) /\ UNCHANGED <<plans, shown, confirmed>>
    BY <1>9 DEF Cancel, observers
  <2>2. Whole(NewSession(session.limit), plans)
    BY <1>1, <1>3, NewIsWhole
  <2> QED
    BY <1>1, <1>4, <1>5, <2>1, <2>2
<1>10. CASE SetOptions
  <2>1. UNCHANGED <<plans, confirmed>> /\ shown' \in Widget
    BY <1>10 DEF SetOptions, observers
  <2>2. Whole(session', plans)
    <3>1. CASE shown' \in Refused
      <4>1. session' = session
        BY <1>10, <3>1 DEF SetOptions
      <4> QED
        BY <1>1, <4>1
    <3>2. CASE shown' \notin Refused
      <4>1. session' = [session EXCEPT !.limit = shown'] /\ shown' \in Limit \cup {0}
        BY <1>10, <3>2 DEF SetOptions, Widget
      <4> QED
        BY <1>1, <1>3, <4>1 DEF Whole, Session
    <3> QED
      BY <3>1, <3>2
  <2> QED
    BY <1>1, <1>4, <1>5, <2>1, <2>2
<1> QED
  BY <1>6, <1>7, <1>8, <1>9, <1>10

LEMMA TypesStay == TInv /\ [Next]_vars => TInv'
<1> SUFFICES ASSUME TInv, [Next]_vars PROVE TInv'
  OBVIOUS
<1>1. CASE Next
  BY <1>1, SlowAreTyped, LaunchIsTyped, QuickAreTyped DEF Next
<1>2. CASE UNCHANGED vars
  BY <1>2 DEF vars, observers, TInv, Around, Whole, WholeClick, Requests
<1> QED
  BY <1>1, <1>2

LEMMA TypesHold == Spec => []TInv
BY TypesStart, TypesStay, PTL DEF Spec

\* The session remembers MAX_UNDO plans at most, every listener a session, and
\* every request is of a plan, whichever listeners overlap.
THEOREM FrontDoorTypeCorrect == Spec => []TypeOK
<1>1. TInv => TypeOK
  BY DEF TInv, Around, Whole, WholeClick, Requests, TypeOK
<1> QED
  BY <1>1, TypesHold, PTL

-----------------------------------------------------------------------------
\* What preview lets through is not refused by the build process, which builds
\* as many modules as were announced.
LEMMA PreviewAgrees ==
  ASSUME NEW p \in Seq(ModuleSpec), NEW limit \in Nat, CanBuild(p, limit)
  PROVE  /\ BuildRun(p, limit).kind # "refused"
         /\ BuildRun(p, limit).ran = Building(p, limit)
<1>1. Len(p) \in Nat /\ Building(p, limit) # 0
      /\ (Len(p) # 1 => Requested \subseteq AllCapabilities(p))
  BY DEF CanBuild
<1>2. CASE Len(p) = 1
  <2>1. BuildRun(p, limit) = [kind |-> "lesson", ran |-> 1]
    BY <1>2 DEF BuildRun
  <2>2. Building(p, limit) = 1
    BY <1>1, <1>2 DEF Building
  <2> QED
    BY <2>1, <2>2
<1>3. CASE Len(p) # 1
  <2> DEFINE m == IF limit = 0 THEN Len(p) ELSE Min({limit, Len(p)})
  <2>1. BuildRun(p, limit) = [kind |-> "course", ran |-> Len(SubSeq(p, 1, m))]
    BY <1>1, <1>3 DEF BuildRun
  <2>2. m = Building(p, limit) /\ m \in 0 .. Len(p)
    <3>1. limit <= Len(p) => Min({limit, Len(p)}) = limit
      <4> SUFFICES ASSUME limit <= Len(p) PROVE Min({limit, Len(p)}) = limit
        OBVIOUS
      <4>1. \A x \in {limit, Len(p)} : (\A y \in {limit, Len(p)} : x <= y) <=> x = limit
        BY <1>1
      <4> QED
        BY <4>1 DEF Min
    <3>2. limit > Len(p) => Min({limit, Len(p)}) = Len(p)
      <4> SUFFICES ASSUME limit > Len(p) PROVE Min({limit, Len(p)}) = Len(p)
        OBVIOUS
      <4>1. \A x \in {limit, Len(p)} : (\A y \in {limit, Len(p)} : x <= y) <=> x = Len(p)
        BY <1>1
      <4> QED
        BY <4>1 DEF Min
    <3> QED
      BY <1>1, <3>1, <3>2 DEF Building
  <2> HIDE DEF m
  <2>3. Len(SubSeq(p, 1, m)) = m
    <3>1. \A i \in 1 .. m : p[i] \in ModuleSpec
      BY <1>1, <2>2
    <3>2. m \in Int /\ 1 \in Int /\ (IF 1 <= m THEN m - 1 + 1 ELSE 0) = m
      BY <1>1, <2>2
    <3>3. Len(SubSeq(p, 1, m)) = IF 1 <= m THEN m - 1 + 1 ELSE 0
      BY <3>1, <3>2, SubSeqProperties
    <3> QED
      BY <3>2, <3>3
  <2> QED
    BY <2>1, <2>2, <2>3
<1> QED
  BY <1>2, <1>3

LEMMA RequestsAgree ==
  ASSUME Requests, NEW b \in DOMAIN builds
  PROVE  /\ BuildRun(builds[b].plan, builds[b].limit).kind # "refused"
         /\ BuildRun(builds[b].plan, builds[b].limit).ran =
              Building(builds[b].plan, builds[b].limit)
<1>1. builds[b] \in Build /\ CanBuild(builds[b].plan, builds[b].limit)
  BY DEF Requests
<1>2. builds[b].plan \in Seq(ModuleSpec) /\ builds[b].limit \in Limit \cup {0}
  BY <1>1 DEF Build
<1>3. builds[b].limit \in Nat
  BY <1>2, NumbersFacts
<1> QED
  BY <1>1, <1>2, <1>3, PreviewAgrees

\* The estimate the learner sees is what the build process does, for a plan of
\* any length, any limit and any overlap of the listeners.
THEOREM PreviewIsKeptHolds == Spec => []PreviewIsKept
<1>1. TInv => PreviewIsKept
  BY RequestsAgree DEF TInv, PreviewIsKept
<1> QED
  BY <1>1, TypesHold, PTL

-----------------------------------------------------------------------------
(***************************************************************************)
(* Without a lost update.                                                  *)
(***************************************************************************)

\* A limit is the number on screen, unless that was refused.
Agrees(limit, seen) == seen \notin Refused => limit = seen

\* As long as no listener has replaced a session it had not read: a plan that
\* looks as if it was not launched was not, and every limit read or requested
\* agrees with the number on screen when it was.
Calm ==
  /\ \A a, b \in DOMAIN builds : builds[a].serial = builds[b].serial => a = b
  /\ \A b \in DOMAIN builds : Agrees(builds[b].limit, builds[b].shown)
  /\ session.launch = 0 => \A b \in DOMAIN builds : builds[b].serial # session.serial
  /\ Agrees(session.limit, shown)
  /\ "launch" \in DOMAIN running =>
       Agrees(running["launch"].read.limit, running["launch"].shown)

CInv == TInv /\ (~overwrote => Calm)

LEMMA CalmStarts == Init => CInv
<1> SUFFICES ASSUME Init PROVE CInv
  OBVIOUS
<1>1. session = NewSession(0) /\ running = <<>> /\ shown = 0 /\ builds = <<>>
  BY DEF Init
<1>2. DOMAIN running = {} /\ DOMAIN builds = {} /\ session.limit = 0
  BY <1>1 DEF NewSession
<1> QED
  BY <1>1, <1>2, TypesStart DEF CInv, Calm, Agrees

\* A number no plan had yet, and zero, are in no request.
LEMMA SerialsInUse ==
  ASSUME TInv, NEW b \in DOMAIN builds
  PROVE  builds[b].serial # 0 /\ builds[b].serial # plans + 1
<1>1. builds[b] \in Build /\ builds[b].serial <= plans /\ plans \in Nat
  BY NumbersFacts DEF TInv, Around, Requests
<1>2. builds[b].serial \in Nat /\ builds[b].serial >= 1
  BY <1>1, NumbersFacts DEF Build
<1> QED
  BY <1>1, <1>2

LEMMA BeginIsCalm ==
  ASSUME Calm, NEW l, Begin(l)
  PROVE  Calm'
<1>1. UNCHANGED <<session, shown, builds>> /\ Agrees(session.limit, shown)
  BY DEF Begin, Calm
<1>2. running' = [k \in DOMAIN running \cup {l} |->
                    IF k # l THEN running[k]
                    ELSE [read |-> session, shown |-> IF l = "launch" THEN shown ELSE 0]]
  BY DEF Begin
<1>3. ASSUME "launch" \in DOMAIN running'
      PROVE  Agrees(running'["launch"].read.limit, running'["launch"].shown)
  <2>1. CASE l = "launch"
    <3>1. running'["launch"] = [read |-> session, shown |-> shown]
      BY <1>2, <2>1
    <3> QED
      BY <1>1, <3>1
  <2>2. CASE l # "launch"
    <3>1. "launch" \in DOMAIN running /\ running'["launch"] = running["launch"]
      BY <1>2, <1>3, <2>2
    <3> QED
      BY <3>1 DEF Calm
  <2> QED
    BY <2>1, <2>2
<1> QED
  BY <1>1, <1>3 DEF Calm

\* A listener that ends and overwrites nothing puts in place what follows from
\* the session that is there.
LEMMA EndOverwritesNot ==
  ASSUME overwrote \in BOOLEAN, NEW l, NEW s, End(l, s), ~overwrote'
  PROVE  /\ ~overwrote /\ session = running[l].read /\ session' = s /\ shown' = shown
         /\ DOMAIN running' \subseteq DOMAIN running
         /\ \A k \in DOMAIN running' : running'[k] = running[k]
BY DEF End

LEMMA EndIsCalm ==
  ASSUME overwrote \in BOOLEAN, Calm, NEW l, NEW s, End(l, s), ~overwrote', UNCHANGED builds,
         s.limit = session.limit,
         s.launch = 0 => \A b \in DOMAIN builds : builds[b].serial # s.serial
  PROVE  Calm'
<1>1. /\ session' = s /\ shown' = shown
      /\ DOMAIN running' \subseteq DOMAIN running
      /\ \A k \in DOMAIN running' : running'[k] = running[k]
  BY EndOverwritesNot
<1>2. ASSUME "launch" \in DOMAIN running'
      PROVE  Agrees(running'["launch"].read.limit, running'["launch"].shown)
  BY <1>1, <1>2 DEF Calm
<1> QED
  BY <1>1, <1>2 DEF Calm

LEMMA SlowAreCalm ==
  ASSUME CInv, ~overwrote', BeginPlan \/ EndPlan \/ BeginAdjust \/ EndAdjust \/ BeginLaunch
  PROVE  Calm'
<1>0. TInv /\ overwrote \in BOOLEAN /\ plans \in 0 .. MaxPlans /\ Whole(session, plans)
  BY DEF CInv, TInv, Around
<1>1. CASE BeginPlan \/ BeginAdjust \/ BeginLaunch
  <2>1. ~overwrote
    BY <1>1 DEF BeginPlan, BeginAdjust, BeginLaunch, Begin, observers
  <2> QED
    BY <1>1, <2>1, BeginIsCalm DEF CInv, BeginPlan, BeginAdjust, BeginLaunch
<1>2. \A b \in DOMAIN builds : builds[b].serial # 0 /\ builds[b].serial # plans + 1
  BY <1>0, SerialsInUse
<1>3. session.limit \in Limit \cup {0}
  BY <1>0 DEF Whole, Session
<1>4. ASSUME ~overwrote PROVE Calm
  BY <1>4 DEF CInv
<1>5. CASE EndPlan
  <2> DEFINE read == running["plan"].read
             with(plan) == [NewSession(read.limit) EXCEPT !.plan = plan, !.serial = plans + 1]
  <2>1. UNCHANGED builds
    BY <1>5 DEF EndPlan
  <2>2. CASE End("plan", read)
    <3>1. ~overwrote /\ session = read
      BY <1>0, <2>2, EndOverwritesNot
    <3>2. Calm /\ (read.launch = 0 => \A b \in DOMAIN builds : builds[b].serial # read.serial)
      BY <1>4, <3>1 DEF Calm
    <3> QED
      BY <1>0, <2>1, <2>2, <3>1, <3>2, EndIsCalm
  <2>3. CASE CountPlan /\ \E plan \in Plan : End("plan", with(plan))
    <3>1. PICK plan \in Plan : End("plan", with(plan))
      BY <2>3
    <3>2. ~overwrote /\ session = read
      BY <1>0, <3>1, EndOverwritesNot
    <3>3. plans + 1 \in 1 .. MaxPlans /\ plan \in Seq(ModuleSpec)
      BY <1>0, <2>3, CountPlanGrows, PlanAssumption
    <3> HIDE DEF read
    <3>4. read.limit \in Limit \cup {0} /\ read.limit = session.limit
      BY <1>3, <3>2
    <3>5. with(plan).limit = read.limit /\ with(plan).serial = plans + 1
      BY DEF NewSession
    <3> HIDE DEF with
    <3> QED
      BY <1>0, <1>2, <1>4, <2>1, <3>1, <3>2, <3>4, <3>5, EndIsCalm
  <2> QED
    BY <1>5, <2>2, <2>3 DEF EndPlan
<1>6. CASE EndAdjust
  <2> DEFINE read == running["adjust"].read
  <2>1. UNCHANGED builds /\ "adjust" \in DOMAIN running
    BY <1>6 DEF EndAdjust
  <2>2. read.plan # NoPlan
    BY <1>0, <2>1 DEF TInv, WholeClick
  <2>3. CASE End("adjust", read)
    <3>1. ~overwrote /\ session = read
      BY <1>0, <2>3, EndOverwritesNot
    <3>2. Calm /\ (read.launch = 0 => \A b \in DOMAIN builds : builds[b].serial # read.serial)
      BY <1>4, <3>1 DEF Calm
    <3> QED
      BY <1>0, <2>1, <2>3, <3>1, <3>2, EndIsCalm
  <2>4. CASE End("adjust", Confirmed(read))
    <3>1. ~overwrote /\ session = read
      BY <1>0, <2>4, EndOverwritesNot
    <3> HIDE DEF read
    <3>2. Calm /\ (read.launch = 0 => \A b \in DOMAIN builds : builds[b].serial # read.serial)
      BY <1>4, <3>1 DEF Calm
    <3>3. Confirmed(read).limit = read.limit /\ Confirmed(read).launch = read.launch
          /\ Confirmed(read).serial = read.serial
      BY <1>0, <3>1, ConfirmedIsWhole
    <3> QED
      BY <1>0, <2>1, <2>4, <3>1, <3>2, <3>3, EndIsCalm
  <2>5. CASE End("adjust", NewSession(read.limit))
    <3>1. ~overwrote /\ session = read
      BY <1>0, <2>5, EndOverwritesNot
    <3> HIDE DEF read
    <3>2. NewSession(read.limit).limit = session.limit /\ NewSession(read.limit).serial = 0
      BY <1>0, <1>3, <3>1, NewIsWhole
    <3> QED
      BY <1>0, <1>2, <1>4, <2>1, <2>5, <3>1, <3>2, EndIsCalm
  <2>6. CASE CountPlan /\ \E plan \in AdjustmentsOf(read.plan) : End("adjust", WithPlan(read, plan))
    <3>1. PICK plan \in AdjustmentsOf(read.plan) : End("adjust", WithPlan(read, plan))
      BY <2>6
    <3>2. ~overwrote /\ session = read
      BY <1>0, <3>1, EndOverwritesNot
    <3> HIDE DEF read
    <3>3. read.plan \in Seq(ModuleSpec)
      BY <1>0, <2>2, <3>2 DEF Whole, Session
    <3>4. plans + 1 \in 1 .. MaxPlans /\ plan \in Seq(ModuleSpec)
      BY <1>0, <2>6, <3>1, <3>3, CountPlanGrows, AskedPlansAreTyped
    <3>5. WithPlan(read, plan).limit = session.limit /\ WithPlan(read, plan).serial = plans + 1
      <4>1. plans \in Nat
        BY <1>0, NumbersFacts
      <4> QED
        BY <1>0, <2>2, <3>2, <3>4, <4>1, WithPlanIsWhole
    <3> QED
      BY <1>0, <1>2, <1>4, <2>1, <3>1, <3>2, <3>5, EndIsCalm
  <2> QED
    BY <1>6, <2>3, <2>4, <2>5, <2>6 DEF EndAdjust
<1> QED
  BY <1>1, <1>5, <1>6

LEMMA LaunchIsCalm ==
  ASSUME CInv, ~overwrote', EndLaunch
  PROVE  Calm'
<1> DEFINE click == running["launch"]
           read == click.read
           new == [read EXCEPT !.launch = Len(builds) + 1]
<1>0. TInv /\ overwrote \in BOOLEAN /\ plans \in 0 .. MaxPlans /\ Requests
  BY DEF CInv, TInv, Around
<1>1. "launch" \in DOMAIN running /\ WholeClick("launch", click)
  BY <1>0 DEF EndLaunch, TInv
<1>2. ASSUME ~overwrote PROVE Calm
  BY <1>2 DEF CInv
<1>3. CASE End("launch", read) /\ UNCHANGED builds
  <2>1. ~overwrote /\ session = read
    BY <1>0, <1>3, EndOverwritesNot
  <2>2. Calm /\ (read.launch = 0 => \A b \in DOMAIN builds : builds[b].serial # read.serial)
    BY <1>2, <2>1 DEF Calm
  <2> QED
    BY <1>0, <1>3, <2>1, <2>2, EndIsCalm
<1>4. CASE ServiceBuild(click) /\ End("launch", new)
  <2>1. ~overwrote /\ session = read /\ session' = new /\ shown' = shown /\ Calm
    BY <1>0, <1>2, <1>4, EndOverwritesNot
  <2>2. "launch" \notin DOMAIN running'
    BY <1>4 DEF End
  <2>3. read.launch = 0 /\ read \in Session /\ Agrees(click.read.limit, click.shown)
    BY <1>1, <2>1 DEF WholeClick, Whole, Calm
  <2> HIDE DEF click
  <2>4. /\ Len(builds) \in Nat
        /\ \A b \in DOMAIN builds : b \in DOMAIN builds' /\ builds'[b] = builds[b]
        /\ \A b \in DOMAIN builds' : b \in DOMAIN builds \/ b = Len(builds) + 1
        /\ builds'[Len(builds) + 1] = RequestOf(click)
    BY <1>0, <1>1, <1>4, BuildsAppend
  <2>5. /\ RequestOf(click).serial = session.serial
        /\ Agrees(RequestOf(click).limit, RequestOf(click).shown)
    BY <2>1, <2>3 DEF RequestOf
  <2>6. new.launch # 0 /\ new.limit = session.limit
    BY <2>1, <2>3, <2>4 DEF Session
  <2>7. \A b \in DOMAIN builds : builds[b].serial # session.serial
    BY <2>1, <2>3 DEF Calm
  <2> HIDE DEF new, read
  <2>8. ASSUME NEW a \in DOMAIN builds', NEW b \in DOMAIN builds',
               builds'[a].serial = builds'[b].serial
        PROVE  a = b
    <3>1. CASE a \in DOMAIN builds /\ b \in DOMAIN builds
      BY <2>1, <2>4, <2>8, <3>1 DEF Calm
    <3>2. CASE a \in DOMAIN builds /\ b = Len(builds) + 1
      BY <2>4, <2>5, <2>7, <2>8, <3>2
    <3>3. CASE a = Len(builds) + 1 /\ b \in DOMAIN builds
      BY <2>4, <2>5, <2>7, <2>8, <3>3
    <3> QED
      BY <2>4, <3>1, <3>2, <3>3
  <2>9. ASSUME NEW b \in DOMAIN builds' PROVE Agrees(builds'[b].limit, builds'[b].shown)
    <3>1. CASE b \in DOMAIN builds
      BY <2>1, <2>4, <3>1 DEF Calm
    <3>2. CASE b = Len(builds) + 1
      BY <2>4, <2>5, <3>2
    <3> QED
      BY <2>4, <3>1, <3>2
  <2>10. Agrees(session.limit, shown)
    BY <2>1 DEF Calm
  <2> QED
    BY <2>1, <2>2, <2>6, <2>8, <2>9, <2>10 DEF Calm
<1> QED
  BY <1>3, <1>4 DEF EndLaunch

LEMMA QuickAreCalm ==
  ASSUME CInv, ~overwrote', Edit \/ Undo \/ Confirm \/ Cancel \/ SetOptions
  PROVE  Calm'
<1>1. UNCHANGED <<running, builds>> /\ Calm
  BY DEF CInv, Edit, Undo, Confirm, Cancel, SetOptions, observers
<1>2. TInv /\ plans \in 0 .. MaxPlans /\ plans \in Nat /\ Whole(session, plans)
      /\ session \in Session /\ session.limit \in Limit \cup {0}
      /\ Agrees(session.limit, shown)
  BY <1>1, NumbersFacts DEF CInv, TInv, Around, Whole, Session, Calm
<1>3. \A b \in DOMAIN builds : builds[b].serial # 0 /\ builds[b].serial # plans + 1
  BY <1>2, SerialsInUse
<1>4. ASSUME Agrees(session'.limit, shown'),
             session'.launch = 0 => \A b \in DOMAIN builds : builds[b].serial # session'.serial
      PROVE  Calm'
  BY <1>1, <1>4 DEF Calm
<1>5. CASE Edit
  <2>1. PICK plan \in EditsOf(session.plan) : session' = WithPlan(session, plan)
    BY <1>5 DEF Edit
  <2>2. CountPlan /\ session.plan # NoPlan /\ shown' = shown
    BY <1>5 DEF Edit
  <2>3. session.plan \in Seq(ModuleSpec)
    BY <1>2, <2>2 DEF Session
  <2>4. plan \in Seq(ModuleSpec) /\ plans + 1 \in 1 .. MaxPlans
    BY <1>2, <2>1, <2>2, <2>3, AskedPlansAreTyped, CountPlanGrows
  <2>5. session'.limit = session.limit /\ session'.serial = plans + 1
    BY <1>2, <2>1, <2>2, <2>4, WithPlanIsWhole
  <2> QED
    BY <1>2, <1>3, <1>4, <2>2, <2>5
<1>6. CASE Undo
  <2>1. session'.limit = session.limit /\ session'.serial = plans + 1 /\ shown' = shown
    BY <1>2, <1>6 DEF Undo, Session
  <2> QED
    BY <1>2, <1>3, <1>4, <2>1
<1>7. CASE Confirm
  <2>1. session' = Confirmed(session) /\ shown' = shown
    BY <1>7 DEF Confirm
  <2>2. session'.limit = session.limit /\ session'.launch = session.launch
        /\ session'.serial = session.serial
    BY <1>2, <2>1, ConfirmedIsWhole
  <2> QED
    BY <1>1, <1>2, <1>4, <2>1, <2>2 DEF Calm
<1>8. CASE Cancel
  <2>1. session' = NewSession(session.limit) /\ shown' = shown
    BY <1>8 DEF Cancel
  <2>2. session'.limit = session.limit /\ session'.serial = 0
    BY <1>2, <2>1, NewIsWhole
  <2> QED
    BY <1>2, <1>3, <1>4, <2>1, <2>2
<1>9. CASE SetOptions
  <2>1. session' = IF shown' \in Refused THEN session ELSE [session EXCEPT !.limit = shown']
    BY <1>9 DEF SetOptions
  <2>2. Agrees(session'.limit, shown') /\ session'.launch = session.launch
        /\ session'.serial = session.serial
    BY <1>2, <2>1 DEF Session, Agrees
  <2> QED
    BY <1>1, <1>4, <2>2 DEF Calm
<1> QED
  BY <1>5, <1>6, <1>7, <1>8, <1>9

LEMMA CalmStays == CInv /\ [Next]_vars => CInv'
<1> SUFFICES ASSUME CInv, [Next]_vars PROVE CInv'
  OBVIOUS
<1>1. TInv'
  BY TypesStay DEF CInv
<1>2. CASE Next
  <2> SUFFICES ASSUME ~overwrote' PROVE Calm'
    BY <1>1 DEF CInv
  <2> QED
    BY <1>2, SlowAreCalm, LaunchIsCalm, QuickAreCalm DEF Next
<1>3. CASE UNCHANGED vars
  BY <1>1, <1>3 DEF vars, observers, CInv, Calm
<1> QED
  BY <1>2, <1>3

\* A plan built twice, or a build of another size than the widget says, takes
\* two listeners of which the later one writes back a session it read before
\* the other ended: nothing else surprises, however the listeners overlap.
THEOREM OnlyLostUpdatesSurpriseHolds == Spec => []OnlyLostUpdatesSurprise
<1>1. CInv => OnlyLostUpdatesSurprise
  <2> SUFFICES ASSUME CInv, ~overwrote
               PROVE  /\ \A a, b \in DOMAIN builds : builds[a].serial = builds[b].serial => a = b
                      /\ \A b \in DOMAIN builds : builds[b].shown \notin Refused =>
                           BuildRun(builds[b].plan, builds[b].limit).ran =
                             Building(builds[b].plan, builds[b].shown)
    BY DEF OnlyLostUpdatesSurprise
  <2>1. Calm /\ Requests
    BY DEF CInv, TInv
  <2>2. ASSUME NEW b \in DOMAIN builds, builds[b].shown \notin Refused
        PROVE  BuildRun(builds[b].plan, builds[b].limit).ran =
                 Building(builds[b].plan, builds[b].shown)
    <3>1. builds[b].limit = builds[b].shown
      BY <2>1, <2>2 DEF Calm, Agrees
    <3>2. BuildRun(builds[b].plan, builds[b].limit).ran =
            Building(builds[b].plan, builds[b].limit)
      BY <2>1, RequestsAgree
    <3> QED
      BY <3>1, <3>2
  <2> QED
    BY <2>1, <2>2 DEF Calm
<1>2. Spec => []CInv
  BY CalmStarts, CalmStays, PTL DEF Spec
<1> QED
  BY <1>1, <1>2, PTL

=============================================================================

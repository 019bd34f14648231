--------------------------- MODULE CourseRunProofs ---------------------------
(***************************************************************************)
(* Proofs about CourseRun for any confirmed course, any answers of the     *)
(* remediation planner and any command line.                               *)
(***************************************************************************)
EXTENDS CourseRun, FiniteSetTheorems, TLAPS

Share == Selected(Base, options.modules)

\* Modules are where their order says, and the base course comes first.
Placing ==
  /\ \A p \in DOMAIN course : course[p].order = p - 1
  /\ Len(Base) <= Len(course)
  /\ phase = "base" => course = Base

\* The loop over the base course runs its share of it in order.
BaseLoop ==
  phase = "base" =>
    /\ Len(results) + Len(todo) = Len(Share)
    /\ \A k \in DOMAIN todo : todo[k] = Base[Len(results) + k]

\* After it, every module that was added was run; and modules are added only
\* when all of the base course was, and while there are rounds.
Counted == phase # "base" => Len(results) = Len(Share) + Len(course) - Len(Base)
RemedyAfterWhole == phase = "remedy" => Share = Base /\ round < options.depth

\* The k-th result is that of the k-th module.
Recorded ==
  \A i \in DOMAIN results :
    /\ i <= Len(course)
    /\ results[i].module = i - 1
    /\ results[i].known = UNION {course[j].objectives : j \in 1 .. i - 1}

Counts ==
  TypeOK /\ Placing /\ BaseLoop /\ Counted /\ RemedyAfterWhole /\ Recorded /\ WithinBudget

-----------------------------------------------------------------------------
\* A share of a course is a prefix, no longer than the budget.
LEMMA SelectedIsPrefix ==
  ASSUME NEW max \in Int \cup {All}
  PROVE  /\ Selected(Base, max) \in Seq(Module)
         /\ Len(Selected(Base, max)) <= Len(Base)
         /\ \A k \in 1 .. Len(Selected(Base, max)) : Selected(Base, max)[k] = Base[k]
         /\ max \in Nat => Len(Selected(Base, max)) <= max
         /\ max = All => Selected(Base, max) = Base
         /\ max # All /\ Len(Selected(Base, max)) < max => Selected(Base, max) = Base
<1>1. Base \in Seq(Module) /\ Len(Base) \in Nat
  BY BaseAssumption
<1>2. CASE max = All
  <2>1. Selected(Base, max) = Base
    BY <1>2 DEF Selected
  <2> QED
    BY <1>1, <1>2, <2>1, OptionsAssumption
<1>3. CASE max # All /\ max >= Len(Base)
  <2>1. max \in Int /\ Selected(Base, max) = Base
    BY <1>3 DEF Selected
  <2> QED
    BY <1>1, <1>3, <2>1
<1>4. CASE max # All /\ ~(max >= Len(Base)) /\ max >= 0
  <2>1. max \in Nat /\ max < Len(Base) /\ Selected(Base, max) = SubSeq(Base, 1, max)
    BY <1>1, <1>4 DEF Selected
  <2>2. SubSeq(Base, 1, max) \in Seq(Module) /\ Len(SubSeq(Base, 1, max)) = max
    BY <1>1, <2>1
  <2>3. \A k \in 1 .. max : SubSeq(Base, 1, max)[k] = Base[k]
    BY <1>1, <2>1
  <2> QED
    BY <1>4, <2>1, <2>2, <2>3
<1>5. CASE max # All /\ ~(max >= Len(Base)) /\ ~(max >= 0)
  <2> DEFINE n == Len(Base) + max
  <2>1. max \in Int /\ max < 0 /\ n \in Int /\ n < Len(Base)
        /\ Selected(Base, max) = SubSeq(Base, 1, n)
    BY <1>1, <1>5 DEF Selected
  <2>2. CASE n < 1
    <3>1. SubSeq(Base, 1, n) = <<>>
      BY <1>1, <2>1, <2>2
    <3> QED
      BY <1>1, <1>5, <2>1, <3>1
  <2>3. CASE n >= 1
    <3>1. SubSeq(Base, 1, n) \in Seq(Module) /\ Len(SubSeq(Base, 1, n)) = n
      BY <1>1, <2>1, <2>3
    <3>2. \A k \in 1 .. n : SubSeq(Base, 1, n)[k] = Base[k]
      BY <1>1, <2>1, <2>3
    <3> QED
      BY <1>1, <1>5, <2>1, <2>3, <3>1, <3>2
  <2> QED
    BY <2>1, <2>2, <2>3
<1> QED
  BY <1>2, <1>3, <1>4, <1>5

\* The signals a module may have are signals.
LEMMA SignalsGrow ==
  ASSUME NEW S \in SUBSET Objective, NEW s \in Signals(S)
  PROVE  s \in Signals(Objective)
BY DEF Signals, BoundedSeq, SeqOf

\* A module that was run adds one result, and takes itself off the list.
LEMMA RunAdds ==
  ASSUME TypeOK, NEW m \in Module, RunModule(m)
  PROVE  /\ results' \in Seq(Result)
         /\ Len(results') = Len(results) + 1
         /\ \A i \in DOMAIN results : results'[i] = results[i]
         /\ results'[Len(results) + 1].module = m.order
         /\ results'[Len(results) + 1].known = KnownBefore(m)
<1>1. results \in Seq(Result) /\ course \in Seq(Module)
  BY DEF TypeOK
<1>2. PICK s \in Signals(m.objectives), ok \in BOOLEAN :
        results' = Append(results, [module |-> m.order, known |-> KnownBefore(m),
                                    signals |-> s, ok |-> ok])
  BY DEF RunModule
<1>3. m.order \in Nat /\ m.objectives \in SUBSET Objective
  BY DEF Module
<1>4. \A n \in ToSet(course) : n \in Module
  BY <1>1 DEF ToSet
<1>5. KnownBefore(m) \in SUBSET Objective
  BY <1>4 DEF KnownBefore, ObjectivesOf, Module
<1>6. s \in Signals(Objective)
  BY <1>3, SignalsGrow
<1> DEFINE r == [module |-> m.order, known |-> KnownBefore(m), signals |-> s, ok |-> ok]
<1>7. r \in Result
  BY <1>3, <1>5, <1>6 DEF Result
<1>8. r.module = m.order /\ r.known = KnownBefore(m)
  OBVIOUS
<1> HIDE DEF r
<1>9. results' = Append(results, r)
  BY <1>2 DEF r
<1> QED
  BY <1>1, <1>7, <1>8, <1>9

\* What comes before the k-th module are the k - 1 first ones.
LEMMA KnownIsBefore ==
  ASSUME course \in Seq(Module), \A p \in DOMAIN course : course[p].order = p - 1,
         NEW m \in Module, NEW k \in 1 .. Len(course) + 1, m.order = k - 1
  PROVE  KnownBefore(m) = UNION {course[j].objectives : j \in 1 .. k - 1}
<1> DEFINE before == {n \in ToSet(course) : n.order < m.order}
<1>1. ASSUME NEW n \in before PROVE \E j \in 1 .. k - 1 : n = course[j]
  <2> PICK j \in DOMAIN course : n = course[j]
    BY <1>1 DEF ToSet
  <2>1. j - 1 < k - 1 /\ j \in 1 .. Len(course)
    BY <1>1
  <2> QED
    BY <2>1
<1>2. ASSUME NEW j \in 1 .. k - 1 PROVE course[j] \in before
  <2>1. j \in DOMAIN course /\ j - 1 < k - 1
    OBVIOUS
  <2> QED
    BY <2>1 DEF ToSet
<1> HIDE DEF before
<1>3. UNION {n.objectives : n \in before} = UNION {course[j].objectives : j \in 1 .. k - 1}
  <2>1. ASSUME NEW o, o \in UNION {n.objectives : n \in before}
        PROVE  o \in UNION {course[j].objectives : j \in 1 .. k - 1}
    BY <1>1, <2>1
  <2>2. ASSUME NEW o, o \in UNION {course[j].objectives : j \in 1 .. k - 1}
        PROVE  o \in UNION {n.objectives : n \in before}
    BY <1>2, <2>2
  <2> QED
    BY <2>1, <2>2
<1>4. KnownBefore(m) = UNION {n.objectives : n \in before}
  BY Zenon DEF KnownBefore, ObjectivesOf, before
<1> QED
  BY <1>3, <1>4

\* A module placed in a round is a module, and it is the next one.
LEMMA PlacedIsNext ==
  ASSUME TypeOK, Recorded, NEW t \in Topic
  PROVE  Placed(t) \in Module /\ Placed(t).order = Len(course)
<1>1. /\ course \in Seq(Module) /\ results \in Seq(Result) /\ pending \subseteq DOMAIN results
      /\ t.title \in Title /\ t.objectives \in SUBSET Objective
  BY DEF TypeOK, Topic
<1>2. \A i \in pending : results[i] \in Result
  BY <1>1
<1>3. ASSUME NEW i \in pending PROVE course[results[i].module + 1].title \in Title
  <2>1. i \in 1 .. Len(results) /\ i <= Len(course) /\ results[i].module = i - 1
    BY <1>1 DEF Recorded
  <2>2. results[i].module + 1 = i /\ i \in 1 .. Len(course)
    BY <1>1, <2>1
  <2>3. course[i] \in Module
    BY <1>1, <2>2
  <2> QED
    BY <2>2, <2>3 DEF Module
<1>4. DroppingTitles(pending) \in SUBSET Title
  BY <1>3 DEF DroppingTitles, Dropping
<1>5. \A i \in pending : Missing(results[i]) \in SUBSET Objective
  <2> SUFFICES ASSUME NEW i \in pending PROVE Missing(results[i]) \in SUBSET Objective
    OBVIOUS
  <2>1. results[i].signals \in Signals(Objective)
    BY <1>2 DEF Result
  <2>2. \A j \in DOMAIN results[i].signals : results[i].signals[j] \in SUBSET Objective
    BY <2>1 DEF Signals, BoundedSeq, SeqOf
  <2> QED
    BY <2>2 DEF Missing, ToSet
<1>6. Dropped(pending) \in SUBSET Objective
  BY <1>5 DEF Dropped
<1>7. Len(course) \in Nat
  BY <1>1
<1> QED
  BY <1>1, <1>4, <1>6, <1>7 DEF Placed, Module

-----------------------------------------------------------------------------
\* What holds at the start.
LEMMA CountsStart == Init => Counts
<1> SUFFICES ASSUME Init PROVE Counts
  OBVIOUS
<1>1. /\ options \in Options /\ options.modules \in Int \cup {All} /\ options.depth \in Nat
      /\ phase = "base" /\ course = Base /\ todo = Share /\ results = <<>> /\ pending = {}
      /\ round = 0 /\ handed = [r \in 1 .. options.depth |-> {}]
  BY OptionsAssumption DEF Init, Share
<1>2. /\ Base \in Seq(Module)
      /\ Share \in Seq(Module)
      /\ Len(Share) <= Len(Base)
      /\ \A k \in 1 .. Len(Share) : Share[k] = Base[k]
      /\ \A p \in DOMAIN Base : Base[p].order = p - 1
  BY <1>1, SelectedIsPrefix, BaseAssumption DEF Share
<1>3. TypeOK
  BY <1>1, <1>2 DEF TypeOK
<1>4. BaseLoop
  <2>1. DOMAIN Share = 1 .. Len(Share) /\ Len(Share) \in Nat
    BY <1>2
  <2>2. Len(results) = 0
    BY <1>1
  <2>3. ASSUME NEW k \in DOMAIN todo PROVE todo[k] = Base[Len(results) + k]
    <3>1. k \in Int /\ 0 + k = k /\ Share[k] = Base[k]
      BY <1>1, <1>2, <2>1
    <3> QED
      BY <1>1, <2>2, <3>1
  <2> QED
    BY <1>1, <2>1, <2>2, <2>3 DEF BaseLoop
<1> QED
  BY <1>1, <1>2, <1>3, <1>4
     DEF Counts, Placing, Counted, RemedyAfterWhole, Recorded, WithinBudget

\* A result that is added is within the types.
LEMMA TypesGrow ==
  ASSUME TypeOK, results' \in Seq(Result), Len(results') = Len(results) + 1,
         UNCHANGED <<options, phase, pending, round, handed>>,
         course' \in Seq(Module), todo' \in IF phase = "remedy" THEN Seq(Topic) ELSE Seq(Module)
  PROVE  TypeOK'
<1>1. DOMAIN results \subseteq DOMAIN results'
  BY DEF TypeOK
<1>2. SUBSET DOMAIN results \subseteq SUBSET DOMAIN results'
  BY <1>1
<1>3. handed' \in [1 .. options'.depth -> SUBSET DOMAIN results']
  BY <1>2 DEF TypeOK
<1> QED
  BY <1>1, <1>3 DEF TypeOK

\* Running a module of the base course.
LEMMA RunBaseCounts ==
  ASSUME Counts, RunBase
  PROVE  Counts'
<1>1. /\ TypeOK /\ Placing /\ BaseLoop /\ Recorded
      /\ phase = "base" /\ phase' = "base" /\ course' = course /\ course = Base
      /\ UNCHANGED <<options, pending, round, handed>>
      /\ todo \in Seq(Module) /\ todo # <<>> /\ todo' = Tail(todo)
      /\ results \in Seq(Result) /\ course \in Seq(Module)
      /\ options.modules \in Int \cup {All}
  BY OptionsAssumption DEF Counts, RunBase, RunModule, TypeOK, Placing
<1> DEFINE m == Head(todo)
<1>2. m \in Module /\ m = todo[1] /\ Tail(todo) \in Seq(Module)
      /\ Len(Tail(todo)) = Len(todo) - 1
      /\ \A k \in DOMAIN Tail(todo) : Tail(todo)[k] = todo[k + 1]
  BY <1>1
<1>3. /\ results' \in Seq(Result)
      /\ Len(results') = Len(results) + 1
      /\ \A i \in DOMAIN results : results'[i] = results[i]
      /\ results'[Len(results) + 1].module = m.order
      /\ results'[Len(results) + 1].known = KnownBefore(m)
  BY <1>1, <1>2, RunAdds DEF RunBase
<1>4. /\ Share' = Share
      /\ Len(Share) \in Nat /\ Len(Share) <= Len(Base)
      /\ options.modules \in Nat => Len(Share) <= options.modules
  <2>1. Share' = Share
    BY <1>1 DEF Share
  <2>2. /\ Share \in Seq(Module) /\ Len(Share) <= Len(Base)
        /\ options.modules \in Nat => Len(Share) <= options.modules
    BY <1>1, SelectedIsPrefix DEF Share
  <2> QED
    BY <2>1, <2>2
<1> HIDE DEF m
<1>0. /\ Len(results) \in Nat /\ Len(todo) \in Nat /\ Len(todo) >= 1
      /\ DOMAIN results = 1 .. Len(results) /\ DOMAIN todo = 1 .. Len(todo)
      /\ DOMAIN Base = 1 .. Len(Base) /\ Len(Base) \in Nat
      /\ Len(results) + Len(todo) = Len(Share)
  BY <1>1, BaseAssumption DEF BaseLoop
<1>5. Len(results) + 1 <= Len(Share) /\ Len(results) + 1 \in DOMAIN Base
  BY <1>0, <1>4
<1>6. m = Base[Len(results) + 1] /\ m.order = Len(results)
  <2>1. todo[1] = Base[Len(results) + 1]
    BY <1>0, <1>1 DEF BaseLoop
  <2>2. Base[Len(results) + 1].order = (Len(results) + 1) - 1
    BY <1>5, BaseAssumption
  <2> QED
    BY <1>0, <1>2, <2>1, <2>2
<1>7. KnownBefore(m) = UNION {course[j].objectives : j \in 1 .. Len(results)}
  <2>1. /\ Len(results) + 1 \in 1 .. Len(course) + 1
        /\ m.order = (Len(results) + 1) - 1
        /\ \A p \in DOMAIN course : course[p].order = p - 1
    BY <1>1, <1>5, <1>6 DEF Placing
  <2>2. KnownBefore(m) = UNION {course[j].objectives : j \in 1 .. (Len(results) + 1) - 1}
    BY <1>1, <1>2, <2>1, KnownIsBefore
  <2> QED
    BY <1>1, <2>2
<1>8. TypeOK'
  BY <1>1, <1>2, <1>3, TypesGrow
<1>9. BaseLoop'
  <2>1. Len(results') + Len(todo') = Len(Share')
    BY <1>0, <1>1, <1>2, <1>3, <1>4
  <2>2. ASSUME NEW k \in DOMAIN todo' PROVE todo'[k] = Base[Len(results') + k]
    <3>1. k \in Nat /\ k + 1 \in DOMAIN todo /\ todo'[k] = todo[k + 1]
      BY <1>0, <1>1, <1>2
    <3>2. todo[k + 1] = Base[Len(results) + (k + 1)]
      BY <1>1, <3>1 DEF BaseLoop
    <3>3. Len(results) + (k + 1) = Len(results') + k
      BY <1>0, <1>3, <3>1
    <3> QED
      BY <3>1, <3>2, <3>3
  <2> QED
    BY <2>1, <2>2 DEF BaseLoop
<1>10. Recorded'
  <2> SUFFICES ASSUME NEW i \in 1 .. Len(results) + 1
               PROVE  /\ i <= Len(course)
                      /\ results'[i].module = i - 1
                      /\ results'[i].known = UNION {course[j].objectives : j \in 1 .. i - 1}
    <3>1. DOMAIN results' = 1 .. Len(results) + 1 /\ course' = course
      BY <1>1, <1>3
    <3> QED
      BY <3>1 DEF Recorded
  <2>1. CASE i \in 1 .. Len(results)
    <3>1. i \in DOMAIN results /\ results'[i] = results[i]
      BY <1>0, <1>3, <2>1
    <3> QED
      BY <1>1, <3>1 DEF Recorded
  <2>2. CASE i = Len(results) + 1
    BY <1>1, <1>3, <1>5, <1>6, <1>7, <2>2
  <2> QED
    BY <1>1, <2>1, <2>2
<1> QED
  BY <1>1, <1>3, <1>4, <1>5, <1>8, <1>9, <1>10
     DEF Counts, Placing, Counted, RemedyAfterWhole, WithinBudget

\* Running a module of a round.
LEMMA RunRemedyCounts ==
  ASSUME Counts, RunRemedy
  PROVE  Counts'
<1>1. /\ TypeOK /\ Placing /\ Counted /\ RemedyAfterWhole /\ Recorded
      /\ phase = "remedy" /\ phase' = "remedy"
      /\ UNCHANGED <<options, pending, round, handed>>
      /\ todo \in Seq(Topic) /\ todo # <<>> /\ todo' = Tail(todo)
      /\ results \in Seq(Result) /\ course \in Seq(Module)
      /\ options.modules \in Int \cup {All}
  BY OptionsAssumption DEF Counts, RunRemedy, RunModule, TypeOK
<1> DEFINE m == Placed(Head(todo))
<1>2. Head(todo) \in Topic /\ Tail(todo) \in Seq(Topic)
  BY <1>1
<1>3. m \in Module /\ m.order = Len(course) /\ course' = Append(course, m)
  BY <1>1, <1>2, PlacedIsNext DEF RunRemedy
<1>4. RunModule(m)
  BY DEF RunRemedy
<1> HIDE DEF m
<1>5. /\ results' \in Seq(Result)
      /\ Len(results') = Len(results) + 1
      /\ \A i \in DOMAIN results : results'[i] = results[i]
      /\ results'[Len(results) + 1].module = m.order
      /\ results'[Len(results) + 1].known = KnownBefore(m)
  BY <1>1, <1>3, <1>4, RunAdds
<1>6. /\ course' \in Seq(Module) /\ Len(course') = Len(course) + 1
      /\ \A p \in DOMAIN course : course'[p] = course[p]
      /\ course'[Len(course) + 1] = m
  BY <1>1, <1>3
<1>7. Share' = Share /\ Len(results) = Len(course) /\ Base \in Seq(Module) /\ Len(Share) \in Nat
  BY <1>1, BaseAssumption DEF Counted, RemedyAfterWhole, Share
<1>8. KnownBefore(m) = UNION {course[j].objectives : j \in 1 .. Len(course)}
  <2>1. /\ Len(course) + 1 \in 1 .. Len(course) + 1
        /\ m.order = (Len(course) + 1) - 1
        /\ \A p \in DOMAIN course : course[p].order = p - 1
    BY <1>1, <1>3 DEF Placing
  <2>2. KnownBefore(m) = UNION {course[j].objectives : j \in 1 .. (Len(course) + 1) - 1}
    BY <1>1, <1>3, <2>1, KnownIsBefore
  <2> QED
    BY <1>1, <2>2
<1>9. TypeOK'
  BY <1>1, <1>2, <1>5, <1>6, TypesGrow
<1>10. Placing'
  BY <1>1, <1>3, <1>6, <1>7 DEF Placing
<1>11. Recorded'
  <2> SUFFICES ASSUME NEW i \in 1 .. Len(results) + 1
               PROVE  /\ i <= Len(course')
                      /\ results'[i].module = i - 1
                      /\ results'[i].known = UNION {course'[j].objectives : j \in 1 .. i - 1}
    <3>1. DOMAIN results' = 1 .. Len(results) + 1
      BY <1>5
    <3> QED
      BY <3>1 DEF Recorded
  <2>0. /\ Len(results) \in Nat /\ DOMAIN results = 1 .. Len(results)
        /\ DOMAIN course = 1 .. Len(course) /\ Len(course) \in Nat
    BY <1>1
  <2>1. \A j \in 1 .. i - 1 : course'[j] = course[j]
    <3> SUFFICES ASSUME NEW j \in 1 .. i - 1 PROVE course'[j] = course[j]
      OBVIOUS
    <3>1. j \in DOMAIN course
      BY <1>7, <2>0
    <3> QED
      BY <1>6, <3>1
  <2>2. {course'[j].objectives : j \in 1 .. i - 1} = {course[j].objectives : j \in 1 .. i - 1}
    BY <2>1
  <2>3. CASE i \in 1 .. Len(results)
    <3>1. i \in DOMAIN results /\ results'[i] = results[i]
      BY <1>5, <2>0, <2>3
    <3>2. i <= Len(course')
      BY <1>6, <1>7, <2>0, <2>3
    <3>3. results[i].module = i - 1
          /\ results[i].known = UNION {course[j].objectives : j \in 1 .. i - 1}
      BY <1>1, <3>1 DEF Recorded
    <3> QED
      BY <2>2, <3>1, <3>2, <3>3
  <2>4. CASE i = Len(results) + 1
    BY <1>1, <1>3, <1>5, <1>6, <1>7, <1>8, <2>2, <2>4
  <2> QED
    BY <1>1, <2>3, <2>4
<1>12. WithinBudget'
  <2>1. ~BudgetExhausted(results)
    BY DEF RunRemedy
  <2> QED
    BY <1>1, <1>5, <2>1, OptionsAssumption DEF WithinBudget, BudgetExhausted
<1> QED
  BY <1>1, <1>5, <1>6, <1>7, <1>9, <1>10, <1>11, <1>12
     DEF Counts, BaseLoop, Counted, RemedyAfterWhole

\* The steps between the runs.
LEMMA OthersCount ==
  ASSUME Counts, FinishBase \/ PlanRound \/ StopRounds \/ EndRound \/ Assemble
  PROVE  Counts'
<1>1. /\ TypeOK /\ Placing /\ BaseLoop /\ Counted /\ RemedyAfterWhole /\ Recorded /\ WithinBudget
      /\ UNCHANGED <<options, course, results>>
      /\ results \in Seq(Result) /\ course \in Seq(Module) /\ Base \in Seq(Module)
      /\ options.modules \in Int \cup {All}
      /\ options \in Options /\ options.depth \in Nat
  BY OptionsAssumption, BaseAssumption
     DEF Counts, FinishBase, PlanRound, StopRounds, EndRound, Assemble, TypeOK
<1>2. Share' = Share /\ Share \in Seq(Module)
  BY <1>1, SelectedIsPrefix DEF Share
<1>3. Recorded' /\ WithinBudget'
  BY <1>1 DEF Recorded, WithinBudget
<1>4. phase' # "base"
  BY DEF FinishBase, PlanRound, StopRounds, EndRound, Assemble
<1>5. Placing' /\ BaseLoop'
  BY <1>1, <1>4 DEF Placing, BaseLoop
<1>6. CASE FinishBase
  <2>1. phase = "base" /\ phase' = "rounds" /\ todo = <<>> /\ todo' = <<>>
        /\ pending' = DOMAIN results /\ UNCHANGED <<round, handed>>
    BY <1>6 DEF FinishBase
  <2>2. TypeOK'
    BY <1>1, <2>1 DEF TypeOK
  <2>3. Len(results) = Len(Share) /\ course = Base
    BY <1>1, <1>2, <2>1 DEF BaseLoop, Placing
  <2> QED
    BY <1>1, <1>2, <1>3, <1>5, <2>1, <2>2, <2>3 DEF Counts, Counted, RemedyAfterWhole
<1>7. CASE PlanRound
  <2>1. /\ phase = "rounds" /\ phase' = "remedy" /\ todo' \in Seq(Topic)
        /\ UNCHANGED <<pending, round>>
        /\ handed' = [handed EXCEPT ![round + 1] = Dropping(pending)]
        /\ round < options.depth /\ ~BudgetExhausted(results)
    BY <1>7, AnswerAssumption DEF PlanRound, Continues
  <2>2. Dropping(pending) \in SUBSET DOMAIN results
    BY <1>1 DEF Dropping, TypeOK
  <2>3. TypeOK'
    BY <1>1, <2>1, <2>2 DEF TypeOK
  <2>4. options.modules # All => Len(Share) < options.modules
    BY <1>1, <1>2, <2>1, OptionsAssumption DEF BudgetExhausted, Counted, Placing
  <2>5. Share = Base
    BY <1>1, <2>4, SelectedIsPrefix DEF Share
  <2> QED
    BY <1>1, <1>2, <1>3, <1>5, <2>1, <2>3, <2>5 DEF Counts, Counted, RemedyAfterWhole
<1>8. CASE StopRounds \/ Assemble
  <2>1. /\ phase # "base" /\ phase # "remedy" /\ phase' \in {"assemble", "done"}
        /\ UNCHANGED <<todo, pending, round, handed>>
    BY <1>8 DEF StopRounds, Assemble
  <2>2. TypeOK'
    BY <1>1, <2>1 DEF TypeOK
  <2> QED
    BY <1>1, <1>2, <1>3, <1>5, <2>1, <2>2 DEF Counts, Counted, RemedyAfterWhole
<1>9. CASE EndRound
  <2>1. /\ phase = "remedy" /\ phase' \in {"assemble", "rounds"} /\ todo' = <<>>
        /\ pending' = RoundResults /\ round' = round + 1 /\ UNCHANGED handed
    BY <1>9 DEF EndRound
  <2>2. RoundResults \subseteq DOMAIN results
    BY DEF RoundResults
  <2>3. round + 1 \in 0 .. options.depth
    BY <1>1, <2>1 DEF RemedyAfterWhole, TypeOK
  <2>4. TypeOK'
    BY <1>1, <2>1, <2>2, <2>3 DEF TypeOK
  <2> QED
    BY <1>1, <1>2, <1>3, <1>5, <2>1, <2>4 DEF Counts, Counted, RemedyAfterWhole
<1> QED
  BY <1>6, <1>7, <1>8, <1>9

\* Every step keeps the invariant.
LEMMA CountsStay == Counts /\ [Next]_vars => Counts'
<1> SUFFICES ASSUME Counts, [Next]_vars PROVE Counts'
  OBVIOUS
<1>1. CASE RunBase
  BY <1>1, RunBaseCounts
<1>2. CASE RunRemedy
  BY <1>2, RunRemedyCounts
<1>3. CASE FinishBase \/ PlanRound \/ StopRounds \/ EndRound \/ Assemble
  BY <1>3, OthersCount
<1>4. CASE Done \/ UNCHANGED vars
  <2>1. UNCHANGED vars
    BY <1>4 DEF Done
  <2>2. UNCHANGED Share
    BY <2>1 DEF Share, vars
  <2>3. TypeOK' /\ Placing'
    BY <2>1 DEF Counts, vars, TypeOK, Placing
  <2>4. BaseLoop' /\ Counted' /\ RemedyAfterWhole'
    BY <2>1, <2>2 DEF Counts, vars, BaseLoop, Counted, RemedyAfterWhole
  <2>5. Recorded' /\ WithinBudget'
    BY <2>1 DEF Counts, vars, Recorded, WithinBudget
  <2> QED
    BY <2>3, <2>4, <2>5 DEF Counts
<1> QED
  BY <1>1, <1>2, <1>3, <1>4 DEF Next

\* The inductive invariant holds.
THEOREM CountsHold == Spec => []Counts
BY CountsStart, CountsStay, PTL DEF Spec

\* The variables of a course that is built keep their types (run_course_reactive).
THEOREM TypesHold == Spec => []TypeOK
<1>1. Counts => TypeOK
  BY DEF Counts
<1> QED
  BY <1>1, CountsHold, PTL

\* However the planner answers, no more modules run than --max-modules says
\* (run_course_reactive, _budget_exhausted).
THEOREM WithinBudgetHolds == Spec => []WithinBudget
<1>1. Counts => WithinBudget
  BY DEF Counts
<1> QED
  BY <1>1, CountsHold, PTL

\* A module is told the learner knows what the modules run before it were to
\* teach, and nothing of one that was not run (_augment_profile,
\* _augment_for_remediation).
THEOREM OnlyAttemptedIsKnownHolds == Spec => []OnlyAttemptedIsKnown
<1>1. ASSUME Counts PROVE OnlyAttemptedIsKnown
  <2> SUFFICES ASSUME NEW i \in DOMAIN results
               PROVE  results[i].known \subseteq
                        UNION {course[results[j].module + 1].objectives : j \in 1 .. i - 1}
    BY DEF OnlyAttemptedIsKnown
  <2>1. /\ results \in Seq(Result) /\ i \in 1 .. Len(results)
        /\ results[i].known = UNION {course[j].objectives : j \in 1 .. i - 1}
    BY <1>1 DEF Counts, TypeOK, Recorded
  <2>2. \A j \in 1 .. i - 1 : results[j].module + 1 = j
    <3> SUFFICES ASSUME NEW j \in 1 .. i - 1 PROVE results[j].module + 1 = j
      OBVIOUS
    <3>1. j \in DOMAIN results
      BY <2>1
    <3>2. results[j].module = j - 1
      BY <1>1, <3>1 DEF Counts, Recorded
    <3> QED
      BY <3>2
  <2>3. \A j \in 1 .. i - 1 :
          course[results[j].module + 1].objectives = course[j].objectives
    BY <2>2
  <2> QED
    BY <2>1, <2>3
<1>2. Counts => OnlyAttemptedIsKnown
  BY <1>1
<1> QED
  BY <1>2, CountsHold, PTL

-----------------------------------------------------------------------------
\* What a drop of a module comes to, over the rounds.

\* Nothing was dropped, or a round that ended was planned for it.
Accounted(i) == Missing(results[i]) = {} \/ \E r \in 1 .. round : i \in handed[r]

Before == phase = "base" => \A r \in 1 .. options.depth : handed[r] = {}

\* Between two rounds the results not handled yet are the last ones, and no
\* round was planned for them.
Between ==
  phase = "rounds" =>
    /\ \A r \in 1 .. options.depth : handed[r] \cap pending = {}
    /\ \A i \in DOMAIN results \ pending : Accounted(i)
    /\ results # <<>> => Len(results) \in pending

\* During a round they are those that it is planned for.
During ==
  phase = "remedy" =>
    /\ handed[round + 1] = Dropping(pending)
    /\ \A r \in 1 .. options.depth :
         \A i \in handed[r] : (\E p \in pending : i <= p) /\ (i \in pending => r = round + 1)
    /\ \A i \in DOMAIN results \ pending : (\A p \in pending : i > p) \/ Accounted(i)

After ==
  phase \in {"assemble", "done"} =>
    \/ round = options.depth
    \/ BudgetExhausted(results)
    \/ \A i \in DOMAIN results : Accounted(i)

\* No result is handed back in two rounds.
Apart == \A r, s \in DOMAIN handed : r # s => handed[r] \cap handed[s] = {}

Handing == Before /\ Between /\ During /\ After /\ Apart

LEMMA HandingStarts == Init => Handing
BY DEF Init, Handing, Before, Between, During, After, Apart

\* A module that runs adds a result and changes no other one.
LEMMA RunKeeps ==
  ASSUME Counts, RunBase \/ RunRemedy
  PROVE  /\ UNCHANGED <<options, phase, pending, round, handed>>
         /\ phase \in {"base", "remedy"}
         /\ results \in Seq(Result) /\ DOMAIN results = 1 .. Len(results)
         /\ DOMAIN results' = 1 .. Len(results) + 1
         /\ \A i \in DOMAIN results : results'[i] = results[i]
<1>1. Counts' /\ TypeOK /\ TypeOK' /\ Recorded
  BY RunBaseCounts, RunRemedyCounts DEF Counts
<1>2. /\ UNCHANGED <<options, phase, pending, round, handed>> /\ phase \in {"base", "remedy"}
      /\ \E r : results' = Append(results, r)
  BY DEF RunBase, RunRemedy, RunModule
<1>3. results \in Seq(Result) /\ results' \in Seq(Result)
  BY <1>1 DEF TypeOK
<1> QED
  BY <1>2, <1>3

LEMMA RunHands ==
  ASSUME Counts, Handing, RunBase \/ RunRemedy
  PROVE  Handing'
<1>1. /\ UNCHANGED <<options, phase, pending, round, handed>> /\ phase \in {"base", "remedy"}
      /\ DOMAIN results = 1 .. Len(results) /\ Len(results) \in Nat
      /\ DOMAIN results' = 1 .. Len(results) + 1
      /\ \A i \in DOMAIN results : results'[i] = results[i]
  BY RunKeeps
<1>2. pending \subseteq DOMAIN results /\ Before /\ During /\ Apart
  BY DEF Counts, TypeOK, Handing
<1>3. Before' /\ Between' /\ After' /\ Apart'
  BY <1>1, <1>2 DEF Before, Between, After, Apart
<1>4. Dropping(pending)' = Dropping(pending)
  BY <1>1, <1>2 DEF Dropping
<1>5. ASSUME phase = "remedy", NEW i \in DOMAIN results' \ pending
      PROVE  (\A p \in pending : i > p) \/ Accounted(i)'
  <2>1. CASE i \in DOMAIN results
    <3>1. (\A p \in pending : i > p) \/ Accounted(i)
      BY <1>2, <1>5, <2>1 DEF During
    <3>2. Accounted(i) => Accounted(i)'
      BY <1>1, <2>1 DEF Accounted
    <3> QED
      BY <3>1, <3>2
  <2>2. CASE i = Len(results) + 1
    BY <1>1, <1>2, <2>2
  <2> QED
    BY <1>1, <2>1, <2>2
<1>6. During'
  BY <1>1, <1>2, <1>4, <1>5 DEF During
<1> QED
  BY <1>3, <1>6 DEF Handing

\* A round is planned for results that no other round was planned for.
LEMMA PlanHands ==
  ASSUME Counts, Handing, PlanRound
  PROVE  Handing'
<1>1. /\ phase = "rounds" /\ phase' = "remedy" /\ UNCHANGED <<options, results, pending, round>>
      /\ handed' = [handed EXCEPT ![round + 1] = Dropping(pending)]
      /\ round < options.depth /\ Dropping(pending) # {}
  BY DEF PlanRound, Continues
<1>2. /\ results \in Seq(Result) /\ pending \subseteq DOMAIN results
      /\ handed \in [1 .. options.depth -> SUBSET DOMAIN results]
      /\ round \in Nat /\ options.depth \in Nat /\ Between /\ Apart
      /\ DOMAIN results = 1 .. Len(results) /\ Len(results) \in Nat
  BY OptionsAssumption DEF Counts, TypeOK, Handing
<1>3. /\ round + 1 \in 1 .. options.depth /\ handed'[round + 1] = Dropping(pending)
      /\ \A r \in 1 .. options.depth : r # round + 1 => handed'[r] = handed[r]
      /\ DOMAIN handed' = 1 .. options.depth
  BY <1>1, <1>2
<1>4. Dropping(pending) \subseteq pending /\ Dropping(pending)' = Dropping(pending)
  BY <1>1 DEF Dropping
<1>5. Len(results) \in pending
  BY <1>1, <1>2, <1>4 DEF Between
<1>6. \A i \in DOMAIN results : i <= Len(results)
  BY <1>2
<1>7. ASSUME NEW i \in DOMAIN results \ pending PROVE Accounted(i)'
  <2>1. Accounted(i)
    BY <1>1, <1>2, <1>7 DEF Between
  <2>2. \A r \in 1 .. round : handed'[r] = handed[r]
    BY <1>2, <1>3
  <2> QED
    BY <1>1, <2>1, <2>2 DEF Accounted
<1>8. ASSUME NEW r \in 1 .. options.depth, NEW i \in handed'[r]
      PROVE  (\E p \in pending : i <= p) /\ (i \in pending => r = round + 1)
  <2>1. CASE r = round + 1
    BY <1>2, <1>3, <1>4, <1>5, <1>6, <1>8, <2>1
  <2>2. CASE r # round + 1
    <3>1. i \in handed[r] /\ i \in DOMAIN results
      BY <1>2, <1>3, <1>8, <2>2
    <3>2. i \notin pending
      BY <1>1, <1>2, <3>1 DEF Between
    <3> QED
      BY <1>5, <1>6, <3>1, <3>2
  <2> QED
    BY <2>1, <2>2
<1>9. During'
  BY <1>1, <1>3, <1>4, <1>7, <1>8 DEF During
<1>10. Apart'
  <2> SUFFICES ASSUME NEW r \in 1 .. options.depth, NEW s \in 1 .. options.depth, r # s
               PROVE  handed'[r] \cap handed'[s] = {}
    BY <1>3 DEF Apart
  <2>1. handed[r] \cap handed[s] = {}
    BY <1>2 DEF Apart
  <2>2. \A q \in 1 .. options.depth : handed[q] \cap Dropping(pending) = {}
    BY <1>1, <1>2, <1>4 DEF Between
  <2> QED
    BY <1>3, <2>1, <2>2
<1> QED
  BY <1>1, <1>9, <1>10 DEF Handing, Before, Between, After

\* What a round ran was not handed to any.
LEMMA EndHands ==
  ASSUME Counts, Handing, EndRound
  PROVE  Handing'
<1>1. /\ phase = "remedy" /\ UNCHANGED <<options, results, handed>>
      /\ phase' = IF RoundResults = {} THEN "assemble" ELSE "rounds"
      /\ pending' = RoundResults /\ round' = round + 1
  BY DEF EndRound
<1>2. /\ pending \subseteq DOMAIN results
      /\ handed \in [1 .. options.depth -> SUBSET DOMAIN results]
      /\ round \in Nat /\ options.depth \in Nat /\ round < options.depth /\ During /\ Apart
      /\ results \in Seq(Result)
      /\ DOMAIN results = 1 .. Len(results) /\ Len(results) \in Nat
  BY <1>1, OptionsAssumption DEF Counts, TypeOK, Handing, RemedyAfterWhole
<1>3. ASSUME NEW i \in DOMAIN results, i \notin RoundResults PROVE Accounted(i)'
  <2>1. CASE i \in pending
    <3>1. Missing(results[i]) = {} \/ i \in handed[round + 1]
      BY <1>1, <1>2, <2>1 DEF During, Dropping
    <3>2. round + 1 \in 1 .. round + 1
      BY <1>2
    <3>3. Missing(results[i])' = Missing(results[i])
      BY <1>1 DEF Missing
    <3> QED
      BY <1>1, <3>1, <3>2, <3>3 DEF Accounted
  <2>2. CASE i \notin pending
    <3>1. Accounted(i)
      BY <1>1, <1>2, <1>3, <2>2 DEF During, RoundResults
    <3>2. 1 .. round \subseteq 1 .. round + 1
      BY <1>2
    <3>3. Missing(results[i])' = Missing(results[i])
      BY <1>1 DEF Missing
    <3> QED
      BY <1>1, <3>1, <3>2, <3>3 DEF Accounted
  <2> QED
    BY <2>1, <2>2
<1>4. \A r \in 1 .. options.depth : handed[r] \cap RoundResults = {}
  <2> SUFFICES ASSUME NEW r \in 1 .. options.depth, NEW i \in handed[r], i \in RoundResults
               PROVE  FALSE
    OBVIOUS
  <2>1. PICK q \in pending : i <= q
    BY <1>1, <1>2 DEF During
  <2>2. i > q /\ i \in Nat /\ q \in Nat
    BY <1>2, <2>1 DEF RoundResults
  <2> QED
    BY <2>1, <2>2
<1>5. RoundResults # {} => Len(results) \in RoundResults
  <2> SUFFICES ASSUME NEW i \in RoundResults PROVE Len(results) \in RoundResults
    OBVIOUS
  <2>1. i \in 1 .. Len(results) /\ Len(results) \in DOMAIN results
    BY <1>2 DEF RoundResults
  <2>2. \A q \in pending : Len(results) > q
    BY <1>2, <2>1 DEF RoundResults
  <2> QED
    BY <2>1, <2>2 DEF RoundResults
<1>6. Between'
  BY <1>1, <1>3, <1>4, <1>5 DEF Between
<1>7. After'
  BY <1>1, <1>3 DEF After
<1> QED
  BY <1>1, <1>2, <1>6, <1>7 DEF Handing, Before, During, Apart

LEMMA OthersHand ==
  ASSUME Counts, Handing, FinishBase \/ StopRounds \/ Assemble \/ UNCHANGED vars
  PROVE  Handing'
<1>1. UNCHANGED <<options, results, round, handed>>
  BY DEF FinishBase, StopRounds, Assemble, vars
<1>2. Apart' /\ \A i : Accounted(i)' = Accounted(i)
  BY <1>1 DEF Handing, Apart, Accounted, Missing
<1>3. CASE FinishBase
  <2>1. phase = "base" /\ phase' = "rounds" /\ pending' = DOMAIN results
    BY <1>3 DEF FinishBase
  <2>2. results \in Seq(Result)
    BY DEF Counts, TypeOK
  <2>3. Between'
    BY <1>1, <2>1, <2>2 DEF Between, Handing, Before
  <2> QED
    BY <1>2, <2>1, <2>3 DEF Handing, Before, During, After
<1>4. CASE StopRounds
  <2>1. phase = "rounds" /\ phase' = "assemble" /\ ~Continues /\ UNCHANGED pending
    BY <1>4 DEF StopRounds
  <2>2. round = options.depth \/ Dropping(pending) = {} \/ BudgetExhausted(results)
    BY <2>1, OptionsAssumption DEF Continues, Counts, TypeOK
  <2>3. Dropping(pending) = {} => \A i \in pending : Accounted(i)
    BY DEF Dropping, Accounted
  <2>4. \A i \in DOMAIN results \ pending : Accounted(i)
    BY <2>1 DEF Handing, Between
  <2>5. BudgetExhausted(results)' = BudgetExhausted(results)
    BY <1>1 DEF BudgetExhausted
  <2>6. After'
    BY <1>1, <1>2, <2>2, <2>3, <2>4, <2>5 DEF After
  <2> QED
    BY <1>2, <2>1, <2>6 DEF Handing, Before, Between, During
<1>5. CASE Assemble
  <2>1. phase = "assemble" /\ phase' = "done" /\ UNCHANGED pending
    BY <1>5 DEF Assemble
  <2>2. BudgetExhausted(results)' = BudgetExhausted(results)
    BY <1>1 DEF BudgetExhausted
  <2>3. After'
    BY <1>1, <1>2, <2>1, <2>2 DEF Handing, After
  <2> QED
    BY <1>2, <2>1, <2>3 DEF Handing, Before, Between, During
<1>6. CASE UNCHANGED vars
  <2>1. UNCHANGED <<phase, pending>>
    BY <1>6 DEF vars
  <2>2. BudgetExhausted(results)' = BudgetExhausted(results)
        /\ Dropping(pending)' = Dropping(pending)
    BY <1>1, <2>1 DEF BudgetExhausted, Dropping, Missing
  <2>3. Before' /\ Between' /\ After'
    BY <1>1, <1>2, <2>1, <2>2 DEF Handing, Before, Between, After
  <2>4. During'
    BY <1>1, <1>2, <2>1, <2>2 DEF Handing, During
  <2> QED
    BY <1>2, <2>3, <2>4 DEF Handing
<1> QED
  BY <1>3, <1>4, <1>5, <1>6

LEMMA HandingStays == Counts /\ Handing /\ [Next]_vars => Handing'
<1> SUFFICES ASSUME Counts, Handing, [Next]_vars PROVE Handing'
  OBVIOUS
<1> QED
  BY RunHands, PlanHands, EndHands, OthersHand DEF Next, Done

THEOREM HandingHolds == Spec => []Handing
BY CountsHold, HandingStarts, HandingStays, PTL DEF Spec

\* However many rounds the command line allows, no drop is planned for twice, and
\* one that never was is there because the rounds or the modules ran out
\* (run_course_reactive).
THEOREM OverflowHandedBackOnceHolds == Spec => []OverflowHandedBackOnce
<1>1. ASSUME Counts, Handing PROVE OverflowHandedBackOnce
  <2> SUFFICES ASSUME NEW i \in DOMAIN results
               PROVE  LET rounds == {r \in DOMAIN handed : i \in handed[r]}
                      IN  /\ Cardinality(rounds) <= 1
                          /\ phase = "done" /\ Missing(results[i]) # {} /\ rounds = {} =>
                               round = options.depth \/ BudgetExhausted(results)
    BY DEF OverflowHandedBackOnce
  <2> DEFINE rounds == {r \in DOMAIN handed : i \in handed[r]}
  <2>1. CASE rounds = {}
    <3>1. Cardinality(rounds) = 0
      BY <2>1, FS_EmptySet
    <3>2. 1 .. round \subseteq DOMAIN handed
      BY <1>1, OptionsAssumption DEF Counts, TypeOK
    <3>3. Accounted(i) => Missing(results[i]) = {}
      BY <2>1, <3>2 DEF Accounted
    <3>4. phase = "done" =>
            round = options.depth \/ BudgetExhausted(results) \/ Accounted(i)
      BY <1>1 DEF Handing, After
    <3> QED
      BY <3>1, <3>3, <3>4
  <2>2. CASE rounds # {}
    <3>1. PICK r \in rounds : TRUE
      BY <2>2
    <3>2. \A s \in rounds : s = r
      BY <1>1, <3>1 DEF Handing, Apart
    <3>3. rounds = {r}
      BY <3>1, <3>2
    <3>4. Cardinality(rounds) = 1
      BY <3>3, FS_Singleton
    <3> QED
      BY <2>2, <3>4
  <2> QED
    BY <2>1, <2>2
<1>2. Counts /\ Handing => OverflowHandedBackOnce
  BY <1>1
<1> QED
  BY <1>2, CountsHold, HandingHolds, PTL

-----------------------------------------------------------------------------
\* What is assembled is what was run.
Assembled ==
  phase = "done" => outcome.index = CourseIndex /\ outcome.report = CourseReport

LEMMA AssembledStays == Assembled /\ [Next]_vars => Assembled'
<1> SUFFICES ASSUME Assembled, [Next]_vars PROVE Assembled'
  OBVIOUS
<1>1. CASE Assemble
  <2>1. /\ UNCHANGED <<course, results>>
        /\ outcome'.index = CourseIndex /\ outcome'.report = CourseReport
    BY <1>1 DEF Assemble
  <2>2. CourseIndex' = CourseIndex /\ CourseReport' = CourseReport
    BY <2>1 DEF CourseIndex, CourseReport, ResultOf, Missing
  <2> QED
    BY <2>1, <2>2 DEF Assembled
<1>2. CASE RunBase \/ FinishBase \/ PlanRound \/ StopRounds \/ RunRemedy \/ EndRound
  <2>1. phase' # "done"
    BY <1>2 DEF RunBase, RunRemedy, RunModule, FinishBase, PlanRound, StopRounds, EndRound
  <2> QED
    BY <2>1 DEF Assembled
<1>3. CASE UNCHANGED vars
  <2>1. UNCHANGED <<phase, course, results, outcome>>
    BY <1>3 DEF vars
  <2>2. CourseIndex' = CourseIndex /\ CourseReport' = CourseReport
    BY <2>1 DEF CourseIndex, CourseReport, ResultOf, Missing
  <2> QED
    BY <2>1, <2>2 DEF Assembled
<1> QED
  BY <1>1, <1>2, <1>3 DEF Next, Done

\* Every gap of a grown course is in what the command leaves: the index and the
\* report between them (_render_course_index, _render_module_report_section).
THEOREM GapsAreVisibleHolds == Spec => []GapsAreVisible
<1>1. Init => Assembled
  BY DEF Init, Assembled
<1>2. ASSUME Assembled, TypeOK PROVE GapsAreVisible
  <2> SUFFICES ASSUME phase = "done", NEW p \in DOMAIN course, outcome.index[p].status = "ok"
               PROVE  \E i \in DOMAIN results :
                        /\ results[i].module = course[p].order
                        /\ results[i].signals # <<>> =>
                             Last(results[i].signals) \subseteq outcome.report[i].dropped
    BY DEF GapsAreVisible
  <2>1. ResultOf(course[p]) = "ok"
    BY <1>2 DEF Assembled, CourseIndex
  <2>2. PICK i \in DOMAIN results : results[i].module = course[p].order
    BY <2>1 DEF ResultOf
  <2>3. outcome.report[i].dropped = Missing(results[i])
    BY <1>2 DEF Assembled, CourseReport
  <2>4. results[i] \in Result
    BY <1>2, <2>2 DEF TypeOK
  <2>5. PICK n \in 0 .. MaxPasses : results[i].signals \in [1 .. n -> SUBSET Objective]
    BY <2>4 DEF Result, Signals, BoundedSeq, SeqOf
  <2>6. results[i].signals \in Seq(SUBSET Objective)
    BY <2>5
  <2>7. results[i].signals # <<>> => Last(results[i].signals) \in ToSet(results[i].signals)
    BY <2>6 DEF Last, ToSet
  <2> QED
    BY <2>2, <2>3, <2>7 DEF Missing
<1>3. Assembled /\ TypeOK => GapsAreVisible
  BY <1>2
<1> QED
  BY <1>1, <1>3, AssembledStays, TypesHold, PTL DEF Spec

=============================================================================

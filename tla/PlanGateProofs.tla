---------------------------- MODULE PlanGateProofs ----------------------------
(***************************************************************************)
(* The edits of a course plan, and the plan gate that applies them, for    *)
(* every planner, every classifier, every learner and plans of any length. *)
(***************************************************************************)
EXTENDS PlanGate, FiniteSetTheorems, SequenceTheorems, WellFoundedInduction, TLAPS

(***************************************************************************)
(* Counting up.                                                            *)
(***************************************************************************)

\* Of the numbers in a nonempty set one is the least.
LEMMA LeastOf ==
  ASSUME NEW T \in SUBSET Nat, T # {}
  PROVE  \E m \in T : \A k \in T : m <= k
<1> DEFINE R == {ss \in Nat \X Nat : ss[1] < ss[2]}
<1>1. IsWellFoundedOn(R, Nat)
  BY NatLessThanWellFounded DEF OpToRel
<1>2. \A k, m \in Nat : k < m => <<k, m>> \in R
  OBVIOUS
<1> HIDE DEF R
<1>3. \E m \in T : \A k \in T : ~ (<<k, m>> \in R)
  BY <1>1, WFMin
<1>4. PICK m \in T : \A k \in T : ~ (<<k, m>> \in R)
  BY <1>3
<1>5. ASSUME NEW k \in T PROVE m <= k
  <2>1. ~ (k < m)
    BY <1>2, <1>4
  <2> QED
    BY <2>1
<1> QED
  BY <1>5

\* What holds at 0 and passes from each number to the next holds up to n.
LEMMA UpTo ==
  ASSUME NEW n \in Nat, NEW T, 0 \in T, \A k \in 1 .. n : k - 1 \in T => k \in T
  PROVE  \A k \in 0 .. n : k \in T
<1> DEFINE Missing == {k \in 0 .. n : k \notin T}
<1> SUFFICES ASSUME Missing # {} PROVE FALSE
  OBVIOUS
<1>1. Missing \in SUBSET Nat
  OBVIOUS
<1>2. PICK m \in Missing : \A k \in Missing : m <= k
  BY <1>1, LeastOf
<1>3. m \in 1 .. n /\ m - 1 \in 0 .. n
  BY <1>2
<1>4. m - 1 \notin Missing
  BY <1>2, <1>3
<1>5. m - 1 \in T
  BY <1>3, <1>4
<1> QED
  BY <1>2, <1>3, <1>5

\* Of the numbers in a nonempty set that has a bound one is the greatest.
LEMMA GreatestOf ==
  ASSUME NEW n \in Nat, NEW T \in SUBSET (0 .. n), T # {}
  PROVE  \E m \in T : \A k \in T : k <= m
<1> DEFINE Below == {n - k : k \in T}
<1>1. Below \in SUBSET Nat
  <2> SUFFICES ASSUME NEW k \in T PROVE n - k \in Nat
    OBVIOUS
  <2>1. k \in 0 .. n
    OBVIOUS
  <2> QED
    BY <2>1
<1>2. Below # {}
  OBVIOUS
<1>3. PICK b \in Below : \A k \in Below : b <= k
  BY <1>1, <1>2, LeastOf
<1>4. PICK m \in T : b = n - m
  BY <1>3
<1>5. ASSUME NEW k \in T PROVE k <= m
  <2>1. b <= n - k
    BY <1>3
  <2>2. k \in 0 .. n /\ m \in 0 .. n
    OBVIOUS
  <2> QED
    BY <1>4, <2>1, <2>2
<1> QED
  BY <1>5

\* A loop of n rounds over values of a set S can be run.
CanRun(n, S, start, step) ==
  \E f \in [0 .. n -> S] : f[0] = start /\ \A k \in 1 .. n : f[k] = step[<<k, f[k - 1]>>]

LEMMA LoopExists ==
  ASSUME NEW n \in Nat, NEW S, NEW start \in S, NEW step \in [(1 .. n) \X S -> S]
  PROVE  CanRun(n, S, start, step)
<1> DEFINE Runs(m, f) == f[0] = start /\ \A k \in 1 .. m : f[k] = step[<<k, f[k - 1]>>]
           T == {m \in 0 .. n : \E f \in [0 .. m -> S] : Runs(m, f)}
<1>1. 0 \in T
  <2> DEFINE f == [k \in 0 .. 0 |-> start]
  <2>1. f \in [0 .. 0 -> S] /\ f[0] = start
    OBVIOUS
  <2>2. \A k \in 1 .. 0 : FALSE
    OBVIOUS
  <2> HIDE DEF f
  <2>3. Runs(0, f)
    BY <2>1, <2>2
  <2> HIDE DEF Runs
  <2> QED
    BY <2>1, <2>3
<1>2. ASSUME NEW m \in 1 .. n, m - 1 \in T PROVE m \in T
  <2>1. PICK f \in [0 .. m - 1 -> S] : Runs(m - 1, f)
    BY <1>2
  <2> DEFINE last == step[<<m, f[m - 1]>>]
             g == [k \in 0 .. m |-> IF k = m THEN last ELSE f[k]]
  <2>2. <<m, f[m - 1]>> \in (1 .. n) \X S
    BY <2>1
  <2>3. last \in S
    BY <2>2
  <2>4. last = step[<<m, f[m - 1]>>]
    OBVIOUS
  <2> HIDE DEF last
  <2>5. g \in [0 .. m -> S]
    BY <2>1, <2>3
  <2>6. g[m] = last /\ \A k \in 0 .. m - 1 : g[k] = f[k]
    OBVIOUS
  <2> HIDE DEF g
  <2>7. g[0] = start
    BY <2>1, <2>6
  <2>8. ASSUME NEW k \in 1 .. m PROVE g[k] = step[<<k, g[k - 1]>>]
    <3>1. g[k - 1] = f[k - 1]
      BY <2>6
    <3>2. CASE k = m
      BY <2>4, <2>6, <3>1, <3>2
    <3>3. CASE k # m
      BY <2>1, <2>6, <3>1, <3>3
    <3> QED
      BY <3>2, <3>3
  <2>9. Runs(m, g)
    BY <2>7, <2>8
  <2> HIDE DEF Runs
  <2> QED
    BY <2>5, <2>9
<1> HIDE DEF T
<1>3. n \in T
  BY <1>1, <1>2, UpTo
<1> QED
  BY <1>3 DEF T, CanRun

(***************************************************************************)
(* What the helpers make of a course.                                      *)
(***************************************************************************)

\* A function on 1 .. n is a sequence of n elements.
LEMMA FcnIsSeq ==
  ASSUME NEW S, NEW n \in Nat, NEW f \in [1 .. n -> S]
  PROVE  f \in Seq(S) /\ Len(f) = n /\ DOMAIN f = 1 .. n
<1>1. f \in Seq(S)
  BY SeqDef
<1> QED
  BY <1>1

\* What is left of a sequence without its i-th element.
LEMMA RemoveAtFacts ==
  ASSUME NEW S, NEW s \in Seq(S), NEW i \in 1 .. Len(s)
  PROVE  /\ RemoveAt(s, i) \in Seq(S)
         /\ Len(RemoveAt(s, i)) = Len(s) - 1
         /\ \A j \in 1 .. Len(s) - 1 :
              RemoveAt(s, i)[j] = s[IF j < i THEN j ELSE j + 1]
<1> DEFINE before == SubSeq(s, 1, i - 1)
           after == SubSeq(s, i + 1, Len(s))
<1>1. Len(s) \in Nat /\ i \in Nat /\ 1 <= i /\ i <= Len(s)
  OBVIOUS
<1>2. \A j \in 1 .. Len(s) : s[j] \in S
  OBVIOUS
<1>3. /\ before \in Seq(S) /\ Len(before) = i - 1
      /\ \A j \in 1 .. i - 1 : before[j] = s[j]
  BY <1>1, <1>2, SubSeqProperties
<1>4. /\ after \in Seq(S) /\ Len(after) = Len(s) - i
      /\ \A j \in 1 .. Len(s) - i : after[j] = s[j + i]
  BY <1>1, <1>2, SubSeqProperties
<1> HIDE DEF before, after
<1>5. /\ before \o after \in Seq(S)
      /\ Len(before \o after) = Len(before) + Len(after)
      /\ \A j \in 1 .. Len(before) + Len(after) :
           (before \o after)[j] = IF j <= Len(before) THEN before[j] ELSE after[j - Len(before)]
  BY <1>3, <1>4, ConcatProperties
<1>6. ASSUME NEW j \in 1 .. Len(s) - 1
      PROVE  (before \o after)[j] = s[IF j < i THEN j ELSE j + 1]
  <2>1. CASE j < i
    BY <1>1, <1>3, <1>4, <1>5, <2>1
  <2>2. CASE ~(j < i)
    <3>1. (before \o after)[j] = after[j - (i - 1)]
      BY <1>1, <1>3, <1>4, <1>5, <2>2
    <3>2. j - (i - 1) \in 1 .. Len(s) - i /\ j - (i - 1) + i = j + 1
      BY <1>1, <2>2
    <3>3. after[j - (i - 1)] = s[j + 1]
      BY <1>4, <3>2
    <3> QED
      BY <2>2, <3>1, <3>3
  <2> QED
    BY <2>1, <2>2
<1>7. RemoveAt(s, i) = before \o after
  BY DEF RemoveAt, before, after
<1>8. Len(before \o after) = Len(s) - 1
  BY <1>1, <1>3, <1>4, <1>5
<1> QED
  BY <1>5, <1>6, <1>7, <1>8, Zenon

\* Renumbering touches the numbers only.
LEMMA RenumberFacts ==
  ASSUME NEW c \in Seq(ModuleSpec)
  PROVE  /\ Renumber(c) \in Seq(ModuleSpec)
         /\ Len(Renumber(c)) = Len(c)
         /\ Numbered(Renumber(c))
         /\ \A p \in 1 .. Len(c) :
              /\ Renumber(c)[p].title = c[p].title
              /\ Renumber(c)[p].prerequisites = c[p].prerequisites
              /\ Renumber(c)[p].capabilities = c[p].capabilities
              /\ Renumber(c)[p].mode = c[p].mode
<1>1. Renumber(c) = [p \in 1 .. Len(c) |-> [c[p] EXCEPT !.order = p - 1]]
  BY DEF Renumber
<1>2. ASSUME NEW p \in 1 .. Len(c)
      PROVE  /\ Renumber(c)[p] \in ModuleSpec
             /\ Renumber(c)[p].order = p - 1
             /\ Renumber(c)[p].title = c[p].title
             /\ Renumber(c)[p].prerequisites = c[p].prerequisites
             /\ Renumber(c)[p].capabilities = c[p].capabilities
             /\ Renumber(c)[p].mode = c[p].mode
  <2>1. c[p] \in ModuleSpec /\ p - 1 \in Nat
    OBVIOUS
  <2>2. Renumber(c)[p] = [c[p] EXCEPT !.order = p - 1]
    BY <1>1
  <2> QED
    BY <2>1, <2>2 DEF ModuleSpec
<1>3. Len(c) \in Nat /\ Renumber(c) \in [1 .. Len(c) -> ModuleSpec]
  BY <1>1, <1>2
<1>4. /\ Renumber(c) \in Seq(ModuleSpec)
      /\ Len(Renumber(c)) = Len(c)
      /\ DOMAIN Renumber(c) = 1 .. Len(c)
  BY <1>3, FcnIsSeq
<1> QED
  BY <1>2, <1>4 DEF Numbered

\* The prerequisites of a module after titles were renamed and dropped.
Remapped(m, rename, drop) ==
  {IF t \in DOMAIN rename THEN rename[t] ELSE t : t \in m.prerequisites \ drop} \ {m.title}

\* Remapping touches the prerequisites only.
LEMMA RemapFacts ==
  ASSUME NEW m \in ModuleSpec, NEW rename, NEW drop,
         \A t \in DOMAIN rename : rename[t] \in Title
  PROVE  /\ RemapPrerequisites(m, rename, drop) \in ModuleSpec
         /\ RemapPrerequisites(m, rename, drop).title = m.title
         /\ RemapPrerequisites(m, rename, drop).prerequisites = Remapped(m, rename, drop)
         /\ RemapPrerequisites(m, rename, drop).capabilities = m.capabilities
         /\ RemapPrerequisites(m, rename, drop).mode = m.mode
<1>1. RemapPrerequisites(m, rename, drop) = [m EXCEPT !.prerequisites = Remapped(m, rename, drop)]
  BY DEF RemapPrerequisites, Remapped
<1>2. Remapped(m, rename, drop) \in SUBSET Title
  BY DEF Remapped, ModuleSpec
<1> QED
  BY <1>1, <1>2 DEF ModuleSpec

\* The mode that covers a set of modes: undecided if one of them is, else one
\* of them, as strict as any.
LEMMA MergeModesFacts ==
  ASSUME NEW modes \in SUBSET (LessonMode \cup {Undecided}), modes # {}
  PROVE  /\ MergeModes(modes) \in LessonMode \cup {Undecided}
         /\ Undecided \in modes => MergeModes(modes) = Undecided
         /\ Undecided \notin modes =>
              /\ MergeModes(modes) \in modes
              /\ \A n \in modes : ModeStrictness[n] <= ModeStrictness[MergeModes(modes)]
<1>1. CASE Undecided \in modes
  BY <1>1 DEF MergeModes
<1>2. CASE Undecided \notin modes
  <2> DEFINE Covers(m) == \A n \in modes : ModeStrictness[n] <= ModeStrictness[m]
  <2>1. modes \subseteq {"conceptual", "artifact", "executable"}
    BY <1>2 DEF LessonMode, ModeStrictness
  <2>2. /\ ModeStrictness["conceptual"] = 0
        /\ ModeStrictness["artifact"] = 1
        /\ ModeStrictness["executable"] = 2
    BY DEF ModeStrictness
  <2>3. \E m \in modes : Covers(m)
    <3>1. CASE "executable" \in modes
      <4>1. Covers("executable")
        BY <2>1, <2>2
      <4> QED
        BY <3>1, <4>1
    <3>2. CASE "executable" \notin modes /\ "artifact" \in modes
      <4>1. Covers("artifact")
        BY <2>1, <2>2, <3>2
      <4> QED
        BY <3>2, <4>1
    <3>3. CASE "executable" \notin modes /\ "artifact" \notin modes
      <4>1. modes = {"conceptual"}
        BY <2>1, <3>3
      <4>2. Covers("conceptual")
        BY <2>2, <4>1
      <4> QED
        BY <4>1, <4>2
    <3> QED
      BY <3>1, <3>2, <3>3
  <2>4. MergeModes(modes) = CHOOSE m \in modes : Covers(m)
    BY <1>2 DEF MergeModes
  <2>5. MergeModes(modes) \in modes /\ Covers(MergeModes(modes))
    BY <2>3, <2>4
  <2> QED
    BY <1>2, <2>5
<1> QED
  BY <1>1, <1>2

(***************************************************************************)
(* What each edit makes of a course.                                       *)
(***************************************************************************)

\* A module made of two.
LEMMA MergedModuleFacts ==
  ASSUME NEW early \in ModuleSpec, NEW late \in ModuleSpec
  PROVE  /\ MergedModule(early, late) \in ModuleSpec
         /\ MergedModule(early, late).title = early.title \o late.title
         /\ MergedModule(early, late).prerequisites =
              (early.prerequisites \cup late.prerequisites) \ {early.title, late.title}
         /\ MergedModule(early, late).capabilities = early.capabilities \cup late.capabilities
         /\ MergedModule(early, late).mode = MergeModes({early.mode, late.mode})
<1>1. /\ early.title \in Seq(Name) /\ late.title \in Seq(Name)
      /\ early.order \in Nat
      /\ early.prerequisites \cup late.prerequisites \in SUBSET Title
      /\ early.capabilities \cup late.capabilities \in SUBSET Capability
      /\ {early.mode, late.mode} \in SUBSET (LessonMode \cup {Undecided})
  BY DEF ModuleSpec, Title
<1>2. early.title \o late.title \in Title
  BY <1>1, ConcatProperties DEF Title
<1>3. MergeModes({early.mode, late.mode}) \in LessonMode \cup {Undecided}
  BY <1>1, MergeModesFacts
<1> QED
  BY <1>1, <1>2, <1>3 DEF MergedModule, ModuleSpec

\* The course d is what a merge of the modules at lo and hi makes of c.
MergeResult(c, lo, hi, d) ==
  LET joined == c[lo].title \o c[hi].title
      rename == [t \in {c[lo].title, c[hi].title} |-> joined]
  IN  /\ d \in Seq(ModuleSpec) /\ Len(d) = Len(c) - 1 /\ Numbered(d)
      /\ d[lo].title = joined
      /\ d[lo].prerequisites =
           (c[lo].prerequisites \cup c[hi].prerequisites) \ {c[lo].title, c[hi].title}
      /\ d[lo].capabilities = c[lo].capabilities \cup c[hi].capabilities
      /\ d[lo].mode = MergeModes({c[lo].mode, c[hi].mode})
      /\ \A p \in 1 .. Len(c) - 1 : p # lo =>
           LET m == c[IF p < hi THEN p ELSE p + 1] IN
           /\ d[p].title = m.title
           /\ d[p].prerequisites = Remapped(m, rename, {})
           /\ d[p].capabilities = m.capabilities
           /\ d[p].mode = m.mode

LEMMA MergeFacts ==
  ASSUME NEW c \in Seq(ModuleSpec), NEW i \in Indices(c), NEW j \in Indices(c), i # j
  PROVE  \E lo, hi \in 1 .. Len(c) :
           /\ lo < hi
           /\ (lo = i + 1 /\ hi = j + 1) \/ (lo = j + 1 /\ hi = i + 1)
           /\ MergeResult(c, lo, hi, MergeModules(c, i, j))
<1>1. Len(c) \in Nat /\ DOMAIN c = 1 .. Len(c) /\ i \in 0 .. Len(c) - 1 /\ j \in 0 .. Len(c) - 1
  BY DEF Indices
<1>2. PICK lo, hi \in 1 .. Len(c) :
        /\ lo < hi
        /\ lo = (IF i < j THEN i ELSE j) + 1
        /\ hi = (IF i < j THEN j ELSE i) + 1
  BY <1>1
<1> DEFINE joined == c[lo].title \o c[hi].title
           rename == [t \in {c[lo].title, c[hi].title} |-> joined]
           merged == MergedModule(c[lo], c[hi])
           rebuilt == [p \in 1 .. Len(c) |->
                         IF p = lo THEN merged ELSE RemapPrerequisites(c[p], rename, {})]
           rest == RemoveAt(rebuilt, hi)
<1>3. c[lo] \in ModuleSpec /\ c[hi] \in ModuleSpec
  OBVIOUS
<1>4. /\ merged \in ModuleSpec
      /\ merged.title = joined
      /\ merged.prerequisites =
           (c[lo].prerequisites \cup c[hi].prerequisites) \ {c[lo].title, c[hi].title}
      /\ merged.capabilities = c[lo].capabilities \cup c[hi].capabilities
      /\ merged.mode = MergeModes({c[lo].mode, c[hi].mode})
  BY <1>3, MergedModuleFacts
<1>5. MergeModules(c, i, j) = Renumber(rest)
  <2>1. /\ (IF i < j THEN i ELSE j) + 1 = lo
        /\ (IF i < j THEN j ELSE i) + 1 = hi
    BY <1>2
  <2>2. merged.title = joined
    BY <1>4
  <2> QED
    BY <1>1, <2>1, <2>2, Zenon DEF MergeModules
<1>6. joined \in Title
  BY <1>4 DEF ModuleSpec
<1>7. DOMAIN rename = {c[lo].title, c[hi].title} /\ \A t \in DOMAIN rename : rename[t] \in Title
  BY <1>6
<1> HIDE DEF merged, rename
<1>8. ASSUME NEW p \in 1 .. Len(c), p # lo
      PROVE  /\ rebuilt[p] \in ModuleSpec
             /\ rebuilt[p].title = c[p].title
             /\ rebuilt[p].prerequisites = Remapped(c[p], rename, {})
             /\ rebuilt[p].capabilities = c[p].capabilities
             /\ rebuilt[p].mode = c[p].mode
  <2>1. c[p] \in ModuleSpec /\ rebuilt[p] = RemapPrerequisites(c[p], rename, {})
    BY <1>8
  <2> HIDE DEF rebuilt
  <2> QED
    BY <1>7, <2>1, RemapFacts
<1>9. rebuilt[lo] = merged
  OBVIOUS
<1>10. rebuilt \in Seq(ModuleSpec) /\ Len(rebuilt) = Len(c)
  <2>1. rebuilt \in [1 .. Len(c) -> ModuleSpec]
    BY <1>4, <1>8, <1>9
  <2> HIDE DEF rebuilt
  <2> QED
    BY <1>1, <2>1, FcnIsSeq
<1> HIDE DEF rebuilt
<1>11. /\ rest \in Seq(ModuleSpec)
       /\ Len(rest) = Len(c) - 1
       /\ \A p \in 1 .. Len(c) - 1 : rest[p] = rebuilt[IF p < hi THEN p ELSE p + 1]
  BY <1>10, RemoveAtFacts
<1> HIDE DEF rest
<1> DEFINE d == Renumber(rest)
<1>12. /\ d \in Seq(ModuleSpec) /\ Len(d) = Len(c) - 1 /\ Numbered(d)
       /\ \A p \in 1 .. Len(c) - 1 :
            /\ d[p].title = rest[p].title
            /\ d[p].prerequisites = rest[p].prerequisites
            /\ d[p].capabilities = rest[p].capabilities
            /\ d[p].mode = rest[p].mode
  BY <1>11, RenumberFacts
<1> HIDE DEF d
<1>13. /\ d[lo].title = merged.title
       /\ d[lo].prerequisites = merged.prerequisites
       /\ d[lo].capabilities = merged.capabilities
       /\ d[lo].mode = merged.mode
  <2>1. lo \in 1 .. Len(c) - 1 /\ lo < hi
    BY <1>1, <1>2
  <2>2. rest[lo] = merged
    BY <1>9, <1>11, <2>1
  <2> QED
    BY <1>12, <2>1, <2>2
<1>14. ASSUME NEW p \in 1 .. Len(c) - 1, p # lo, NEW o, o = IF p < hi THEN p ELSE p + 1
       PROVE  /\ d[p].title = c[o].title
              /\ d[p].prerequisites = Remapped(c[o], rename, {})
              /\ d[p].capabilities = c[o].capabilities
              /\ d[p].mode = c[o].mode
  <2>1. o \in 1 .. Len(c) /\ o # lo
    BY <1>1, <1>2, <1>14
  <2>2. rest[p] = rebuilt[o]
    BY <1>11, <1>14
  <2> QED
    BY <1>8, <1>12, <2>1, <2>2
<1>15. rename = [t \in {c[lo].title, c[hi].title} |-> joined]
  BY DEF rename
<1> HIDE DEF joined
<1>16. MergeResult(c, lo, hi, d)
  <2>1. \A p \in 1 .. Len(c) - 1 : p # lo =>
          LET m == c[IF p < hi THEN p ELSE p + 1] IN
          /\ d[p].title = m.title
          /\ d[p].prerequisites = Remapped(m, rename, {})
          /\ d[p].capabilities = m.capabilities
          /\ d[p].mode = m.mode
    BY <1>14
  <2> QED
    BY <1>4, <1>12, <1>13, <1>15, <2>1, Zenon DEF MergeResult, joined
<1> QED
  BY <1>1, <1>2, <1>5, <1>16 DEF d

\* The partial concatenations of m + 1 sequences: they exist, and whatever meets
\* their equation yields sequences.
Concats(m, S, seqs) ==
  \E f \in [0 .. m -> Seq(S)] :
    f[0] = seqs[1] /\ \A k \in 1 .. m : f[k] = f[k - 1] \o seqs[k + 1]

LEMMA PartialConcats ==
  ASSUME NEW S, NEW m \in Nat, NEW seqs \in [1 .. m + 1 -> Seq(S)]
  PROVE  Concats(m, S, seqs)
<1> DEFINE step == [x \in (1 .. m) \X Seq(S) |-> x[2] \o seqs[x[1] + 1]]
<1>1. \A k \in 1 .. m : seqs[k + 1] \in Seq(S)
  OBVIOUS
<1>2. step \in [(1 .. m) \X Seq(S) -> Seq(S)]
  <2> SUFFICES ASSUME NEW k \in 1 .. m, NEW s \in Seq(S)
               PROVE  s \o seqs[k + 1] \in Seq(S)
    OBVIOUS
  <2> QED
    BY <1>1, ConcatProperties
<1>3. seqs[1] \in Seq(S)
  OBVIOUS
<1>4. \A k \in 1 .. m, s \in Seq(S) : step[<<k, s>>] = s \o seqs[k + 1]
  OBVIOUS
<1> HIDE DEF step
<1>0. CanRun(m, Seq(S), seqs[1], step)
  BY <1>2, <1>3, LoopExists
<1>5. PICK f \in [0 .. m -> Seq(S)] :
        f[0] = seqs[1] /\ \A k \in 1 .. m : f[k] = step[<<k, f[k - 1]>>]
  BY <1>0 DEF CanRun
<1>6. ASSUME NEW k \in 1 .. m PROVE f[k] = f[k - 1] \o seqs[k + 1]
  <2>1. f[k - 1] \in Seq(S)
    OBVIOUS
  <2> QED
    BY <1>4, <1>5, <2>1
<1> QED
  BY <1>5, <1>6 DEF Concats

\* Joining sequences gives a sequence.
LEMMA FlattenSeqType ==
  ASSUME NEW S, NEW m \in Nat, NEW seqs \in [1 .. m + 1 -> Seq(S)], Len(seqs) = m + 1
  PROVE  FlattenSeq(seqs) \in Seq(S)
<1> DEFINE Flattens(f) ==
             f = [i \in 1 .. m + 1 |-> IF i = 1 THEN seqs[i] ELSE f[i - 1] \o seqs[i]]
<1>1. FlattenSeq(seqs) = (CHOOSE f : Flattens(f))[m + 1]
  <2>1. seqs # <<>>
    OBVIOUS
  <2> QED
    BY <2>1 DEF FlattenSeq
<1>2. \E f : Flattens(f)
  <2>0. Concats(m, S, seqs)
    BY PartialConcats
  <2>1. PICK f \in [0 .. m -> Seq(S)] :
          f[0] = seqs[1] /\ \A k \in 1 .. m : f[k] = f[k - 1] \o seqs[k + 1]
    BY <2>0 DEF Concats
  <2> DEFINE g == [i \in 1 .. m + 1 |-> f[i - 1]]
  <2>2. ASSUME NEW i \in 1 .. m + 1
        PROVE  f[i - 1] = IF i = 1 THEN seqs[i] ELSE g[i - 1] \o seqs[i]
    <3>1. CASE i = 1
      BY <2>1, <3>1
    <3>2. CASE i # 1
      <4>1. i - 1 \in 1 .. m /\ i - 1 \in 1 .. m + 1 /\ i - 1 + 1 = i
        BY <3>2
      <4>2. g[i - 1] = f[i - 1 - 1]
        BY <4>1
      <4>3. f[i - 1] = f[i - 1 - 1] \o seqs[i - 1 + 1]
        BY <2>1, <4>1
      <4> QED
        BY <3>2, <4>1, <4>2, <4>3
    <3> QED
      BY <3>1, <3>2
  <2>3. Flattens(g)
    BY <2>2
  <2> QED
    BY <2>3
<1>3. PICK h : Flattens(h) /\ FlattenSeq(seqs) = h[m + 1]
  BY <1>1, <1>2
<1>4. \A i \in 1 .. m + 1 : h[i] = IF i = 1 THEN seqs[i] ELSE h[i - 1] \o seqs[i]
  <2>1. h = [i \in 1 .. m + 1 |-> IF i = 1 THEN seqs[i] ELSE h[i - 1] \o seqs[i]]
    BY <1>3
  <2> DEFINE e == [i \in 1 .. m + 1 |-> IF i = 1 THEN seqs[i] ELSE h[i - 1] \o seqs[i]]
  <2>2. \A i \in 1 .. m + 1 : e[i] = IF i = 1 THEN seqs[i] ELSE h[i - 1] \o seqs[i]
    OBVIOUS
  <2>3. e = h
    BY <2>1, Zenon
  <2> HIDE DEF e
  <2> QED
    BY <2>2, <2>3, Zenon
<1> DEFINE T == {k \in 0 .. m : h[k + 1] \in Seq(S)}
<1>5. 0 \in T
  <2>1. h[1] = seqs[1]
    BY <1>4
  <2> QED
    BY <2>1
<1>6. ASSUME NEW k \in 1 .. m, k - 1 \in T PROVE k \in T
  <2>1. k + 1 \in 1 .. m + 1 /\ k + 1 # 1 /\ k + 1 - 1 = k /\ k - 1 + 1 = k /\ k \in 0 .. m
    OBVIOUS
  <2>2. h[k + 1] = h[k] \o seqs[k + 1]
    <3>1. PICK j \in 1 .. m + 1 : j = k + 1 /\ j # 1 /\ j - 1 = k
      BY <2>1
    <3>2. h[j] = h[j - 1] \o seqs[j]
      BY <1>4, <3>1, Zenon
    <3> QED
      BY <3>1, <3>2, Zenon
  <2>3. h[k] \in Seq(S) /\ seqs[k + 1] \in Seq(S)
    BY <1>6, <2>1
  <2>4. h[k] \o seqs[k + 1] \in Seq(S)
    BY <2>3, ConcatProperties
  <2> QED
    BY <2>1, <2>2, <2>4
<1> HIDE DEF T
<1>7. \A k \in 0 .. m : k \in T
  BY <1>5, <1>6, UpTo
<1>8. m \in 0 .. m
  OBVIOUS
<1> QED
  BY <1>3, <1>7, <1>8 DEF T

\* The course d is what a drop of the module at h makes of c.
DropResult(c, h, d) ==
  /\ d \in Seq(ModuleSpec) /\ Len(d) = Len(c) - 1 /\ Numbered(d)
  /\ \A p \in 1 .. Len(c) - 1 :
       LET m == c[IF p < h THEN p ELSE p + 1] IN
       /\ d[p].title = m.title
       /\ d[p].prerequisites = m.prerequisites \ {c[h].title, m.title}
       /\ d[p].capabilities = m.capabilities
       /\ d[p].mode = m.mode

LEMMA DropFacts ==
  ASSUME NEW c \in Seq(ModuleSpec), NEW i \in Indices(c)
  PROVE  i + 1 \in 1 .. Len(c) /\ DropResult(c, i + 1, DropModule(c, i))
<1> DEFINE h == i + 1
           rest == RemoveAt(c, h)
           gone == {c[h].title}
           remapped == [p \in DOMAIN rest |-> RemapPrerequisites(rest[p], <<>>, gone)]
           d == Renumber(remapped)
<1>1. Len(c) \in Nat /\ h \in 1 .. Len(c)
  BY DEF Indices
<1>2. DropModule(c, i) = d
  BY DEF DropModule
<1> HIDE DEF h
<1>3. /\ rest \in Seq(ModuleSpec)
      /\ Len(rest) = Len(c) - 1
      /\ \A p \in 1 .. Len(c) - 1 : rest[p] = c[IF p < h THEN p ELSE p + 1]
  BY <1>1, RemoveAtFacts
<1> HIDE DEF rest, gone
<1>4. DOMAIN rest = 1 .. Len(c) - 1
  BY <1>3
<1>5. ASSUME NEW p \in 1 .. Len(c) - 1
      PROVE  /\ remapped[p] \in ModuleSpec
             /\ remapped[p].title = rest[p].title
             /\ remapped[p].prerequisites = (rest[p].prerequisites \ gone) \ {rest[p].title}
             /\ remapped[p].capabilities = rest[p].capabilities
             /\ remapped[p].mode = rest[p].mode
  <2>1. rest[p] \in ModuleSpec /\ remapped[p] = RemapPrerequisites(rest[p], <<>>, gone)
    BY <1>3, <1>4
  <2>2. DOMAIN <<>> = {}
    OBVIOUS
  <2> HIDE DEF remapped
  <2>3. Remapped(rest[p], <<>>, gone) = (rest[p].prerequisites \ gone) \ {rest[p].title}
    BY <2>2 DEF Remapped
  <2> QED
    BY <2>1, <2>2, <2>3, RemapFacts
<1>6. remapped \in Seq(ModuleSpec) /\ Len(remapped) = Len(c) - 1
  <2>1. remapped \in [1 .. Len(c) - 1 -> ModuleSpec] /\ Len(c) - 1 \in Nat
    BY <1>1, <1>4, <1>5
  <2> HIDE DEF remapped
  <2> QED
    BY <2>1, FcnIsSeq
<1> HIDE DEF remapped
<1>7. /\ d \in Seq(ModuleSpec) /\ Len(d) = Len(c) - 1 /\ Numbered(d)
      /\ \A p \in 1 .. Len(c) - 1 :
           /\ d[p].title = remapped[p].title
           /\ d[p].prerequisites = remapped[p].prerequisites
           /\ d[p].capabilities = remapped[p].capabilities
           /\ d[p].mode = remapped[p].mode
  BY <1>6, RenumberFacts
<1> HIDE DEF d
<1>8. DropResult(c, h, d)
  <2> SUFFICES ASSUME NEW p \in 1 .. Len(c) - 1, NEW m, m = c[IF p < h THEN p ELSE p + 1]
               PROVE  /\ d[p].title = m.title
                      /\ d[p].prerequisites = m.prerequisites \ {c[h].title, m.title}
                      /\ d[p].capabilities = m.capabilities
                      /\ d[p].mode = m.mode
    BY <1>7 DEF DropResult
  <2>1. rest[p] = m
    BY <1>3
  <2>2. (m.prerequisites \ gone) \ {m.title} = m.prerequisites \ {c[h].title, m.title}
    BY DEF gone
  <2> QED
    BY <1>5, <1>7, <2>1, <2>2
<1> QED
  BY <1>1, <1>2, <1>8 DEF h

\* The course d is what joining all the modules of c makes of it.
SingleResult(c, d) ==
  /\ d \in Seq(ModuleSpec) /\ Len(d) = 1 /\ Numbered(d)
  /\ d[1].prerequisites = {}
  /\ d[1].capabilities = AllCapabilities(c)
  /\ d[1].mode = MergeModes({c[p].mode : p \in 1 .. Len(c)})

LEMMA ForceSingleFacts ==
  ASSUME NEW c \in Seq(ModuleSpec), Len(c) > 1
  PROVE  SingleResult(c, ForceSingle(c))
<1> DEFINE titles == [p \in 1 .. Len(c) |-> c[p].title]
           modes == {c[p].mode : p \in 1 .. Len(c)}
           whole == [title |-> FlattenSeq(titles), order |-> 0, prerequisites |-> {},
                     capabilities |-> AllCapabilities(c), mode |-> MergeModes(modes)]
<1>1. DOMAIN c = 1 .. Len(c) /\ Len(c) \in Nat /\ \A p \in 1 .. Len(c) : c[p] \in ModuleSpec
  OBVIOUS
<1>2. FlattenSeq(titles) \in Title
  <2>1. PICK m \in Nat : Len(c) = m + 1
    <3>1. Len(c) - 1 \in Nat /\ Len(c) = (Len(c) - 1) + 1
      BY <1>1
    <3> QED
      BY <3>1
  <2>2. titles \in [1 .. m + 1 -> Seq(Name)]
    BY <1>1, <2>1 DEF ModuleSpec, Title
  <2> HIDE DEF titles
  <2>3. Len(titles) = m + 1
    <3>1. m + 1 \in Nat
      OBVIOUS
    <3> QED
      BY <2>2, <3>1, FcnIsSeq
  <2> QED
    BY <2>2, <2>3, FlattenSeqType DEF Title
<1>3. AllCapabilities(c) \in SUBSET Capability
  BY <1>1 DEF AllCapabilities, ModuleSpec
<1>4. MergeModes(modes) \in LessonMode \cup {Undecided}
  <2>1. modes \in SUBSET (LessonMode \cup {Undecided})
    BY <1>1 DEF ModuleSpec
  <2>2. c[1].mode \in modes
    BY <1>1
  <2> HIDE DEF modes
  <2> QED
    BY <2>1, <2>2, MergeModesFacts
<1>5. ForceSingle(c) = <<whole>>
  <2>1. ~(Len(c) <= 1)
    BY <1>1
  <2> QED
    BY <1>1, <2>1, Zenon DEF ForceSingle
<1> HIDE DEF titles
<1>6. whole \in ModuleSpec
  <2> HIDE DEF modes
  <2> QED
    BY <1>2, <1>3, <1>4 DEF ModuleSpec
<1>7. /\ whole.order = 0 /\ whole.prerequisites = {}
      /\ whole.capabilities = AllCapabilities(c) /\ whole.mode = MergeModes(modes)
  OBVIOUS
<1> HIDE DEF whole
<1>8. <<whole>> \in Seq(ModuleSpec) /\ Len(<<whole>>) = 1 /\ <<whole>>[1] = whole
  BY <1>6
<1>9. Numbered(<<whole>>)
  BY <1>7, <1>8 DEF Numbered
<1> QED
  BY <1>5, <1>7, <1>8, <1>9 DEF SingleResult

\* The course d is what setting the mode of the module at h makes of c.
ModeResult(c, h, mode, d) ==
  /\ d \in Seq(ModuleSpec) /\ Len(d) = Len(c)
  /\ \A p \in 1 .. Len(c) :
       /\ d[p].title = c[p].title
       /\ d[p].order = c[p].order
       /\ d[p].prerequisites = c[p].prerequisites
       /\ d[p].capabilities = c[p].capabilities
       /\ d[p].mode = IF p = h THEN mode ELSE c[p].mode

LEMMA SetModeFacts ==
  ASSUME NEW c \in Seq(ModuleSpec), NEW i \in Indices(c), NEW mode \in LessonMode
  PROVE  i + 1 \in 1 .. Len(c) /\ ModeResult(c, i + 1, mode, SetMode(c, i, mode))
<1> DEFINE h == i + 1
           d == SetMode(c, i, mode)
<1>1. Len(c) \in Nat /\ DOMAIN c = 1 .. Len(c) /\ h \in 1 .. Len(c)
  BY DEF Indices
<1>2. d = [c EXCEPT ![h].mode = mode]
  BY DEF SetMode
<1> HIDE DEF d, h
<1>3. \A p \in 1 .. Len(c) : d[p] = IF p = h THEN [c[p] EXCEPT !.mode = mode] ELSE c[p]
  BY <1>1, <1>2
<1>4. ASSUME NEW p \in 1 .. Len(c)
      PROVE  /\ d[p] \in ModuleSpec
             /\ d[p].title = c[p].title
             /\ d[p].order = c[p].order
             /\ d[p].prerequisites = c[p].prerequisites
             /\ d[p].capabilities = c[p].capabilities
             /\ d[p].mode = IF p = h THEN mode ELSE c[p].mode
  <2>1. c[p] \in ModuleSpec
    OBVIOUS
  <2>2. CASE p = h
    <3>1. d[p] = [c[p] EXCEPT !.mode = mode]
      BY <1>3, <2>2
    <3> QED
      BY <2>1, <2>2, <3>1 DEF ModuleSpec
  <2>3. CASE p # h
    BY <1>3, <2>1, <2>3
  <2> QED
    BY <2>2, <2>3
<1>5. d \in [1 .. Len(c) -> ModuleSpec]
  <2>1. d = [p \in 1 .. Len(c) |-> d[p]]
    BY <1>1, <1>2
  <2> QED
    BY <1>4, <2>1
<1>6. d \in Seq(ModuleSpec) /\ Len(d) = Len(c)
  BY <1>1, <1>5, FcnIsSeq
<1>7. ModeResult(c, h, mode, d)
  BY <1>4, <1>6 DEF ModeResult
<1> QED
  BY <1>1, <1>7 DEF d, h

\* The course d is what a new order makes of c.
OrderResult(c, newOrder, d) ==
  /\ d \in Seq(ModuleSpec) /\ Len(d) = Len(c) /\ Numbered(d)
  /\ \A p \in 1 .. Len(c) :
       /\ newOrder[p] + 1 \in 1 .. Len(c)
       /\ d[p].title = c[newOrder[p] + 1].title
       /\ d[p].prerequisites = c[newOrder[p] + 1].prerequisites
       /\ d[p].capabilities = c[newOrder[p] + 1].capabilities
       /\ d[p].mode = c[newOrder[p] + 1].mode
  /\ \A o \in 1 .. Len(c) : \E p \in 1 .. Len(c) : newOrder[p] + 1 = o

LEMMA ReorderFacts ==
  ASSUME NEW c \in Seq(ModuleSpec), NEW newOrder \in Seq(Int),
         Len(newOrder) = Len(c), ToSet(newOrder) = Indices(c)
  PROVE  /\ OrderResult(c, newOrder, ReorderModules(c, newOrder))
         /\ Sequenced(c, newOrder) \in Seq(ModuleSpec)
         /\ Len(Sequenced(c, newOrder)) = Len(c)
         /\ \A p \in 1 .. Len(c) : Sequenced(c, newOrder)[p] = c[newOrder[p] + 1]
<1> DEFINE s == Sequenced(c, newOrder)
           d == ReorderModules(c, newOrder)
<1>1. Len(c) \in Nat /\ DOMAIN c = 1 .. Len(c) /\ DOMAIN newOrder = 1 .. Len(c)
  OBVIOUS
<1>2. ASSUME NEW p \in 1 .. Len(c) PROVE newOrder[p] \in 0 .. Len(c) - 1 /\ newOrder[p] + 1 \in 1 .. Len(c)
  <2>1. newOrder[p] \in ToSet(newOrder)
    BY <1>1 DEF ToSet
  <2>2. newOrder[p] \in 0 .. Len(c) - 1
    BY <2>1 DEF Indices
  <2> QED
    BY <1>1, <2>2
<1>3. s = [p \in 1 .. Len(c) |-> c[newOrder[p] + 1]]
  BY <1>1 DEF Sequenced
<1>4. \A p \in 1 .. Len(c) : s[p] = c[newOrder[p] + 1] /\ s[p] \in ModuleSpec
  BY <1>2, <1>3
<1>5. s \in [1 .. Len(c) -> ModuleSpec]
  BY <1>3, <1>4
<1> HIDE DEF s
<1>6. s \in Seq(ModuleSpec) /\ Len(s) = Len(c)
  BY <1>1, <1>5, FcnIsSeq
<1>7. d = Renumber(s)
  BY DEF ReorderModules, s
<1> HIDE DEF d
<1>8. /\ d \in Seq(ModuleSpec) /\ Len(d) = Len(c) /\ Numbered(d)
      /\ \A p \in 1 .. Len(c) :
           /\ d[p].title = s[p].title
           /\ d[p].prerequisites = s[p].prerequisites
           /\ d[p].capabilities = s[p].capabilities
           /\ d[p].mode = s[p].mode
  BY <1>6, <1>7, RenumberFacts
<1>9. ASSUME NEW o \in 1 .. Len(c) PROVE \E p \in 1 .. Len(c) : newOrder[p] + 1 = o
  <2>1. o - 1 \in Indices(c)
    BY <1>1 DEF Indices
  <2>2. PICK p \in 1 .. Len(c) : newOrder[p] = o - 1
    BY <1>1, <2>1 DEF ToSet
  <2>3. newOrder[p] + 1 = o
    BY <2>2
  <2> QED
    BY <2>3
<1>10. OrderResult(c, newOrder, d)
  BY <1>2, <1>4, <1>8, <1>9 DEF OrderResult
<1> QED
  BY <1>4, <1>6, <1>10 DEF d, s

(***************************************************************************)
(* The loop over the targets of a drop.                                    *)
(***************************************************************************)

\* What the loop keeps from round to round.
DropAcc == [ok : BOOLEAN, course : Seq(ModuleSpec), lost : SUBSET Capability]

DropStart(c, targets) == [ok |-> targets # <<>>, course |-> c, lost |-> {}]

LEMMA DropStepType ==
  ASSUME NEW a \in DropAcc, NEW t
  PROVE  /\ DropStep(a, t) \in DropAcc
         /\ DropStep(a, t).ok =>
              /\ a.ok /\ t \in Indices(a.course)
              /\ DropStep(a, t).course = DropModule(a.course, t)
              /\ DropStep(a, t).lost = a.lost \cup a.course[t + 1].capabilities
<1>1. a.ok \in BOOLEAN /\ a.course \in Seq(ModuleSpec) /\ a.lost \in SUBSET Capability
  BY DEF DropAcc
<1>2. CASE ~a.ok \/ t \notin Indices(a.course)
  <2>1. DropStep(a, t) = [a EXCEPT !.ok = FALSE]
    BY <1>2 DEF DropStep
  <2>2. [a EXCEPT !.ok = FALSE] \in DropAcc /\ [a EXCEPT !.ok = FALSE].ok = FALSE
    BY DEF DropAcc
  <2> QED
    BY <2>1, <2>2, Zenon
<1>3. CASE ~(~a.ok \/ t \notin Indices(a.course))
  <2> DEFINE d == DropModule(a.course, t)
             l == a.lost \cup a.course[t + 1].capabilities
  <2>1. DropStep(a, t) = [ok |-> TRUE, course |-> d, lost |-> l]
    BY <1>3, Zenon DEF DropStep, LostWith
  <2>2. t + 1 \in 1 .. Len(a.course) /\ d \in Seq(ModuleSpec)
    BY <1>1, <1>3, DropFacts DEF DropResult
  <2>3. a.course[t + 1] \in ModuleSpec
    BY <1>1, <2>2
  <2>4. l \in SUBSET Capability
    BY <1>1, <2>3 DEF ModuleSpec
  <2> HIDE DEF d, l
  <2>5. /\ [ok |-> TRUE, course |-> d, lost |-> l] \in DropAcc
        /\ [ok |-> TRUE, course |-> d, lost |-> l].course = d
        /\ [ok |-> TRUE, course |-> d, lost |-> l].lost = l
    BY <2>2, <2>4 DEF DropAcc
  <2> QED
    BY <1>3, <2>1, <2>5, Zenon DEF d, l
<1> QED
  BY <1>2, <1>3

\* The loop is defined, and keeps the types.
LEMMA DropLoopFacts ==
  ASSUME NEW c \in Seq(ModuleSpec), NEW targets \in Seq(Int)
  PROVE  /\ DropLoop(c, targets) \in [0 .. Len(targets) -> DropAcc]
         /\ DropLoop(c, targets)[0] = DropStart(c, targets)
         /\ \A k \in 1 .. Len(targets) :
              DropLoop(c, targets)[k] = DropStep(DropLoop(c, targets)[k - 1], DropOrder(targets)[k])
<1> DEFINE n == Len(targets)
           order == DropOrder(targets)
           start == DropStart(c, targets)
           Loops(f) == f = [k \in 0 .. n |-> IF k = 0 THEN start ELSE DropStep(f[k - 1], order[k])]
           step == [x \in (1 .. n) \X DropAcc |-> DropStep(x[2], order[x[1]])]
<1>1. n \in Nat
  OBVIOUS
<1>2. start \in DropAcc
  BY DEF DropStart, DropAcc
<1>3. DropLoop(c, targets) = CHOOSE f : Loops(f)
  BY DEF DropLoop, DropStart
<1> HIDE DEF n, order, start
<1>4. step \in [(1 .. n) \X DropAcc -> DropAcc]
  BY DropStepType
<1>5. \A k \in 1 .. n, a \in DropAcc : step[<<k, a>>] = DropStep(a, order[k])
  OBVIOUS
<1> HIDE DEF step
<1>6. CanRun(n, DropAcc, start, step)
  BY <1>1, <1>2, <1>4, LoopExists
<1>7. PICK g \in [0 .. n -> DropAcc] :
        g[0] = start /\ \A k \in 1 .. n : g[k] = step[<<k, g[k - 1]>>]
  BY <1>6 DEF CanRun
<1>8. ASSUME NEW k \in 0 .. n
      PROVE  g[k] = IF k = 0 THEN start ELSE DropStep(g[k - 1], order[k])
  <2>1. CASE k = 0
    BY <1>7, <2>1
  <2>2. CASE k # 0
    <3>1. k \in 1 .. n /\ g[k - 1] \in DropAcc
      BY <1>1, <2>2
    <3> QED
      BY <1>5, <1>7, <2>2, <3>1
  <2> QED
    BY <2>1, <2>2
<1>9. Loops(g)
  BY <1>8
<1>10. \A f : Loops(f) => f = g
  <2> SUFFICES ASSUME NEW f, Loops(f) PROVE f = g
    OBVIOUS
  <2> DEFINE T == {k \in 0 .. n : f[k] = g[k]}
  <2>0. f = [k \in 0 .. n |-> f[k]] /\ g = [k \in 0 .. n |-> g[k]]
    OBVIOUS
  <2>1. \A k \in 0 .. n : f[k] = IF k = 0 THEN start ELSE DropStep(f[k - 1], order[k])
    OBVIOUS
  <2> HIDE DEF Loops
  <2>2. 0 \in T
    BY <1>1, <1>7, <2>1
  <2>3. ASSUME NEW k \in 1 .. n, k - 1 \in T PROVE k \in T
    <3>1. k \in 0 .. n /\ k # 0
      BY <1>1
    <3>2. f[k] = DropStep(f[k - 1], order[k])
      BY <2>1, <3>1
    <3>3. g[k] = DropStep(g[k - 1], order[k])
      BY <1>8, <3>1
    <3>4. f[k - 1] = g[k - 1]
      BY <2>3
    <3> QED
      BY <3>1, <3>2, <3>3, <3>4
  <2>4. \A k \in 0 .. n : k \in T
    <3> HIDE DEF T
    <3> QED
      BY <1>1, <2>2, <2>3, UpTo
  <2>5. \A k \in 0 .. n : f[k] = g[k]
    BY <2>4
  <2> QED
    BY <2>0, <2>5
<1>11. DropLoop(c, targets) = g
  BY <1>3, <1>9, <1>10
<1>12. \A k \in 1 .. n : g[k] = DropStep(g[k - 1], order[k])
  <2> SUFFICES ASSUME NEW k \in 1 .. n PROVE g[k] = DropStep(g[k - 1], order[k])
    OBVIOUS
  <2>1. k \in 0 .. n /\ k # 0
    BY <1>1
  <2> QED
    BY <1>8, <2>1
<1> QED
  BY <1>7, <1>11, <1>12 DEF n, order, start

\* What any number of drops keeps of c.
DropsOnly(c, d, lost) ==
  /\ Numbered(c) => Numbered(d)
  /\ Titles(d) \subseteq Titles(c)
  /\ AllCapabilities(c) \ AllCapabilities(d) \subseteq lost
  /\ Dangling(d) \subseteq Dangling(c)
  /\ BuildsOnItself(c) = {} => BuildsOnItself(d) = {}
  /\ InOrder(c) => InOrder(d)

LEMMA DropsOnlyOne ==
  ASSUME NEW c \in Seq(ModuleSpec), NEW h \in 1 .. Len(c), NEW d, DropResult(c, h, d)
  PROVE  DropsOnly(c, d, c[h].capabilities)
<1> DEFINE from(p) == IF p < h THEN p ELSE p + 1
<1>1. Len(c) \in Nat /\ DOMAIN c = 1 .. Len(c) /\ DOMAIN d = 1 .. Len(c) - 1
  BY DEF DropResult
<1>2. \A p \in 1 .. Len(c) - 1 :
        /\ d[p].title = c[from(p)].title
        /\ d[p].prerequisites = c[from(p)].prerequisites \ {c[h].title, c[from(p)].title}
        /\ d[p].capabilities = c[from(p)].capabilities
  BY DEF DropResult
<1>3. \A p \in 1 .. Len(c) - 1 : from(p) \in 1 .. Len(c)
  BY <1>1
<1>4. \A p, q \in 1 .. Len(c) - 1 : from(q) < from(p) => q < p
  BY <1>1
<1>5. ASSUME NEW o \in 1 .. Len(c), o # h PROVE \E p \in 1 .. Len(c) - 1 : from(p) = o
  <2>1. CASE o < h
    <3>1. o \in 1 .. Len(c) - 1 /\ from(o) = o
      BY <1>1, <2>1
    <3> QED
      BY <3>1
  <2>2. CASE ~(o < h)
    <3>1. o - 1 \in 1 .. Len(c) - 1 /\ from(o - 1) = o
      BY <1>1, <1>5, <2>2
    <3> QED
      BY <3>1
  <2> QED
    BY <2>1, <2>2
<1> HIDE DEF from
<1>6. Numbered(d)
  BY DEF DropResult
<1>7. Titles(d) \subseteq Titles(c)
  BY <1>1, <1>2, <1>3 DEF Titles
<1>8. AllCapabilities(c) \ AllCapabilities(d) \subseteq c[h].capabilities
  <2> SUFFICES ASSUME NEW o \in 1 .. Len(c), NEW x \in c[o].capabilities, o # h
               PROVE  x \in AllCapabilities(d)
    BY <1>1 DEF AllCapabilities
  <2>1. PICK p \in 1 .. Len(c) - 1 : from(p) = o
    BY <1>5
  <2> QED
    BY <1>1, <1>2, <2>1 DEF AllCapabilities
<1>9. Dangling(d) \subseteq Dangling(c)
  <2> SUFFICES ASSUME NEW t \in Dangling(d) PROVE t \in Dangling(c)
    OBVIOUS
  <2>0. PICK p \in 1 .. Len(c) - 1 : t \in d[p].prerequisites
    BY <1>1 DEF Dangling
  <2>1. t \in c[from(p)].prerequisites /\ t # c[h].title /\ from(p) \in DOMAIN c
    BY <1>1, <1>2, <1>3, <2>0
  <2>2. ASSUME NEW o \in 1 .. Len(c), c[o].title = t PROVE FALSE
    <3>1. o # h
      BY <2>1, <2>2
    <3>2. PICK q \in 1 .. Len(c) - 1 : from(q) = o
      BY <1>5, <3>1
    <3>3. d[q].title = t
      BY <1>2, <2>2, <3>2
    <3>4. t \in Titles(d)
      BY <1>1, <3>3 DEF Titles
    <3> QED
      BY <3>4 DEF Dangling
  <2>3. t \notin Titles(c)
    BY <1>1, <2>2 DEF Titles
  <2> QED
    BY <2>1, <2>3 DEF Dangling
<1>10. BuildsOnItself(d) = {}
  BY <1>1, <1>2 DEF BuildsOnItself
<1>11. ASSUME InOrder(c) PROVE InOrder(d)
  <2> SUFFICES ASSUME NEW p \in 1 .. Len(c) - 1, NEW q \in 1 .. Len(c) - 1,
                      d[q].title \in d[p].prerequisites
               PROVE  q < p
    BY <1>1 DEF InOrder
  <2>1. c[from(q)].title \in c[from(p)].prerequisites
    BY <1>2
  <2>2. from(q) < from(p)
    BY <1>1, <1>3, <1>11, <2>1 DEF InOrder
  <2> QED
    BY <1>4, <2>2
<1> QED
  BY <1>6, <1>7, <1>8, <1>9, <1>10, <1>11 DEF DropsOnly

\* A drop of all its targets is as many drops of one.
LEMMA DropAllFacts ==
  ASSUME NEW c \in Seq(ModuleSpec), NEW targets \in Seq(Int), DropAll(c, targets).ok
  PROVE  /\ DropAll(c, targets).course \in Seq(ModuleSpec)
         /\ DropAll(c, targets).lost \in SUBSET Capability
         /\ DropsOnly(c, DropAll(c, targets).course, DropAll(c, targets).lost)
<1> DEFINE n == Len(targets)
           acc == DropLoop(c, targets)
           T == {k \in 0 .. n : acc[k].ok => DropsOnly(c, acc[k].course, acc[k].lost)}
<1>1. n \in Nat /\ n \in 0 .. n
  OBVIOUS
<1>2. /\ acc \in [0 .. n -> DropAcc]
      /\ acc[0] = DropStart(c, targets)
      /\ \A k \in 1 .. n : acc[k] = DropStep(acc[k - 1], DropOrder(targets)[k])
  BY DropLoopFacts
<1>3. DropAll(c, targets) = acc[n]
  BY DEF DropAll
<1> HIDE DEF acc, n
<1>4. 0 \in T
  <2>1. acc[0].course = c
    BY <1>2 DEF DropStart
  <2>2. DropsOnly(c, c, acc[0].lost)
    BY DEF DropsOnly
  <2> QED
    BY <1>1, <2>1, <2>2
<1>5. ASSUME NEW k \in 1 .. n, k - 1 \in T PROVE k \in T
  <2>1. k \in 0 .. n
    BY <1>1
  <2> SUFFICES ASSUME acc[k].ok PROVE DropsOnly(c, acc[k].course, acc[k].lost)
    BY <2>1
  <2> DEFINE a == acc[k - 1]
             b == acc[k]
             t == DropOrder(targets)[k]
  <2>2. a \in DropAcc
    <3>1. k - 1 \in 0 .. n
      BY <1>1
    <3> QED
      BY <1>2, <3>1
  <2>3. b = DropStep(a, t)
    BY <1>2
  <2>9. b.ok
    OBVIOUS
  <2> HIDE DEF a, b, t
  <2>4. /\ a.ok /\ t \in Indices(a.course)
        /\ b.course = DropModule(a.course, t)
        /\ b.lost = a.lost \cup a.course[t + 1].capabilities
    BY <2>2, <2>3, <2>9, DropStepType
  <2>5. DropsOnly(c, a.course, a.lost)
    BY <1>5, <2>4 DEF a
  <2>6. a.course \in Seq(ModuleSpec)
    BY <2>2 DEF DropAcc
  <2>7. DropsOnly(a.course, b.course, a.course[t + 1].capabilities)
    <3>1. t + 1 \in 1 .. Len(a.course) /\ DropResult(a.course, t + 1, b.course)
      BY <2>4, <2>6, DropFacts
    <3> QED
      BY <2>6, <3>1, DropsOnlyOne
  <2>8. DropsOnly(c, b.course, b.lost)
    BY <2>4, <2>5, <2>7 DEF DropsOnly
  <2> QED
    BY <2>8 DEF b
<1> HIDE DEF T
<1>6. \A k \in 0 .. n : k \in T
  BY <1>1, <1>4, <1>5, UpTo
<1>7. acc[n].ok => DropsOnly(c, acc[n].course, acc[n].lost)
  BY <1>1, <1>6 DEF T
<1>8. acc[n] \in DropAcc
  BY <1>1, <1>2
<1>9. acc[n].course \in Seq(ModuleSpec) /\ acc[n].lost \in SUBSET Capability
  BY <1>8 DEF DropAcc
<1> QED
  BY <1>3, <1>7, <1>9

(***************************************************************************)
(* One edit of the gate.                                                   *)
(***************************************************************************)

\* The plan d and the warning w are what the intent i makes of the plan c.
EditResult(c, i, d, w) ==
  \/ /\ i.op = "set_mode" /\ w = {}
     /\ \E h \in 1 .. Len(c), mode \in LessonMode : ModeResult(c, h, mode, d)
  \/ /\ i.op = "merge" /\ w = {}
     /\ \E lo, hi \in 1 .. Len(c) :
          /\ lo < hi
          /\ hi # lo + 1 => i.targets[1] - i.targets[2] \notin {-1, 1}
          /\ MergeResult(c, lo, hi, d)
  \/ /\ i.op = "drop" /\ w \subseteq Capability
     /\ d \in Seq(ModuleSpec) /\ DropsOnly(c, d, w)
  \/ /\ i.op = "force_single" /\ w = {}
     /\ d = c \/ SingleResult(c, d)
  \/ /\ i.op = "reorder" /\ w = {}
     /\ OrderResult(c, i.targets, d)
     /\ PrerequisitesAllow(Sequenced(c, i.targets))
     /\ Sequenced(c, i.targets) \in Seq(ModuleSpec)
     /\ Len(Sequenced(c, i.targets)) = Len(c)
     /\ \A p \in 1 .. Len(c) : Sequenced(c, i.targets)[p] = c[i.targets[p] + 1]

LEMMA EditFacts ==
  ASSUME NEW c \in Seq(ModuleSpec), NEW i \in Intent, Applies(c, i)
  PROVE  EditResult(c, i, ApplyStructural(c, i), WarnedOf(c, i))
<1> DEFINE d == ApplyStructural(c, i)
           w == WarnedOf(c, i)
           ts == i.targets
<1>1. ts \in Seq(Int) /\ i.word \in LessonMode \cup {Undecided} /\ i.op \in StructuralOp
  BY DEF Intent
<1>2. i.op # "drop" => w = {}
  BY DEF WarnedOf
<1>3. CASE i.op = "set_mode"
  <2>1. ts[1] \in Indices(c) /\ i.word \in LessonMode
    BY <1>3 DEF Applies
  <2>2. d = SetMode(c, ts[1], i.word)
    BY <1>3 DEF ApplyStructural
  <2> HIDE DEF d, w, ts
  <2>3. ts[1] + 1 \in 1 .. Len(c) /\ ModeResult(c, ts[1] + 1, i.word, d)
    BY <2>1, <2>2, SetModeFacts
  <2> QED
    BY <1>2, <1>3, <2>1, <2>3 DEF EditResult, d, w
<1>4. CASE i.op = "merge"
  <2>1. Len(ts) = 2 /\ ToSet(ts) \subseteq Indices(c) /\ ts[1] # ts[2]
    BY <1>4 DEF Applies
  <2>2. d = MergeModules(c, ts[1], ts[2])
    BY <1>4 DEF ApplyStructural
  <2>3. DOMAIN ts = 1 .. 2
    BY <1>1, <2>1
  <2>4. ts[1] \in Indices(c) /\ ts[2] \in Indices(c)
    BY <2>1, <2>3 DEF ToSet
  <2> HIDE DEF d, w, ts
  <2>5. PICK lo, hi \in 1 .. Len(c) :
          /\ lo < hi
          /\ (lo = ts[1] + 1 /\ hi = ts[2] + 1) \/ (lo = ts[2] + 1 /\ hi = ts[1] + 1)
          /\ MergeResult(c, lo, hi, d)
    BY <2>1, <2>2, <2>4, MergeFacts
  <2>6. hi # lo + 1 => ts[1] - ts[2] \notin {-1, 1}
    BY <2>4, <2>5 DEF Indices
  <2> QED
    BY <1>2, <1>4, <2>5, <2>6 DEF EditResult, d, w, ts
<1>5. CASE i.op = "drop"
  <2>1. DropAll(c, ts).ok
    BY <1>5 DEF Applies
  <2>2. d = DropAll(c, ts).course
    BY <1>5 DEF ApplyStructural
  <2>3. w = DropAll(c, ts).lost
    BY <1>5 DEF WarnedOf
  <2>4. d \in Seq(ModuleSpec) /\ w \subseteq Capability /\ DropsOnly(c, d, w)
    BY <1>1, <2>1, <2>2, <2>3, DropAllFacts
  <2> QED
    BY <1>5, <2>4 DEF EditResult
<1>6. CASE i.op = "force_single"
  <2>1. d = ForceSingle(c)
    BY <1>6 DEF ApplyStructural
  <2>2. CASE Len(c) <= 1
    <3>1. d = c
      BY <2>1, <2>2 DEF ForceSingle
    <3> QED
      BY <1>2, <1>6, <3>1 DEF EditResult
  <2>3. CASE ~(Len(c) <= 1)
    <3>1. Len(c) > 1
      BY <2>3
    <3>2. SingleResult(c, d)
      BY <2>1, <3>1, ForceSingleFacts
    <3> QED
      BY <1>2, <1>6, <3>2 DEF EditResult
  <2> QED
    BY <2>2, <2>3
<1>7. CASE i.op = "reorder"
  <2>1. Len(ts) = Len(c) /\ ToSet(ts) = Indices(c) /\ PrerequisitesAllow(Sequenced(c, ts))
    BY <1>7 DEF Applies, CanReorder
  <2>2. d = ReorderModules(c, ts)
    BY <1>7 DEF ApplyStructural
  <2>3. /\ OrderResult(c, ts, d)
        /\ Sequenced(c, ts) \in Seq(ModuleSpec)
        /\ Len(Sequenced(c, ts)) = Len(c)
        /\ \A p \in 1 .. Len(c) : Sequenced(c, ts)[p] = c[ts[p] + 1]
    <3> HIDE DEF d, ts
    <3> QED
      BY <1>1, <2>1, <2>2, ReorderFacts
  <2> QED
    BY <1>2, <1>7, <2>1, <2>3 DEF EditResult
<1> QED
  BY <1>1, <1>3, <1>4, <1>5, <1>6, <1>7 DEF StructuralOp

\* Every edit makes a plan of a plan.
LEMMA EditType ==
  ASSUME NEW c \in Seq(ModuleSpec), NEW i, NEW d, NEW w, EditResult(c, i, d, w)
  PROVE  d \in Seq(ModuleSpec) /\ (Numbered(c) => Numbered(d)) /\ w \subseteq Capability
<1>1. CASE \E h \in 1 .. Len(c), mode \in LessonMode : ModeResult(c, h, mode, d) /\ w = {}
  <2>1. d \in Seq(ModuleSpec) /\ Len(d) = Len(c) /\ \A p \in 1 .. Len(c) : d[p].order = c[p].order
    BY <1>1 DEF ModeResult
  <2>2. DOMAIN d = 1 .. Len(c) /\ DOMAIN c = 1 .. Len(c)
    BY <2>1
  <2> QED
    BY <1>1, <2>1, <2>2 DEF Numbered
<1>2. CASE \E lo, hi \in 1 .. Len(c) : MergeResult(c, lo, hi, d) /\ w = {}
  BY <1>2 DEF MergeResult
<1>3. CASE d \in Seq(ModuleSpec) /\ DropsOnly(c, d, w) /\ w \subseteq Capability
  BY <1>3 DEF DropsOnly
<1>4. CASE (d = c \/ SingleResult(c, d)) /\ w = {}
  BY <1>4 DEF SingleResult
<1>5. CASE OrderResult(c, i.targets, d) /\ w = {}
  BY <1>5 DEF OrderResult
<1> QED
  BY <1>1, <1>2, <1>3, <1>4, <1>5 DEF EditResult

LEMMA AdjustApplies ==
  ASSUME NEW op \in StructuralOp, Adjust(op)
  PROVE  /\ intent' \in Intent
         /\ Applies(course, intent')
         /\ course' = ApplyStructural(course, intent')
         /\ warned' = WarnedOf(course, intent')
<1>1. PICK i \in IntentsFor(op) :
        /\ Applies(course, i)
        /\ course' = ApplyStructural(course, i)
        /\ warned' = WarnedOf(course, i)
        /\ intent' = i
  BY DEF Adjust
<1>2. i \in Intent
  BY TargetListAssumption DEF IntentsFor, Intent
<1> QED
  BY <1>1, <1>2

LEMMA AdjustEdits ==
  ASSUME GateTypeOK, NEW op \in StructuralOp, Adjust(op)
  PROVE  intent' \in Intent /\ EditResult(course, intent', course', warned')
<1>1. course \in Seq(ModuleSpec)
  BY DEF GateTypeOK
<1> QED
  BY <1>1, AdjustApplies, EditFacts

\* A plan the planner answers is a numbered sequence of modules.
LEMMA PlanFacts ==
  ASSUME NEW c \in Plan PROVE c \in Seq(ModuleSpec) /\ Numbered(c)
BY PlanAssumption, ParsedPlanAssumption

(***************************************************************************)
(* The gate.                                                               *)
(***************************************************************************)

\* The plan on screen is always a sequence of modules numbered by position,
\* whatever the planner answers and whatever is merged, dropped, reordered.
THEOREM GateTypeCorrect == GateSpec => []GateTypeOK
<1>1. GateInit => GateTypeOK
  BY RoundsAssumption DEF GateInit, GateTypeOK, Phase, Numbered
<1>2. GateTypeOK /\ [GateNext]_gateVars => GateTypeOK'
  <2> SUFFICES ASSUME GateTypeOK, [GateNext]_gateVars PROVE GateTypeOK'
    OBVIOUS
  <2>0. /\ phase \in Phase /\ course \in Seq(ModuleSpec) /\ Numbered(course)
        /\ rounds \in 0 .. MaxRounds /\ MaxRounds \in Nat
        /\ intent = NoIntent \/ intent \in Intent
        /\ warned \subseteq Capability
    BY RoundsAssumption DEF GateTypeOK
  <2>1. CASE MakePlan
    BY <2>0, <2>1, PlanFacts DEF MakePlan, GateTypeOK, Phase
  <2>2. CASE PlanningFails
    BY <2>0, <2>2 DEF PlanningFails, GateTypeOK, Phase
  <2>3. CASE Preflight
    BY <2>0, <2>3, PlanFacts DEF Preflight, GateTypeOK, Phase
  <2>4. CASE EndOfInput
    BY <2>0, <2>4 DEF EndOfInput, GateTypeOK, Phase
  <2>5. CASE Decide
    BY <2>0, <2>5 DEF Decide, Round, GateTypeOK, Phase
  <2>6. CASE Replan
    BY <2>0, <2>6, PlanFacts DEF Replan, Round, GateTypeOK
  <2>7. CASE CannotApply
    BY <2>0, <2>7 DEF CannotApply, Round, GateTypeOK
  <2>8. CASE RoundLimit
    BY <2>0, <2>8 DEF RoundLimit, GateTypeOK, Phase
  <2>9. CASE \E op \in StructuralOp : Adjust(op)
    <3>1. PICK op \in StructuralOp : Adjust(op)
      BY <2>9
    <3>2. intent' \in Intent /\ EditResult(course, intent', course', warned')
      BY <3>1, AdjustEdits
    <3>3. course' \in Seq(ModuleSpec) /\ Numbered(course') /\ warned' \subseteq Capability
      BY <2>0, <3>2, EditType
    <3>4. phase' = phase /\ rounds' \in 0 .. MaxRounds
      BY <2>0, <3>1 DEF Adjust, Round
    <3>5. Numbered(course)'
      BY <3>3 DEF Numbered
    <3> QED
      BY <2>0, <3>2, <3>3, <3>4, <3>5 DEF GateTypeOK
  <2>10. CASE BuildConfirmed
    BY <2>0, <2>10 DEF BuildConfirmed, GateTypeOK, Phase
  <2>11. CASE UNCHANGED gateVars
    BY <2>0, <2>11 DEF gateVars, GateTypeOK, Numbered
  <2> QED
    BY <2>1, <2>2, <2>3, <2>4, <2>5, <2>6, <2>7, <2>8, <2>9, <2>10, <2>11 DEF GateNext
<1> QED
  BY <1>1, <1>2, PTL DEF GateSpec

\* Only a structural edit looks like one.
LEMMA EditsAreAdjustments ==
  ASSUME GateTypeOK, [GateNext]_gateVars, Edits
  PROVE  \E op \in StructuralOp : Adjust(op)
<1>1. intent' # NoIntent
  BY DEF Edits, NoIntent, Intent, StructuralOp
<1>2. phase' = "gate" /\ rounds' > rounds /\ rounds \in Nat
  BY RoundsAssumption DEF Edits, GateTypeOK
<1>3. rounds' # rounds
  BY <1>2
<1> QED
  BY <1>1, <1>2, <1>3 DEF GateNext, gateVars, MakePlan, PlanningFails, Preflight, EndOfInput,
                         Decide, Replan, CannotApply, RoundLimit, BuildConfirmed

LEMMA EditsResult ==
  ASSUME GateTypeOK, [GateNext]_gateVars, Edits
  PROVE  EditResult(course, intent', course', warned')
BY EditsAreAdjustments, AdjustEdits

(***************************************************************************)
(* What a merge changes.                                                   *)
(***************************************************************************)

\* Where a module stood before the one at h left.
From(p, h) == IF p < h THEN p ELSE p + 1

LEMMA FromFacts ==
  ASSUME NEW n \in Nat, NEW lo \in 1 .. n, NEW hi \in 1 .. n, lo < hi
  PROVE  /\ lo \in 1 .. n - 1
         /\ \A p \in 1 .. n - 1 : p # lo =>
              From(p, hi) \in 1 .. n /\ From(p, hi) # lo /\ From(p, hi) # hi
         /\ \A o \in 1 .. n : o # lo /\ o # hi =>
              \E p \in 1 .. n - 1 : p # lo /\ From(p, hi) = o
         /\ \A p, q \in 1 .. n - 1 : From(q, hi) < From(p, hi) => q < p
<1>1. lo \in 1 .. n - 1
  OBVIOUS
<1>2. \A p \in 1 .. n - 1 : p # lo =>
        From(p, hi) \in 1 .. n /\ From(p, hi) # lo /\ From(p, hi) # hi
  BY DEF From
<1>3. ASSUME NEW o \in 1 .. n, o # lo, o # hi
      PROVE  \E p \in 1 .. n - 1 : p # lo /\ From(p, hi) = o
  <2>1. CASE o < hi
    <3>1. o \in 1 .. n - 1 /\ From(o, hi) = o
      BY <2>1 DEF From
    <3> QED
      BY <1>3, <3>1
  <2>2. CASE ~(o < hi)
    <3>1. o - 1 \in 1 .. n - 1 /\ From(o - 1, hi) = o /\ o - 1 # lo
      BY <1>3, <2>2 DEF From
    <3> QED
      BY <3>1
  <2> QED
    BY <2>1, <2>2
<1>4. \A p, q \in 1 .. n - 1 : From(q, hi) < From(p, hi) => q < p
  BY DEF From
<1> QED
  BY <1>1, <1>2, <1>3, <1>4

\* The merge of lo and hi, module by module: the joined one builds on what
\* either built on, the others name it where they named one of the two.
MergeShape(c, lo, hi, d) ==
  /\ DOMAIN d = 1 .. Len(c) - 1
  /\ d[lo].title = c[lo].title \o c[hi].title
  /\ \A t \in d[lo].prerequisites :
       /\ t # c[lo].title /\ t # c[hi].title
       /\ t \in c[lo].prerequisites \/ t \in c[hi].prerequisites
  /\ \A p \in 1 .. Len(c) - 1 : p # lo => d[p].title = c[From(p, hi)].title
  /\ \A p \in 1 .. Len(c) - 1 : p # lo => \A t \in d[p].prerequisites :
       /\ t # c[From(p, hi)].title
       /\ \/ /\ t = c[lo].title \o c[hi].title
             /\ \/ c[lo].title \in c[From(p, hi)].prerequisites
                \/ c[hi].title \in c[From(p, hi)].prerequisites
          \/ /\ t \in c[From(p, hi)].prerequisites
             /\ t # c[lo].title /\ t # c[hi].title

LEMMA MergeParts ==
  ASSUME NEW c \in Seq(ModuleSpec), NEW lo \in 1 .. Len(c), NEW hi \in 1 .. Len(c), lo < hi,
         NEW d, MergeResult(c, lo, hi, d)
  PROVE  MergeShape(c, lo, hi, d)
<1> DEFINE joined == c[lo].title \o c[hi].title
           rename == [t \in {c[lo].title, c[hi].title} |-> joined]
<1>1. Len(c) \in Nat /\ DOMAIN d = 1 .. Len(c) - 1
  <2>1. Len(c) \in Nat /\ Len(c) - 1 \in Nat
    OBVIOUS
  <2>2. d \in Seq(ModuleSpec) /\ Len(d) = Len(c) - 1
    BY DEF MergeResult
  <2> QED
    BY <2>1, <2>2
<1>2. /\ d[lo].title = joined
      /\ d[lo].prerequisites =
           (c[lo].prerequisites \cup c[hi].prerequisites) \ {c[lo].title, c[hi].title}
  BY Zenon DEF MergeResult
<1>3. ASSUME NEW p \in 1 .. Len(c) - 1, p # lo
      PROVE  /\ d[p].title = c[From(p, hi)].title
             /\ d[p].prerequisites = Remapped(c[From(p, hi)], rename, {})
  BY <1>3, Zenon DEF MergeResult, From
<1>4. ASSUME NEW m, NEW t \in Remapped(m, rename, {})
      PROVE  /\ t # m.title
             /\ \/ t = joined /\ (c[lo].title \in m.prerequisites \/ c[hi].title \in m.prerequisites)
                \/ t \in m.prerequisites /\ t # c[lo].title /\ t # c[hi].title
  <2>1. PICK s \in m.prerequisites \ {} : t = IF s \in DOMAIN rename THEN rename[s] ELSE s
    BY Zenon DEF Remapped
  <2>2. t # m.title
    BY DEF Remapped
  <2>3. DOMAIN rename = {c[lo].title, c[hi].title} /\ \A x \in DOMAIN rename : rename[x] = joined
    OBVIOUS
  <2> HIDE DEF rename, joined
  <2> QED
    BY <2>1, <2>2, <2>3
<1>5. \A t \in d[lo].prerequisites :
        /\ t # c[lo].title /\ t # c[hi].title
        /\ t \in c[lo].prerequisites \/ t \in c[hi].prerequisites
  BY <1>2
<1> HIDE DEF rename, joined
<1>6. ASSUME NEW p \in 1 .. Len(c) - 1, p # lo, NEW t \in d[p].prerequisites
      PROVE  /\ t # c[From(p, hi)].title
             /\ \/ /\ t = joined
                   /\ \/ c[lo].title \in c[From(p, hi)].prerequisites
                      \/ c[hi].title \in c[From(p, hi)].prerequisites
                \/ /\ t \in c[From(p, hi)].prerequisites
                   /\ t # c[lo].title /\ t # c[hi].title
  <2>1. t \in Remapped(c[From(p, hi)], rename, {})
    BY <1>3, <1>6
  <2> QED
    BY <1>4, <2>1
<1> QED
  BY <1>1, <1>2, <1>3, <1>5, <1>6, Zenon DEF MergeShape, joined

(***************************************************************************)
(* Nothing is lost unsaid.                                                 *)
(***************************************************************************)

LEMMA EditKeepsCapabilities ==
  ASSUME NEW c \in Seq(ModuleSpec), NEW i, NEW d, NEW w, EditResult(c, i, d, w)
  PROVE  AllCapabilities(c) \ AllCapabilities(d) \subseteq w
<1>1. DOMAIN c = 1 .. Len(c) /\ Len(c) \in Nat
  OBVIOUS
<1>2. CASE \E h \in 1 .. Len(c), mode \in LessonMode : ModeResult(c, h, mode, d)
  <2>1. d \in Seq(ModuleSpec) /\ Len(d) = Len(c)
        /\ \A p \in 1 .. Len(c) : d[p].capabilities = c[p].capabilities
    BY <1>2 DEF ModeResult
  <2>2. AllCapabilities(c) \subseteq AllCapabilities(d)
    BY <1>1, <2>1 DEF AllCapabilities
  <2> QED
    BY <2>2
<1>3. CASE \E lo, hi \in 1 .. Len(c) : lo < hi /\ MergeResult(c, lo, hi, d)
  <2>1. PICK lo, hi \in 1 .. Len(c) : lo < hi /\ MergeResult(c, lo, hi, d)
    BY <1>3
  <2>2. DOMAIN d = 1 .. Len(c) - 1
    <3>1. MergeShape(c, lo, hi, d)
      BY <2>1, MergeParts
    <3> QED
      BY <3>1 DEF MergeShape
  <2>3. /\ d[lo].capabilities = c[lo].capabilities \cup c[hi].capabilities
        /\ \A p \in 1 .. Len(c) - 1 : p # lo => d[p].capabilities = c[From(p, hi)].capabilities
    BY <2>1, Zenon DEF MergeResult, From
  <2>4. /\ lo \in 1 .. Len(c) - 1
        /\ \A o \in 1 .. Len(c) : o # lo /\ o # hi =>
             \E p \in 1 .. Len(c) - 1 : p # lo /\ From(p, hi) = o
    BY <1>1, <2>1, FromFacts
  <2>5. ASSUME NEW o \in 1 .. Len(c), NEW x \in c[o].capabilities PROVE x \in AllCapabilities(d)
    <3>1. CASE o = lo \/ o = hi
      <4>1. x \in d[lo].capabilities
        BY <2>3, <3>1
      <4> QED
        BY <2>2, <2>4, <4>1 DEF AllCapabilities
    <3>2. CASE o # lo /\ o # hi
      <4>1. PICK p \in 1 .. Len(c) - 1 : p # lo /\ From(p, hi) = o
        BY <2>4, <3>2
      <4>2. x \in d[p].capabilities
        BY <2>3, <4>1
      <4> QED
        BY <2>2, <4>2 DEF AllCapabilities
    <3> QED
      BY <3>1, <3>2
  <2>6. AllCapabilities(c) \subseteq AllCapabilities(d)
    BY <1>1, <2>5 DEF AllCapabilities
  <2> QED
    BY <2>6
<1>4. CASE DropsOnly(c, d, w)
  BY <1>4 DEF DropsOnly
<1>5. CASE d = c
  BY <1>5
<1>6. CASE SingleResult(c, d)
  <2>1. d \in Seq(ModuleSpec) /\ Len(d) = 1 /\ d[1].capabilities = AllCapabilities(c)
    BY <1>6 DEF SingleResult
  <2>2. 1 \in DOMAIN d
    BY <2>1
  <2>3. AllCapabilities(c) \subseteq AllCapabilities(d)
    BY <2>1, <2>2 DEF AllCapabilities
  <2> QED
    BY <2>3
<1>7. CASE OrderResult(c, i.targets, d)
  <2>1. d \in Seq(ModuleSpec) /\ Len(d) = Len(c)
    BY <1>7 DEF OrderResult
  <2>2. DOMAIN d = 1 .. Len(c)
    BY <2>1
  <2>3. ASSUME NEW o \in 1 .. Len(c), NEW x \in c[o].capabilities PROVE x \in AllCapabilities(d)
    <3>1. PICK p \in 1 .. Len(c) : i.targets[p] + 1 = o
      BY <1>7 DEF OrderResult
    <3>2. d[p].capabilities = c[o].capabilities
      BY <1>7, <3>1 DEF OrderResult
    <3> QED
      BY <2>2, <3>2 DEF AllCapabilities
  <2>4. AllCapabilities(c) \subseteq AllCapabilities(d)
    BY <1>1, <2>3 DEF AllCapabilities
  <2> QED
    BY <2>4
<1> QED
  BY <1>2, <1>3, <1>4, <1>5, <1>6, <1>7 DEF EditResult

\* Whatever a merge, a drop of any list of targets, or another edit takes out of
\* what the plan covers is named in the warning shown for it.
THEOREM LossIsWarnedHolds == GateSpec => LossIsWarned
<1>1. GateTypeOK /\ [GateNext]_gateVars =>
        (Edits => AllCapabilities(course) \ AllCapabilities(course') \subseteq warned')
  <2> SUFFICES ASSUME GateTypeOK, [GateNext]_gateVars, Edits
               PROVE  AllCapabilities(course) \ AllCapabilities(course') \subseteq warned'
    OBVIOUS
  <2>1. EditResult(course, intent', course', warned')
    BY EditsResult
  <2>2. course \in Seq(ModuleSpec)
    BY DEF GateTypeOK
  <2> QED
    BY <2>1, <2>2, EditKeepsCapabilities
<1> QED
  BY <1>1, GateTypeCorrect, PTL DEF GateSpec, LossIsWarned

(***************************************************************************)
(* References stay true.                                                   *)
(***************************************************************************)

LEMMA MergeDanglesNothing ==
  ASSUME NEW c \in Seq(ModuleSpec), NEW lo \in 1 .. Len(c), NEW hi \in 1 .. Len(c), lo < hi,
         NEW d, MergeResult(c, lo, hi, d)
  PROVE  /\ Dangling(d) \subseteq Dangling(c)
         /\ JoinsAreNew(c) => BuildsOnItself(d) = {}
<1> DEFINE joined == c[lo].title \o c[hi].title
<1>1. DOMAIN c = 1 .. Len(c) /\ Len(c) \in Nat
  OBVIOUS
<1>2. /\ lo \in 1 .. Len(c) - 1
      /\ \A p \in 1 .. Len(c) - 1 : p # lo => From(p, hi) \in 1 .. Len(c)
      /\ \A o \in 1 .. Len(c) : o # lo /\ o # hi =>
           \E p \in 1 .. Len(c) - 1 : p # lo /\ From(p, hi) = o
  BY <1>1, FromFacts
<1>0. MergeShape(c, lo, hi, d)
  BY MergeParts
<1>3. DOMAIN d = 1 .. Len(c) - 1
  BY <1>0 DEF MergeShape
<1>4. d[lo].title = joined
  BY <1>0, Zenon DEF MergeShape
<1>5. \A t \in d[lo].prerequisites :
        /\ t # c[lo].title /\ t # c[hi].title
        /\ t \in c[lo].prerequisites \/ t \in c[hi].prerequisites
  BY <1>0, Zenon DEF MergeShape
<1>6. \A p \in 1 .. Len(c) - 1 : p # lo => d[p].title = c[From(p, hi)].title
  BY <1>0, Zenon DEF MergeShape
<1>7. \A p \in 1 .. Len(c) - 1 : p # lo => \A t \in d[p].prerequisites :
        /\ t # c[From(p, hi)].title
        /\ t = joined \/ (t \in c[From(p, hi)].prerequisites /\ t # c[lo].title /\ t # c[hi].title)
  BY <1>0, Zenon DEF MergeShape
<1> HIDE DEF joined
<1>8. ASSUME NEW t \in Dangling(d) PROVE t \in Dangling(c)
  <2>1. PICK p \in 1 .. Len(c) - 1 : t \in d[p].prerequisites
    BY <1>3 DEF Dangling
  <2>2. \A q \in 1 .. Len(c) - 1 : d[q].title # t
    BY <1>3 DEF Dangling, Titles
  <2>3. t # joined
    BY <1>2, <1>4, <2>2
  <2>4. /\ t # c[lo].title /\ t # c[hi].title
        /\ \E o \in 1 .. Len(c) : t \in c[o].prerequisites
    <3>1. CASE p = lo
      BY <1>5, <2>1, <3>1
    <3>2. CASE p # lo
      BY <1>2, <1>7, <2>1, <2>3, <3>2
    <3> QED
      BY <3>1, <3>2
  <2>5. ASSUME NEW o \in 1 .. Len(c) PROVE c[o].title # t
    <3>1. CASE o = lo \/ o = hi
      BY <2>4, <3>1
    <3>2. CASE o # lo /\ o # hi
      <4>1. PICK q \in 1 .. Len(c) - 1 : q # lo /\ From(q, hi) = o
        BY <1>2, <3>2
      <4>2. d[q].title = c[o].title
        BY <1>6, <4>1
      <4> QED
        BY <2>2, <4>2
    <3> QED
      BY <3>1, <3>2
  <2> QED
    BY <1>1, <2>4, <2>5 DEF Dangling, Titles
<1>9. ASSUME JoinsAreNew(c), NEW p \in 1 .. Len(c) - 1 PROVE d[p].title \notin d[p].prerequisites
  <2>1. CASE p = lo
    <3>1. joined \notin UNION {c[r].prerequisites : r \in DOMAIN c}
      BY <1>1, <1>9 DEF JoinsAreNew, joined
    <3> QED
      BY <1>1, <1>4, <1>5, <2>1, <3>1
  <2>2. CASE p # lo
    BY <1>6, <1>7, <2>2
  <2> QED
    BY <2>1, <2>2
<1> QED
  BY <1>3, <1>8, <1>9 DEF BuildsOnItself

LEMMA EditDanglesNothing ==
  ASSUME NEW c \in Seq(ModuleSpec), NEW i, NEW d, NEW w, EditResult(c, i, d, w)
  PROVE  /\ Dangling(d) \subseteq Dangling(c)
         /\ BuildsOnItself(c) = {} /\ JoinsAreNew(c) => BuildsOnItself(d) = {}
<1>1. DOMAIN c = 1 .. Len(c) /\ Len(c) \in Nat
  OBVIOUS
<1>2. CASE \E h \in 1 .. Len(c), mode \in LessonMode : ModeResult(c, h, mode, d)
  <2>1. d \in Seq(ModuleSpec) /\ Len(d) = Len(c)
        /\ \A p \in 1 .. Len(c) :
             d[p].title = c[p].title /\ d[p].prerequisites = c[p].prerequisites
    BY <1>2 DEF ModeResult
  <2>2. DOMAIN d = 1 .. Len(c)
    BY <2>1
  <2>3. Titles(d) = Titles(c)
    BY <1>1, <2>1, <2>2 DEF Titles
  <2>4. Dangling(d) \subseteq Dangling(c)
    BY <1>1, <2>1, <2>2, <2>3 DEF Dangling
  <2>5. BuildsOnItself(d) = BuildsOnItself(c)
    BY <1>1, <2>1, <2>2 DEF BuildsOnItself
  <2> QED
    BY <2>4, <2>5
<1>3. CASE \E lo, hi \in 1 .. Len(c) : lo < hi /\ MergeResult(c, lo, hi, d)
  BY <1>3, MergeDanglesNothing
<1>4. CASE DropsOnly(c, d, w)
  BY <1>4 DEF DropsOnly
<1>5. CASE d = c
  BY <1>5
<1>6. CASE SingleResult(c, d)
  <2>1. d \in Seq(ModuleSpec) /\ Len(d) = 1 /\ d[1].prerequisites = {}
    BY <1>6 DEF SingleResult
  <2>2. DOMAIN d = {1}
    BY <2>1
  <2> QED
    BY <2>1, <2>2 DEF Dangling, BuildsOnItself
<1>7. CASE OrderResult(c, i.targets, d)
  <2> DEFINE at(p) == i.targets[p] + 1
  <2>1. d \in Seq(ModuleSpec) /\ Len(d) = Len(c)
    BY <1>7 DEF OrderResult
  <2>2. DOMAIN d = 1 .. Len(c)
    BY <2>1
  <2>3. \A p \in 1 .. Len(c) :
          /\ at(p) \in 1 .. Len(c)
          /\ d[p].title = c[at(p)].title
          /\ d[p].prerequisites = c[at(p)].prerequisites
    BY <1>7 DEF OrderResult
  <2>4. \A o \in 1 .. Len(c) : \E p \in 1 .. Len(c) : at(p) = o
    BY <1>7 DEF OrderResult
  <2> HIDE DEF at
  <2>5. ASSUME NEW o \in 1 .. Len(c) PROVE c[o].title \in Titles(d)
    <3>1. PICK p \in 1 .. Len(c) : at(p) = o
      BY <2>4
    <3>2. d[p].title = c[o].title
      BY <2>3, <3>1
    <3> QED
      BY <2>2, <3>2 DEF Titles
  <2>6. Dangling(d) \subseteq Dangling(c)
    <3>1. Titles(c) \subseteq Titles(d)
      BY <1>1, <2>5 DEF Titles
    <3> QED
      BY <1>1, <2>2, <2>3, <3>1 DEF Dangling
  <2>7. BuildsOnItself(c) = {} => BuildsOnItself(d) = {}
    BY <1>1, <2>2, <2>3 DEF BuildsOnItself
  <2> QED
    BY <2>6, <2>7
<1> QED
  BY <1>2, <1>3, <1>4, <1>5, <1>6, <1>7 DEF EditResult

\* An edit leaves no prerequisite of a module that is gone, in plans of any
\* length, and where a merged title is new none of a module on itself.
THEOREM NoEditDanglesHolds == GateSpec => NoEditDangles
<1>1. GateTypeOK /\ [GateNext]_gateVars =>
        (Edits => /\ Dangling(course') \subseteq Dangling(course)
                  /\ BuildsOnItself(course) = {} /\ JoinsAreNew(course)
                       => BuildsOnItself(course') = {})
  <2> SUFFICES ASSUME GateTypeOK, [GateNext]_gateVars, Edits
               PROVE  /\ Dangling(course') \subseteq Dangling(course)
                      /\ BuildsOnItself(course) = {} /\ JoinsAreNew(course)
                           => BuildsOnItself(course') = {}
    OBVIOUS
  <2>1. EditResult(course, intent', course', warned')
    BY EditsResult
  <2>2. course \in Seq(ModuleSpec)
    BY DEF GateTypeOK
  <2> QED
    BY <2>1, <2>2, EditDanglesNothing
<1> QED
  BY <1>1, GateTypeCorrect, PTL DEF GateSpec, NoEditDangles

(***************************************************************************)
(* A merged module is as decided and as strict as its parts.               *)
(***************************************************************************)

\* The mode m covers the mode n of a part.
Decides(m, n) ==
  /\ n = Undecided => m = Undecided
  /\ m # Undecided => ModeStrictness[n] <= ModeStrictness[m]

LEMMA MergeModesDecides ==
  ASSUME NEW modes \in SUBSET (LessonMode \cup {Undecided}), NEW n \in modes
  PROVE  Decides(MergeModes(modes), n)
<1>1. /\ Undecided \in modes => MergeModes(modes) = Undecided
      /\ Undecided \notin modes =>
           \A k \in modes : ModeStrictness[k] <= ModeStrictness[MergeModes(modes)]
  BY MergeModesFacts
<1> QED
  BY <1>1 DEF Decides

LEMMA EditKeepsDecisions ==
  ASSUME NEW c \in Seq(ModuleSpec), NEW i, NEW d, NEW w, EditResult(c, i, d, w),
         NEW q \in DOMAIN d, d[q].title \notin Titles(c),
         NEW p \in DOMAIN c, c[p].title \notin Titles(d)
  PROVE  Decides(d[q].mode, c[p].mode)
<1>1. DOMAIN c = 1 .. Len(c) /\ Len(c) \in Nat /\ \A o \in 1 .. Len(c) : c[o] \in ModuleSpec
  OBVIOUS
<1>2. CASE \E h \in 1 .. Len(c), mode \in LessonMode : ModeResult(c, h, mode, d)
  <2>1. d \in Seq(ModuleSpec) /\ Len(d) = Len(c)
        /\ \A o \in 1 .. Len(c) : d[o].title = c[o].title
    BY <1>2 DEF ModeResult
  <2>2. q \in 1 .. Len(c)
    BY <2>1
  <2> QED
    BY <1>1, <2>1, <2>2 DEF Titles
<1>3. CASE \E lo, hi \in 1 .. Len(c) : lo < hi /\ MergeResult(c, lo, hi, d)
  <2>1. PICK lo, hi \in 1 .. Len(c) : lo < hi /\ MergeResult(c, lo, hi, d)
    BY <1>3
  <2>2. MergeShape(c, lo, hi, d)
    BY <2>1, MergeParts
  <2>3. DOMAIN d = 1 .. Len(c) - 1
    BY <2>2 DEF MergeShape
  <2>4. \A o \in 1 .. Len(c) - 1 : o # lo => d[o].title = c[From(o, hi)].title
    BY <2>2, Zenon DEF MergeShape
  <2>5. /\ \A o \in 1 .. Len(c) - 1 : o # lo => From(o, hi) \in 1 .. Len(c)
        /\ \A o \in 1 .. Len(c) : o # lo /\ o # hi =>
             \E r \in 1 .. Len(c) - 1 : r # lo /\ From(r, hi) = o
    BY <1>1, <2>1, FromFacts
  <2>6. q = lo
    BY <1>1, <2>3, <2>4, <2>5 DEF Titles
  <2>7. p = lo \/ p = hi
    <3> SUFFICES ASSUME p # lo /\ p # hi PROVE FALSE
      OBVIOUS
    <3>1. PICK r \in 1 .. Len(c) - 1 : r # lo /\ From(r, hi) = p
      BY <1>1, <2>5
    <3>2. d[r].title = c[p].title
      BY <2>4, <3>1
    <3> QED
      BY <2>3, <3>2 DEF Titles
  <2>8. d[lo].mode = MergeModes({c[lo].mode, c[hi].mode})
    BY <2>1, Zenon DEF MergeResult
  <2>9. {c[lo].mode, c[hi].mode} \in SUBSET (LessonMode \cup {Undecided})
    BY <1>1 DEF ModuleSpec
  <2>10. c[p].mode \in {c[lo].mode, c[hi].mode}
    BY <2>7
  <2> QED
    BY <2>6, <2>8, <2>9, <2>10, MergeModesDecides
<1>4. CASE d \in Seq(ModuleSpec) /\ DropsOnly(c, d, w)
  BY <1>4 DEF DropsOnly, Titles
<1>5. CASE d = c
  BY <1>5 DEF Titles
<1>6. CASE SingleResult(c, d)
  <2> DEFINE modes == {c[o].mode : o \in 1 .. Len(c)}
  <2>1. d \in Seq(ModuleSpec) /\ Len(d) = 1 /\ d[1].mode = MergeModes(modes)
    BY <1>6 DEF SingleResult
  <2>2. q = 1
    BY <2>1
  <2>3. modes \in SUBSET (LessonMode \cup {Undecided})
    BY <1>1 DEF ModuleSpec
  <2>4. c[p].mode \in modes
    BY <1>1
  <2> HIDE DEF modes
  <2> QED
    BY <2>1, <2>2, <2>3, <2>4, MergeModesDecides
<1>7. CASE OrderResult(c, i.targets, d)
  <2>1. d \in Seq(ModuleSpec) /\ Len(d) = Len(c)
    BY <1>7 DEF OrderResult
  <2>2. q \in 1 .. Len(c)
    BY <2>1
  <2>3. i.targets[q] + 1 \in DOMAIN c /\ d[q].title = c[i.targets[q] + 1].title
    BY <1>1, <1>7, <2>2 DEF OrderResult
  <2> QED
    BY <2>3 DEF Titles
<1> QED
  BY <1>2, <1>3, <1>4, <1>5, <1>6, <1>7 DEF EditResult

\* A module that takes the place of others is as undecided as any of them, and
\* as strict as each: whatever is merged or joined into one, an executable
\* module is not taught as prose afterwards.
THEOREM MergingKeepsDecisionsHolds == GateSpec => MergingKeepsDecisions
<1> DEFINE Kept(c, d) ==
             \A q \in DOMAIN d : d[q].title \notin Titles(c) =>
               \A p \in DOMAIN c : c[p].title \notin Titles(d) =>
                 /\ c[p].mode = Undecided => d[q].mode = Undecided
                 /\ d[q].mode # Undecided
                      => ModeStrictness[c[p].mode] <= ModeStrictness[d[q].mode]
<1>1. GateTypeOK /\ [GateNext]_gateVars => (Edits => Kept(course, course'))
  <2> SUFFICES ASSUME GateTypeOK, [GateNext]_gateVars, Edits PROVE Kept(course, course')
    OBVIOUS
  <2>1. EditResult(course, intent', course', warned')
    BY EditsResult
  <2>2. course \in Seq(ModuleSpec)
    BY DEF GateTypeOK
  <2> QED
    BY <2>1, <2>2, EditKeepsDecisions DEF Decides
<1> QED
  BY <1>1, GateTypeCorrect, PTL DEF GateSpec, MergingKeepsDecisions

(***************************************************************************)
(* Prerequisites come first.                                               *)
(***************************************************************************)

\* Of the modules with one title none stands after the one that counts.
LEMMA PositionIsLast ==
  ASSUME NEW s \in Seq(ModuleSpec), NEW q \in 1 .. Len(s)
  PROVE  /\ PositionOfTitle(s, s[q].title) \in 1 .. Len(s)
         /\ q <= PositionOfTitle(s, s[q].title)
<1> DEFINE t == s[q].title
           Having == {p \in 1 .. Len(s) : s[p].title = t}
           HasItLast(p) == s[p].title = t /\ \A r \in p + 1 .. Len(s) : s[r].title # t
<1>1. Len(s) \in Nat /\ DOMAIN s = 1 .. Len(s) /\ q \in Having
  OBVIOUS
<1>2. Having \in SUBSET (0 .. Len(s)) /\ Having # {}
  BY <1>1
<1>3. PICK m \in Having : \A k \in Having : k <= m
  <2> HIDE DEF Having
  <2> QED
    BY <1>1, <1>2, GreatestOf
<1>4. m \in 1 .. Len(s) /\ HasItLast(m)
  BY <1>1, <1>3
<1>5. PositionOfTitle(s, t) = CHOOSE p \in 1 .. Len(s) : HasItLast(p)
  BY <1>1 DEF PositionOfTitle
<1>6. PositionOfTitle(s, t) \in 1 .. Len(s) /\ HasItLast(PositionOfTitle(s, t))
  <2> HIDE DEF HasItLast
  <2> QED
    BY <1>4, <1>5
<1> QED
  BY <1>1, <1>6

LEMMA MergeOfNeighboursKeepsOrder ==
  ASSUME NEW c \in Seq(ModuleSpec), NEW lo \in 1 .. Len(c), NEW hi \in 1 .. Len(c), hi = lo + 1,
         NEW d, MergeResult(c, lo, hi, d), JoinsAreNew(c), InOrder(c)
  PROVE  InOrder(d)
<1> DEFINE joined == c[lo].title \o c[hi].title
<1>1. DOMAIN c = 1 .. Len(c) /\ Len(c) \in Nat /\ lo < hi
  OBVIOUS
<1>2. /\ lo \in 1 .. Len(c) - 1
      /\ \A p \in 1 .. Len(c) - 1 : p # lo =>
           From(p, hi) \in 1 .. Len(c) /\ From(p, hi) # lo /\ From(p, hi) # hi
      /\ \A p, q \in 1 .. Len(c) - 1 : From(q, hi) < From(p, hi) => q < p
  BY <1>1, FromFacts
<1>3. MergeShape(c, lo, hi, d)
  BY <1>1, MergeParts
<1>4. joined \notin Titles(c) /\ \A r \in 1 .. Len(c) : joined \notin c[r].prerequisites
  BY <1>1 DEF JoinsAreNew
<1>5. \A p, q \in 1 .. Len(c) : c[q].title \in c[p].prerequisites => q < p
  BY <1>1 DEF InOrder
<1>6. DOMAIN d = 1 .. Len(c) - 1
  BY <1>3 DEF MergeShape
<1>7. d[lo].title = joined
  BY <1>3, Zenon DEF MergeShape
<1>8. \A t \in d[lo].prerequisites : t \in c[lo].prerequisites \/ t \in c[hi].prerequisites
  BY <1>3, Zenon DEF MergeShape
<1>9. \A p \in 1 .. Len(c) - 1 : p # lo => d[p].title = c[From(p, hi)].title
  BY <1>3, Zenon DEF MergeShape
<1> DEFINE Named(o) == c[lo].title \in c[o].prerequisites \/ c[hi].title \in c[o].prerequisites
<1>10. ASSUME NEW p \in 1 .. Len(c) - 1, p # lo, NEW t \in d[p].prerequisites
       PROVE  /\ t = joined => Named(From(p, hi))
              /\ t # joined => t \in c[From(p, hi)].prerequisites
  <2>1. \/ t = joined /\ Named(From(p, hi))
        \/ t \in c[From(p, hi)].prerequisites
    BY <1>3, <1>10, Zenon DEF MergeShape
  <2>2. joined \notin c[From(p, hi)].prerequisites
    BY <1>2, <1>4, <1>10
  <2> HIDE DEF joined, Named
  <2> QED
    BY <2>1, <2>2
<1> HIDE DEF joined
<1> SUFFICES ASSUME NEW p \in 1 .. Len(c) - 1, NEW q \in 1 .. Len(c) - 1,
                    d[q].title \in d[p].prerequisites
             PROVE  q < p
  BY <1>6 DEF InOrder
<1>11. CASE p = lo /\ q = lo
  BY <1>4, <1>7, <1>8, <1>11
<1>12. CASE p = lo /\ q # lo
  <2>1. From(q, hi) \in 1 .. Len(c) /\ From(q, hi) # lo
    BY <1>2, <1>12
  <2>2. c[From(q, hi)].title \in c[lo].prerequisites \/ c[From(q, hi)].title \in c[hi].prerequisites
    BY <1>8, <1>9, <1>12
  <2>3. From(q, hi) < lo \/ From(q, hi) < hi
    BY <1>5, <2>1, <2>2
  <2> QED
    BY <1>1, <1>12, <2>1, <2>3 DEF From
<1>13. CASE p # lo /\ q = lo
  <2>1. From(p, hi) \in 1 .. Len(c) /\ From(p, hi) # hi
    BY <1>2, <1>13
  <2>2. Named(From(p, hi))
    BY <1>7, <1>10, <1>13
  <2>3. lo < From(p, hi) \/ hi < From(p, hi)
    BY <1>5, <2>1, <2>2
  <2> QED
    BY <1>1, <1>13, <2>1, <2>3 DEF From
<1>14. CASE p # lo /\ q # lo
  <2>1. From(p, hi) \in 1 .. Len(c) /\ From(q, hi) \in 1 .. Len(c)
    BY <1>2, <1>14
  <2>2. d[q].title = c[From(q, hi)].title
    BY <1>9, <1>14
  <2>3. d[q].title # joined
    BY <1>1, <1>4, <2>1, <2>2 DEF Titles
  <2>4. c[From(q, hi)].title \in c[From(p, hi)].prerequisites
    BY <1>10, <1>14, <2>2, <2>3
  <2> QED
    BY <1>2, <1>5, <2>1, <2>4
<1> QED
  BY <1>11, <1>12, <1>13, <1>14

LEMMA EditKeepsOrder ==
  ASSUME NEW c \in Seq(ModuleSpec), NEW i, NEW d, NEW w, EditResult(c, i, d, w),
         JoinsAreNew(c), InOrder(c), ~InOrder(d)
  PROVE  i.op = "merge" /\ i.targets[1] - i.targets[2] \notin {-1, 1}
<1>1. DOMAIN c = 1 .. Len(c) /\ Len(c) \in Nat
  OBVIOUS
<1>2. ASSUME NEW h \in 1 .. Len(c), NEW mode \in LessonMode, ModeResult(c, h, mode, d) PROVE FALSE
  <2>1. d \in Seq(ModuleSpec) /\ Len(d) = Len(c)
        /\ \A p \in 1 .. Len(c) :
             d[p].title = c[p].title /\ d[p].prerequisites = c[p].prerequisites
    BY <1>2 DEF ModeResult
  <2>2. DOMAIN d = 1 .. Len(c)
    BY <2>1
  <2> QED
    BY <1>1, <2>1, <2>2 DEF InOrder
<1>3. ASSUME NEW lo \in 1 .. Len(c), NEW hi \in 1 .. Len(c), MergeResult(c, lo, hi, d)
      PROVE  hi # lo + 1
  BY <1>3, MergeOfNeighboursKeepsOrder
<1>4. ~DropsOnly(c, d, w)
  BY DEF DropsOnly
<1>5. d # c
  OBVIOUS
<1>6. ASSUME SingleResult(c, d) PROVE FALSE
  <2>1. d \in Seq(ModuleSpec) /\ Len(d) = 1 /\ d[1].prerequisites = {}
    BY <1>6 DEF SingleResult
  <2>2. DOMAIN d = {1}
    BY <2>1
  <2> QED
    BY <2>1, <2>2 DEF InOrder
<1>7. ASSUME OrderResult(c, i.targets, d), NEW s, s = Sequenced(c, i.targets),
             PrerequisitesAllow(s), Len(s) = Len(c), s \in Seq(ModuleSpec),
             \A p \in 1 .. Len(c) : s[p] = c[i.targets[p] + 1]
      PROVE  FALSE
  <2>1. d \in Seq(ModuleSpec) /\ Len(d) = Len(c)
    BY <1>7 DEF OrderResult
  <2>2. DOMAIN d = 1 .. Len(c) /\ DOMAIN s = 1 .. Len(c)
    BY <1>7, <2>1
  <2>3. \A p \in 1 .. Len(c) : d[p].title = s[p].title /\ d[p].prerequisites = s[p].prerequisites
    BY <1>7 DEF OrderResult
  <2>4. PICK p, q \in 1 .. Len(c) : d[q].title \in d[p].prerequisites /\ ~(q < p)
    BY <2>2 DEF InOrder
  <2>5. s[q].title \in s[p].prerequisites \cap Titles(s)
    BY <2>2, <2>3, <2>4 DEF Titles
  <2>6. PositionOfTitle(s, s[q].title) < p
    BY <1>7, <2>2, <2>5 DEF PrerequisitesAllow
  <2>7. /\ PositionOfTitle(s, s[q].title) \in 1 .. Len(c)
        /\ q <= PositionOfTitle(s, s[q].title)
    BY <1>7, PositionIsLast
  <2> QED
    BY <1>1, <2>4, <2>6, <2>7
<1> QED
  BY <1>2, <1>3, <1>4, <1>5, <1>6, <1>7 DEF EditResult

\* In a plan whose prerequisites come first they still do after any edit but
\* the merge of two modules that are not neighbours.
THEOREM OnlyDistantMergesMisplaceHolds == GateSpec => OnlyDistantMergesMisplace
<1>1. GateTypeOK /\ [GateNext]_gateVars =>
        (Edits /\ JoinsAreNew(course) /\ InOrder(course) /\ ~InOrder(course')
           => /\ intent'.op = "merge"
              /\ intent'.targets[1] - intent'.targets[2] \notin {-1, 1})
  <2> SUFFICES ASSUME GateTypeOK, [GateNext]_gateVars, Edits,
                      JoinsAreNew(course), InOrder(course), ~InOrder(course')
               PROVE  /\ intent'.op = "merge"
                      /\ intent'.targets[1] - intent'.targets[2] \notin {-1, 1}
    OBVIOUS
  <2>1. EditResult(course, intent', course', warned')
    BY EditsResult
  <2>2. course \in Seq(ModuleSpec)
    BY DEF GateTypeOK
  <2> QED
    BY <2>1, <2>2, EditKeepsOrder
<1> QED
  BY <1>1, GateTypeCorrect, PTL DEF GateSpec, OnlyDistantMergesMisplace

(***************************************************************************)
(* The order of the drops.                                                 *)
(***************************************************************************)

\* The permutation at of the first n numbers arranges the values r to fall.
Falls(n, r, at) ==
  /\ at \in [1 .. n -> 1 .. n]
  /\ \A i, j \in 1 .. n : at[i] = at[j] => i = j
  /\ \A o \in 1 .. n : \E i \in 1 .. n : at[i] = o
  /\ \A i, j \in 1 .. n : i < j => r[at[i]] >= r[at[j]]

\* One more value has a place in what is arranged already.
LEMMA OneMoreFalls ==
  ASSUME NEW m \in Nat, NEW r \in [1 .. m + 1 -> Int], NEW old, Falls(m, r, old)
  PROVE  \E at : Falls(m + 1, r, at)
<1> DEFINE last == r[m + 1]
           P == {k \in 0 .. m : \A i \in 1 .. k : r[old[i]] >= last}
<1>1. old \in [1 .. m -> 1 .. m]
  BY DEF Falls
<1>2. \A i \in 1 .. m : old[i] \in 1 .. m /\ old[i] \in 1 .. m + 1 /\ r[old[i]] \in Int
  BY <1>1
<1>3. \A i, j \in 1 .. m : old[i] = old[j] => i = j
  BY DEF Falls
<1>4. \A o \in 1 .. m : \E i \in 1 .. m : old[i] = o
  BY DEF Falls
<1>5. \A i, j \in 1 .. m : i < j => r[old[i]] >= r[old[j]]
  BY DEF Falls
<1>6. last \in Int
  OBVIOUS
<1> HIDE DEF last
<1>7. P \in SUBSET (0 .. m) /\ 0 \in P
  OBVIOUS
<1>8. PICK k \in P : \A l \in P : l <= k
  <2> HIDE DEF P
  <2>1. P # {}
    BY <1>7
  <2> QED
    BY <1>7, <2>1, GreatestOf
<1>9. k \in 0 .. m /\ \A i \in 1 .. k : r[old[i]] >= last
  OBVIOUS
<1>10. k + 1 \notin P
  <2> HIDE DEF P
  <2> QED
    BY <1>8, <1>9
<1>11. ASSUME NEW j \in k + 1 .. m PROVE last >= r[old[j]]
  <2>1. k + 1 \in 0 .. m /\ k + 1 \in 1 .. m /\ j \in 1 .. m
    BY <1>9
  <2>2. PICK i \in 1 .. k + 1 : ~(r[old[i]] >= last)
    BY <1>10, <2>1
  <2>3. i = k + 1
    BY <1>9, <2>2
  <2>4. ~(r[old[k + 1]] >= last)
    BY <2>2, <2>3
  <2>5. j = k + 1 \/ r[old[k + 1]] >= r[old[j]]
    BY <1>5, <1>9, <2>1
  <2>6. r[old[k + 1]] \in Int /\ r[old[j]] \in Int
    BY <1>2, <2>1
  <2>7. ASSUME NEW x \in Int, NEW y \in Int, NEW z \in Int, ~(x >= z), x >= y PROVE z >= y
    BY <2>7
  <2>8. CASE j = k + 1
    <3>1. ~(r[old[j]] >= last)
      BY <2>4, <2>8
    <3> QED
      BY <1>6, <2>6, <3>1
  <2>9. CASE r[old[k + 1]] >= r[old[j]]
    BY <1>6, <2>4, <2>6, <2>7, <2>9
  <2> QED
    BY <2>5, <2>8, <2>9
<1> HIDE DEF P
<1> DEFINE at == [i \in 1 .. m + 1 |->
                    IF i <= k THEN old[i] ELSE IF i = k + 1 THEN m + 1 ELSE old[i - 1]]
<1>12. \A i \in 1 .. m + 1 : i <= k => i \in 1 .. m /\ at[i] = old[i]
  BY <1>9
<1>13. k + 1 \in 1 .. m + 1 /\ at[k + 1] = m + 1
  BY <1>9
<1>14. \A i \in 1 .. m + 1 : i > k + 1 =>
         i - 1 \in 1 .. m /\ i - 1 \in k + 1 .. m /\ at[i] = old[i - 1]
  BY <1>9
<1>15. at \in [1 .. m + 1 -> 1 .. m + 1]
  <2> SUFFICES ASSUME NEW i \in 1 .. m + 1 PROVE at[i] \in 1 .. m + 1
    OBVIOUS
  <2> HIDE DEF at
  <2>1. CASE i <= k
    BY <1>2, <1>12, <2>1
  <2>2. CASE i = k + 1
    BY <1>13, <2>2
  <2>3. CASE i > k + 1
    BY <1>2, <1>14, <2>3
  <2> QED
    BY <1>9, <2>1, <2>2, <2>3
<1> HIDE DEF at
<1>16. ASSUME NEW i \in 1 .. m + 1, NEW j \in 1 .. m + 1, i < j PROVE at[i] # at[j]
  <2>1. CASE j <= k
    BY <1>3, <1>9, <1>12, <1>16, <2>1
  <2>2. CASE j = k + 1
    <3>1. i <= k /\ at[i] = old[i] /\ old[i] \in 1 .. m
      BY <1>2, <1>9, <1>12, <1>16, <2>2
    <3> QED
      BY <1>13, <2>2, <3>1
  <2>3. CASE j > k + 1
    <3>1. j - 1 \in 1 .. m /\ at[j] = old[j - 1] /\ old[j - 1] \in 1 .. m
      BY <1>2, <1>14, <2>3
    <3>2. CASE i = k + 1
      BY <1>13, <3>1, <3>2
    <3>3. CASE i <= k
      <4>1. i \in 1 .. m /\ at[i] = old[i] /\ i # j - 1
        BY <1>9, <1>12, <2>3, <3>3
      <4> QED
        BY <1>3, <3>1, <4>1
    <3>4. CASE i > k + 1
      <4>1. i - 1 \in 1 .. m /\ at[i] = old[i - 1] /\ i - 1 # j - 1
        BY <1>14, <1>16, <3>4
      <4> QED
        BY <1>3, <3>1, <4>1
    <3> QED
      BY <1>9, <3>2, <3>3, <3>4
  <2> QED
    BY <1>9, <2>1, <2>2, <2>3
<1>17. \A i, j \in 1 .. m + 1 : at[i] = at[j] => i = j
  <2> SUFFICES ASSUME NEW i \in 1 .. m + 1, NEW j \in 1 .. m + 1, at[i] = at[j], i # j
               PROVE  FALSE
    OBVIOUS
  <2>1. i < j \/ j < i
    OBVIOUS
  <2> QED
    BY <1>16, <2>1
<1>18. ASSUME NEW o \in 1 .. m + 1 PROVE \E i \in 1 .. m + 1 : at[i] = o
  <2>1. CASE o = m + 1
    BY <1>13, <2>1
  <2>2. CASE o # m + 1
    <3>0. o \in 1 .. m
      BY <2>2
    <3>1. PICK i \in 1 .. m : old[i] = o
      BY <1>4, <3>0
    <3>2. CASE i <= k
      <4>1. i \in 1 .. m + 1 /\ at[i] = o
        BY <1>12, <3>1, <3>2
      <4> QED
        BY <4>1
    <3>3. CASE ~(i <= k)
      <4>1. i + 1 \in 1 .. m + 1 /\ i + 1 > k + 1 /\ i + 1 - 1 = i
        BY <1>9, <3>3
      <4>2. at[i + 1] = o
        BY <1>14, <3>1, <4>1
      <4> QED
        BY <4>1, <4>2
    <3> QED
      BY <3>2, <3>3
  <2> QED
    BY <2>1, <2>2
<1>19. ASSUME NEW i \in 1 .. m + 1, NEW j \in 1 .. m + 1, i < j PROVE r[at[i]] >= r[at[j]]
  <2>1. CASE j <= k
    <3>1. i \in 1 .. m /\ j \in 1 .. m /\ at[i] = old[i] /\ at[j] = old[j]
      BY <1>9, <1>12, <1>19, <2>1
    <3> QED
      BY <1>5, <1>19, <3>1
  <2>2. CASE j = k + 1
    <3>1. i \in 1 .. k /\ at[i] = old[i] /\ at[j] = m + 1
      BY <1>9, <1>12, <1>13, <1>19, <2>2
    <3> QED
      BY <1>9, <3>1 DEF last
  <2>3. CASE j > k + 1
    <3>1. j - 1 \in k + 1 .. m /\ j - 1 \in 1 .. m /\ at[j] = old[j - 1]
      BY <1>14, <2>3
    <3>2. CASE i = k + 1
      <4>1. r[at[i]] = last
        BY <1>13, <3>2 DEF last
      <4> QED
        BY <1>11, <3>1, <4>1
    <3>3. CASE i <= k
      <4>1. i \in 1 .. m /\ at[i] = old[i] /\ i < j - 1
        BY <1>9, <1>12, <2>3, <3>3
      <4> QED
        BY <1>5, <3>1, <4>1
    <3>4. CASE i > k + 1
      <4>1. i - 1 \in 1 .. m /\ at[i] = old[i - 1] /\ i - 1 < j - 1
        BY <1>14, <1>19, <3>4
      <4> QED
        BY <1>5, <3>1, <4>1
    <3> QED
      BY <1>9, <3>2, <3>3, <3>4
  <2> QED
    BY <1>9, <2>1, <2>2, <2>3
<1>20. Falls(m + 1, r, at)
  BY <1>15, <1>17, <1>18, <1>19 DEF Falls
<1> QED
  BY <1>20

LEMMA FallsExists ==
  ASSUME NEW n \in Nat, NEW r \in [1 .. n -> Int]
  PROVE  \E at : Falls(n, r, at)
<1> DEFINE T == {m \in 0 .. n : \E at : Falls(m, r, at)}
<1>1. 0 \in T
  <2> DEFINE e == [i \in 1 .. 0 |-> i]
  <2>1. e \in [1 .. 0 -> 1 .. 0] /\ \A i \in 1 .. 0 : FALSE
    OBVIOUS
  <2> HIDE DEF e
  <2>2. Falls(0, r, e)
    BY <2>1 DEF Falls
  <2> QED
    BY <2>2
<1>2. ASSUME NEW m \in 1 .. n, m - 1 \in T PROVE m \in T
  <2>1. PICK l \in Nat : m = l + 1 /\ l = m - 1
    <3>1. m - 1 \in Nat /\ m = (m - 1) + 1
      OBVIOUS
    <3> QED
      BY <3>1
  <2>2. PICK old : Falls(l, r, old)
    BY <1>2, <2>1
  <2> DEFINE first == [i \in 1 .. l + 1 |-> r[i]]
  <2>3. first \in [1 .. l + 1 -> Int] /\ \A i \in 1 .. l + 1 : first[i] = r[i]
    BY <2>1
  <2> HIDE DEF first
  <2>4. Falls(l, first, old)
    <3>1. \A i \in 1 .. l : old[i] \in 1 .. l + 1
      BY <2>2 DEF Falls
    <3>2. \A i \in 1 .. l : first[old[i]] = r[old[i]]
      BY <2>3, <3>1
    <3> QED
      BY <2>2, <3>2 DEF Falls
  <2>5. PICK at : Falls(l + 1, first, at)
    BY <2>3, <2>4, OneMoreFalls
  <2>6. Falls(l + 1, r, at)
    <3>1. \A i \in 1 .. l + 1 : first[at[i]] = r[at[i]]
      BY <2>3, <2>5 DEF Falls
    <3> QED
      BY <2>5, <3>1 DEF Falls
  <2>7. m \in 0 .. n
    OBVIOUS
  <2> QED
    BY <2>1, <2>6, <2>7
<1> HIDE DEF T
<1>3. \A k \in 0 .. n : k \in T
  BY <1>1, <1>2, UpTo
<1>4. n \in 0 .. n
  OBVIOUS
<1> QED
  BY <1>3, <1>4 DEF T

\* Targets that are all different are dropped from the highest to the lowest.
DropOrderOf(ts, order) ==
  /\ order \in [1 .. Len(ts) -> ToSet(ts)]
  /\ \A t \in ToSet(ts) : \E k \in 1 .. Len(ts) : order[k] = t
  /\ \A i, j \in 1 .. Len(ts) : i < j => order[j] < order[i]

LEMMA DropOrderFacts ==
  ASSUME NEW ts \in Seq(Int), Cardinality(ToSet(ts)) = Len(ts)
  PROVE  DropOrderOf(ts, DropOrder(ts))
<1> DEFINE n == Len(ts)
           Falling(at) == \A i, j \in DOMAIN ts : i < j => ts[at[i]] >= ts[at[j]]
           at == CHOOSE at \in Bijection(DOMAIN ts, DOMAIN ts) : Falling(at)
           order == DropOrder(ts)
<1>1. n \in Nat /\ DOMAIN ts = 1 .. n /\ ts \in [1 .. n -> Int]
  OBVIOUS
<1>2. order = [k \in DOMAIN ts |-> ts[at[k]]]
  BY DEF DropOrder, Arranged
<1>3. \E f \in Bijection(DOMAIN ts, DOMAIN ts) : Falling(f)
  <2>1. PICK f : Falls(n, ts, f)
    <3> HIDE DEF n
    <3> QED
      BY <1>1, FallsExists
  <2>2. f \in Bijection(1 .. n, 1 .. n)
    BY <2>1 DEF Falls, Bijection, Injection, IsInjective, Surjection
  <2>3. Falling(f)
    BY <1>1, <2>1 DEF Falls
  <2> HIDE DEF Falling
  <2> QED
    BY <1>1, <2>2, <2>3
<1>4. at \in Bijection(DOMAIN ts, DOMAIN ts) /\ Falling(at)
  <2> HIDE DEF Falling
  <2> QED
    BY <1>3
<1> HIDE DEF at, order, n
<1>5. /\ at \in [1 .. n -> 1 .. n]
      /\ \A i, j \in 1 .. n : at[i] = at[j] => i = j
      /\ \A o \in 1 .. n : \E i \in 1 .. n : at[i] = o
      /\ \A i, j \in 1 .. n : i < j => ts[at[i]] >= ts[at[j]]
  BY <1>1, <1>4 DEF Bijection, Injection, IsInjective, Surjection
<1>6. \A k \in 1 .. n : order[k] = ts[at[k]] /\ order[k] \in Int
  BY <1>1, <1>2, <1>5
<1>7. order \in [1 .. n -> ToSet(ts)]
  BY <1>1, <1>2, <1>5 DEF ToSet
<1>8. ASSUME NEW t \in ToSet(ts) PROVE \E k \in 1 .. n : order[k] = t
  <2>1. PICK o \in 1 .. n : ts[o] = t
    BY <1>1 DEF ToSet
  <2>2. PICK k \in 1 .. n : at[k] = o
    BY <1>5
  <2> QED
    BY <1>6, <2>1, <2>2
<1>9. \A i, j \in 1 .. n : ts[i] = ts[j] => i = j
  <2>1. IsFiniteSet(1 .. n) /\ Cardinality(1 .. n) = n
    BY <1>1, FS_Interval
  <2>2. ts \in Surjection(1 .. n, ToSet(ts))
    BY <1>1 DEF Surjection, ToSet
  <2>3. Cardinality(1 .. n) = Cardinality(ToSet(ts))
    BY <2>1 DEF n
  <2>4. ts \in Injection(1 .. n, ToSet(ts))
    BY <2>1, <2>2, <2>3, FS_SurjSameCardinalityImpliesInj
  <2> QED
    BY <1>1, <2>4 DEF Injection, IsInjective
<1>10. ASSUME NEW i \in 1 .. n, NEW j \in 1 .. n, i < j PROVE order[j] < order[i]
  <2>0. i # j
    BY <1>1, <1>10
  <2>1. at[i] # at[j] /\ at[i] \in 1 .. n /\ at[j] \in 1 .. n
    BY <1>5, <2>0
  <2>2. ts[at[i]] # ts[at[j]]
    BY <1>9, <2>1
  <2>3. ts[at[i]] >= ts[at[j]]
    BY <1>5, <1>10
  <2>4. ts[at[i]] \in Int /\ ts[at[j]] \in Int
    BY <1>1, <2>1
  <2> QED
    BY <1>6, <2>2, <2>3, <2>4
<1> QED
  BY <1>7, <1>8, <1>10 DEF DropOrderOf, n, order

(***************************************************************************)
(* A drop takes its targets.                                               *)
(***************************************************************************)

\* After k of the drops in this order: the modules below the last target are
\* where they were, and the titles are those of the others.
Taken(c, order, k, d) ==
  /\ d \in Seq(ModuleSpec) /\ Len(d) <= Len(c) /\ Distinct(d)
  /\ \A p \in 1 .. Len(c) : (\A j \in 1 .. k : p - 1 < order[j]) =>
       p \in 1 .. Len(d) /\ d[p].title = c[p].title
  /\ Titles(d) = Titles(c) \ {c[order[j] + 1].title : j \in 1 .. k}

LEMMA TakenOneMore ==
  ASSUME NEW c \in Seq(ModuleSpec), NEW n \in Nat, NEW order \in [1 .. n -> Int],
         \A i, j \in 1 .. n : i < j => order[j] < order[i],
         NEW k \in 1 .. n, NEW d, Taken(c, order, k - 1, d), order[k] \in Indices(d),
         NEW e, DropResult(d, order[k] + 1, e)
  PROVE  Taken(c, order, k, e)
<1> DEFINE h == order[k] + 1
<1>1. /\ d \in Seq(ModuleSpec) /\ Distinct(d)
      /\ Len(c) \in Nat /\ Len(d) \in Nat /\ Len(d) <= Len(c)
      /\ DOMAIN d = 1 .. Len(d) /\ DOMAIN c = 1 .. Len(c)
  BY DEF Taken
<1>2. h \in 1 .. Len(d) /\ h \in 1 .. Len(c) /\ order[k] = h - 1
  <2>1. order[k] \in 0 .. Len(d) - 1
    BY DEF Indices
  <2>2. \A x \in Int, l, m \in Nat : x \in 0 .. l - 1 /\ l <= m =>
          x + 1 \in 1 .. l /\ x + 1 \in 1 .. m /\ x = x + 1 - 1
    OBVIOUS
  <2>3. order[k] \in Int
    OBVIOUS
  <2>4. Len(c) \in Nat /\ Len(d) \in Nat /\ Len(d) <= Len(c)
    BY <1>1
  <2>5. h \in 1 .. Len(d) /\ h \in 1 .. Len(c) /\ order[k] = order[k] + 1 - 1
    BY <2>1, <2>2, <2>3, <2>4, Zenon
  <2> QED
    BY <2>5
<1>3. \A j \in 1 .. k - 1 : h - 1 < order[j]
  BY <1>2
<1>4. d[h].title = c[h].title
  BY <1>2, <1>3 DEF Taken
<1> HIDE DEF h
<1>5. /\ e \in Seq(ModuleSpec) /\ Len(e) = Len(d) - 1
      /\ \A p \in 1 .. Len(d) - 1 : e[p].title = d[From(p, h)].title
  BY DEF DropResult, From, h
<1>6. DOMAIN e = 1 .. Len(d) - 1
  BY <1>1, <1>5
<1>7. \A p \in 1 .. Len(d) - 1 : From(p, h) \in 1 .. Len(d) /\ From(p, h) # h
  BY <1>1, <1>2 DEF From
<1>8. \A p, q \in 1 .. Len(d) - 1 : From(p, h) = From(q, h) => p = q
  BY <1>1, <1>2 DEF From
<1>9. ASSUME NEW o \in 1 .. Len(d), o # h PROVE \E p \in 1 .. Len(d) - 1 : From(p, h) = o
  <2>1. CASE o < h
    <3>1. o \in 1 .. Len(d) - 1 /\ From(o, h) = o
      BY <1>1, <1>2, <2>1 DEF From
    <3> QED
      BY <3>1
  <2>2. CASE ~(o < h)
    <3>1. o - 1 \in 1 .. Len(d) - 1 /\ From(o - 1, h) = o
      BY <1>1, <1>2, <1>9, <2>2 DEF From
    <3> QED
      BY <3>1
  <2> QED
    BY <2>1, <2>2
<1>10. Distinct(e)
  <2> SUFFICES ASSUME NEW p \in 1 .. Len(d) - 1, NEW q \in 1 .. Len(d) - 1,
                      e[p].title = e[q].title
               PROVE  p = q
    BY <1>6 DEF Distinct
  <2>1. d[From(p, h)].title = d[From(q, h)].title
    BY <1>5
  <2>2. From(p, h) = From(q, h)
    BY <1>1, <1>7, <2>1 DEF Distinct
  <2> QED
    BY <1>8, <2>2
<1>11. Titles(e) = Titles(d) \ {d[h].title}
  <2>1. ASSUME NEW p \in 1 .. Len(d) - 1 PROVE e[p].title \in Titles(d) /\ e[p].title # d[h].title
    <3>1. e[p].title = d[From(p, h)].title /\ From(p, h) \in DOMAIN d /\ From(p, h) # h
      BY <1>1, <1>5, <1>7
    <3>2. d[From(p, h)].title # d[h].title
      BY <1>1, <1>2, <3>1 DEF Distinct
    <3> QED
      BY <3>1, <3>2 DEF Titles
  <2>2. ASSUME NEW o \in 1 .. Len(d), d[o].title # d[h].title PROVE d[o].title \in Titles(e)
    <3>1. PICK p \in 1 .. Len(d) - 1 : From(p, h) = o
      BY <1>9, <2>2
    <3>2. e[p].title = d[o].title
      BY <1>5, <3>1
    <3> QED
      BY <1>6, <3>2 DEF Titles
  <2> QED
    BY <1>1, <1>6, <2>1, <2>2 DEF Titles
<1>12. ASSUME NEW p \in 1 .. Len(c), \A j \in 1 .. k : p - 1 < order[j]
       PROVE  p \in 1 .. Len(e) /\ e[p].title = c[p].title
  <2>1. p < h
    BY <1>2, <1>12
  <2>2. p \in 1 .. Len(d) - 1 /\ From(p, h) = p
    BY <1>1, <1>2, <2>1 DEF From
  <2>3. \A j \in 1 .. k - 1 : p - 1 < order[j]
    BY <1>12
  <2>4. d[p].title = c[p].title
    BY <2>3 DEF Taken
  <2> QED
    BY <1>5, <2>2, <2>4
<1>13. Titles(e) = Titles(c) \ {c[order[j] + 1].title : j \in 1 .. k}
  <2>1. Titles(d) = Titles(c) \ {c[order[j] + 1].title : j \in 1 .. k - 1}
    BY DEF Taken
  <2>2. \A j \in 1 .. k : j \in 1 .. k - 1 \/ j = k
    OBVIOUS
  <2>3. \A j \in 1 .. k - 1 : j \in 1 .. k
    OBVIOUS
  <2>4. k \in 1 .. k /\ c[order[k] + 1].title = d[h].title
    BY <1>4 DEF h
  <2> QED
    BY <1>11, <2>1, <2>2, <2>3, <2>4
<1>14. Len(e) <= Len(c)
  BY <1>1, <1>5
<1> QED
  BY <1>5, <1>10, <1>12, <1>13, <1>14 DEF Taken

LEMMA DropAllTakes ==
  ASSUME NEW c \in Seq(ModuleSpec), NEW ts \in Seq(Int), DropAll(c, ts).ok,
         Distinct(c), Cardinality(ToSet(ts)) = Len(ts)
  PROVE  Titles(DropAll(c, ts).course) = Titles(c) \ {c[t + 1].title : t \in ToSet(ts)}
<1> DEFINE n == Len(ts)
           acc == DropLoop(c, ts)
           order == DropOrder(ts)
           T == {k \in 0 .. n : acc[k].ok => Taken(c, order, k, acc[k].course)}
<1>1. n \in Nat /\ n \in 0 .. n /\ ToSet(ts) \in SUBSET Int
  BY DEF ToSet
<1>2. /\ acc \in [0 .. n -> DropAcc]
      /\ acc[0] = DropStart(c, ts)
      /\ \A k \in 1 .. n : acc[k] = DropStep(acc[k - 1], order[k])
  BY DropLoopFacts
<1>3. DropAll(c, ts) = acc[n]
  BY DEF DropAll
<1>4. /\ order \in [1 .. n -> ToSet(ts)]
      /\ \A t \in ToSet(ts) : \E k \in 1 .. n : order[k] = t
      /\ \A i, j \in 1 .. n : i < j => order[j] < order[i]
  BY DropOrderFacts DEF DropOrderOf
<1> HIDE DEF acc, n, order
<1>5. order \in [1 .. n -> Int]
  BY <1>1, <1>4
<1>6. 0 \in T
  <2>1. acc[0].course = c
    BY <1>2 DEF DropStart
  <2>2. Taken(c, order, 0, c)
    <3>1. {c[order[j] + 1].title : j \in 1 .. 0} = {}
      OBVIOUS
    <3> QED
      BY <3>1 DEF Taken
  <2> QED
    BY <1>1, <2>1, <2>2
<1>7. ASSUME NEW k \in 1 .. n, k - 1 \in T PROVE k \in T
  <2>1. k \in 0 .. n
    BY <1>1
  <2> SUFFICES ASSUME acc[k].ok PROVE Taken(c, order, k, acc[k].course)
    BY <2>1
  <2> DEFINE a == acc[k - 1]
             b == acc[k]
  <2>2. a \in DropAcc
    <3>1. k - 1 \in 0 .. n
      BY <1>1
    <3> QED
      BY <1>2, <3>1
  <2>3. b = DropStep(a, order[k])
    BY <1>2
  <2>4. b.ok
    OBVIOUS
  <2> HIDE DEF a, b
  <2>5. a.ok /\ order[k] \in Indices(a.course) /\ b.course = DropModule(a.course, order[k])
    BY <2>2, <2>3, <2>4, DropStepType
  <2>6. Taken(c, order, k - 1, a.course)
    BY <1>7, <2>5 DEF a
  <2>7. a.course \in Seq(ModuleSpec)
    BY <2>2 DEF DropAcc
  <2>8. DropResult(a.course, order[k] + 1, b.course)
    BY <2>5, <2>7, DropFacts
  <2>9. Taken(c, order, k, b.course)
    BY <1>1, <1>4, <1>5, <2>5, <2>6, <2>8, TakenOneMore
  <2> QED
    BY <2>9 DEF b
<1> HIDE DEF T
<1>8. \A k \in 0 .. n : k \in T
  BY <1>1, <1>6, <1>7, UpTo
<1>9. Taken(c, order, n, acc[n].course)
  BY <1>1, <1>3, <1>8 DEF T
<1>10. {c[order[j] + 1].title : j \in 1 .. n} = {c[t + 1].title : t \in ToSet(ts)}
  BY <1>4
<1> QED
  BY <1>3, <1>9, <1>10 DEF Taken

\* The list of modules shrinks while a drop goes through its targets, and still
\* it takes the modules with these numbers and no others, however many.
THEOREM DropTakesItsTargetsHolds == GateSpec => DropTakesItsTargets
<1>1. GateTypeOK /\ [GateNext]_gateVars =>
        (Edits /\ intent'.op = "drop" /\ Distinct(course)
               /\ Cardinality(ToSet(intent'.targets)) = Len(intent'.targets)
          => Titles(course') =
               Titles(course) \ {course[t + 1].title : t \in ToSet(intent'.targets)})
  <2> SUFFICES ASSUME GateTypeOK, [GateNext]_gateVars, Edits, intent'.op = "drop", Distinct(course),
                      Cardinality(ToSet(intent'.targets)) = Len(intent'.targets)
               PROVE  Titles(course') =
                        Titles(course) \ {course[t + 1].title : t \in ToSet(intent'.targets)}
    OBVIOUS
  <2>1. PICK op \in StructuralOp : Adjust(op)
    BY EditsAreAdjustments
  <2>2. /\ intent' \in Intent
        /\ Applies(course, intent')
        /\ course' = ApplyStructural(course, intent')
    BY <2>1, AdjustApplies
  <2>3. /\ DropAll(course, intent'.targets).ok
        /\ course' = DropAll(course, intent'.targets).course
    BY <2>2 DEF Applies, ApplyStructural
  <2>4. course \in Seq(ModuleSpec) /\ intent'.targets \in Seq(Int)
    BY <2>2 DEF GateTypeOK, Intent
  <2> QED
    BY <2>3, <2>4, DropAllTakes
<1> QED
  BY <1>1, GateTypeCorrect, PTL DEF GateSpec, DropTakesItsTargets

=============================================================================

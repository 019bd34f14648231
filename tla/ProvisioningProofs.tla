-------------------------- MODULE ProvisioningProofs -------------------------
(***************************************************************************)
(* What one-at-a-time use makes of the environment cache, for any number   *)
(* of processes, roots and requests, and any crashes.                      *)
(***************************************************************************)
EXTENDS Provisioning, TLAPS

Building == {"wipe", "create", "install", "measure", "register", "mark"}

MarkersStay == \A r \in Root : "marker" \in venv[r] => "marker" \in venv'[r]

\* One process is at work, and the disk under its root is as far as the
\* process is; what is marked is complete.
Sequential ==
  /\ TypeOK
  /\ \A b, c \in Builder : ~At(b, "idle") /\ ~At(c, "idle") => b = c
  /\ \A b \in Builder :
       /\ pc[b] \in Building => "marker" \notin venv[RootOf[b]]
       /\ pc[b] \in {"install", "measure", "register", "mark"} => "interpreter" \in venv[RootOf[b]]
       /\ pc[b] \in {"measure", "register", "mark"} => "packages" \in venv[RootOf[b]]
  /\ MarkerIsValid

\* One process at a time keeps the marker honest and a finished environment.
LEMMA NextSequential ==
  ASSUME Concurrent = FALSE, Sequential, [Next]_vars
  PROVE  Sequential' /\ MarkersStay
<1> USE RootAssumption
    DEF Sequential, MarkerIsValid, Complete, MarkersStay, Building, At, GoTo, Answer, CacheHit, Put
<1>1. ASSUME NEW b \in Builder, Request(b)
      PROVE  Sequential' /\ MarkersStay
  <2>1. attempts' \in [Builder -> 0..MaxAttempts]
    BY <1>1, AttemptsAssumption DEF Request, TypeOK
  <2>2. /\ pc' \in [Builder -> Step] /\ result' \in [Builder -> Result]
        /\ UNCHANGED <<venv, kernel>>
        /\ \A c \in Builder : c # b => pc'[c] = "idle"
        /\ pc'[b] \in {"answered", "wipe"}
        /\ pc'[b] = "wipe" => "marker" \notin venv[RootOf[b]]
    BY <1>1 DEF Request, TypeOK, Step, Result
  <2> QED
    BY <2>1, <2>2 DEF TypeOK
<1>2. ASSUME NEW b \in Builder, Wipe(b)
      PROVE  Sequential' /\ MarkersStay
  BY <1>2 DEF Wipe, TypeOK, Step, Part
<1>3. ASSUME NEW b \in Builder, Create(b)
      PROVE  Sequential' /\ MarkersStay
  BY <1>3 DEF Create, TypeOK, Step, Part
<1>4. ASSUME NEW b \in Builder, Install(b)
      PROVE  Sequential' /\ MarkersStay
  BY <1>4 DEF Install, TypeOK, Step, Part
<1>5. ASSUME NEW b \in Builder, Measure(b)
      PROVE  Sequential' /\ MarkersStay
  BY <1>5 DEF Measure, TypeOK, Step
<1>6. ASSUME NEW b \in Builder, Register(b)
      PROVE  Sequential' /\ MarkersStay
  BY <1>6 DEF Register, TypeOK, Step
<1>7. ASSUME NEW b \in Builder, Mark(b)
      PROVE  Sequential' /\ MarkersStay
  BY <1>7 DEF Mark, TypeOK, Step, Result, Part
<1>8. ASSUME NEW b \in Builder, Fail(b)
      PROVE  Sequential' /\ MarkersStay
  BY <1>8 DEF Fail, TypeOK, Step, Result, Part
<1>9. ASSUME NEW b \in Builder, Finish(b)
      PROVE  Sequential' /\ MarkersStay
  BY <1>9 DEF Finish, TypeOK, Step, Result
<1>10. ASSUME NEW b \in Builder, Crash(b)
       PROVE  Sequential' /\ MarkersStay
  BY <1>10 DEF Crash, TypeOK, Step, Result
<1>11. CASE UNCHANGED vars
  BY <1>11 DEF vars, TypeOK
<1> QED
  BY <1>1, <1>2, <1>3, <1>4, <1>5, <1>6, <1>7, <1>8, <1>9, <1>10, <1>11
  DEF Next, Advance, Done

LEMMA AlwaysSequential ==
  ASSUME Concurrent = FALSE
  PROVE  Spec => []Sequential
<1>1. Init => Sequential
  BY RootAssumption, AttemptsAssumption
  DEF Init, Sequential, TypeOK, Step, Result, Part, At, Building, MarkerIsValid, Complete
<1> QED
  BY <1>1, NextSequential, PTL DEF Spec

\* Used by one process at a time, under any number of roots and through any
\* crash or failed build, the cache never marks an environment that is not
\* complete.
THEOREM MarkerIsValidHolds ==
  ASSUME Concurrent = FALSE
  PROVE  Spec => []MarkerIsValid
<1>1. Sequential => MarkerIsValid
  BY DEF Sequential
<1> QED
  BY <1>1, AlwaysSequential, PTL

\* Used by one process at a time, the cache never takes a finished environment
\* away: what was downloaded once is reused.
THEOREM FinishedEnvironmentsStayHolds ==
  ASSUME Concurrent = FALSE
  PROVE  Spec => FinishedEnvironmentsStay
<1>1. Sequential /\ [Next]_vars
        => [\A r \in Root : "marker" \in venv[r] => "marker" \in venv'[r]]_vars
  BY NextSequential DEF MarkersStay
<1> QED
  BY <1>1, AlwaysSequential, PTL DEF Spec, FinishedEnvironmentsStay

\* A finished environment has had its kernel registered, and the process that
\* built it leaves the name to nobody else while it holds the answer.
KernelFollows ==
  /\ \A r \in Root : "marker" \in venv[r] => kernel \in Root
  /\ \A b \in Builder :
       /\ pc[b] = "mark" => kernel = RootOf[b]
       /\ Ok(b) => pc[b] = "answered" /\ "marker" \in venv[RootOf[b]]
       /\ result[b] = "built" => kernel = RootOf[b]

LEMMA NextKernelFollows ==
  ASSUME Concurrent = FALSE, Sequential, KernelFollows, [Next]_vars
  PROVE  KernelFollows'
<1> USE RootAssumption
    DEF Sequential, KernelFollows, Ok, Building, At, GoTo, Answer, CacheHit, Put, TypeOK
<1>1. ASSUME NEW b \in Builder, Request(b) PROVE KernelFollows'
  BY <1>1 DEF Request, Step, Result
<1>2. ASSUME NEW b \in Builder, Wipe(b) PROVE KernelFollows'
  BY <1>2 DEF Wipe, Step, Result
<1>3. ASSUME NEW b \in Builder, Create(b) PROVE KernelFollows'
  BY <1>3 DEF Create, Step, Result
<1>4. ASSUME NEW b \in Builder, Install(b) PROVE KernelFollows'
  BY <1>4 DEF Install, Step, Result
<1>5. ASSUME NEW b \in Builder, Measure(b) PROVE KernelFollows'
  BY <1>5 DEF Measure, Step, Result
<1>6. ASSUME NEW b \in Builder, Register(b) PROVE KernelFollows'
  BY <1>6 DEF Register, Step, Result
<1>7. ASSUME NEW b \in Builder, Mark(b) PROVE KernelFollows'
  BY <1>7 DEF Mark, Step, Result
<1>8. ASSUME NEW b \in Builder, Fail(b) PROVE KernelFollows'
  BY <1>8 DEF Fail, Step, Result
<1>9. ASSUME NEW b \in Builder, Finish(b) PROVE KernelFollows'
  BY <1>9 DEF Finish, Step, Result
<1>10. ASSUME NEW b \in Builder, Crash(b) PROVE KernelFollows'
  BY <1>10 DEF Crash, Step, Result
<1>11. CASE UNCHANGED vars
  BY <1>11 DEF vars
<1> QED
  BY <1>1, <1>2, <1>3, <1>4, <1>5, <1>6, <1>7, <1>8, <1>9, <1>10, <1>11
  DEF Next, Advance, Done

LEMMA AlwaysFollows ==
  ASSUME Concurrent = FALSE
  PROVE  Spec => []KernelFollows
<1>1. Init => KernelFollows
  BY RootAssumption DEF Init, KernelFollows, Ok
<1> QED
  BY <1>1, NextKernelFollows, AlwaysSequential, PTL DEF Spec

\* Used by one process at a time, under any number of roots, an "ok" is misleading
\* only where a cache hit meets a name that another root has taken.
THEOREM OnlyASharedNameMisleadsHolds ==
  ASSUME Concurrent = FALSE
  PROVE  Spec => []OnlyASharedNameMisleads
<1>1. Sequential /\ KernelFollows => OnlyASharedNameMisleads
  BY RootAssumption
  DEF Sequential, KernelFollows, OnlyASharedNameMisleads, MarkerIsValid, Complete, Ok
<1> QED
  BY <1>1, AlwaysFollows, AlwaysSequential, PTL

\* "ok: True when the lesson can run (a kernel is ready ...)".
OkMeansAKernelIsReady ==
  \A b \in Builder : Ok(b) => kernel # None /\ Complete(kernel)

\* Used by one process at a time under a single root, an "ok" means what
\* ProvisionResult says: the registered kernel runs in a complete environment.
THEOREM OkMeansAKernelIsReadyHolds ==
  ASSUME Concurrent = FALSE, \A r, s \in Root : r = s
  PROVE  Spec => []OkMeansAKernelIsReady
<1>1. OnlyASharedNameMisleads => OkMeansAKernelIsReady
  BY RootAssumption DEF OnlyASharedNameMisleads, OkMeansAKernelIsReady, Complete
<1> QED
  BY <1>1, OnlyASharedNameMisleadsHolds, PTL

=============================================================================

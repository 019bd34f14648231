---------------------------- MODULE Provisioning -----------------------------
(***************************************************************************)
(* The environment cache (forged/provisioning.py): processes that ask for  *)
(* the environment of one requirement set, each under a cache root of its  *)
(* own or a shared one.  Venvs live under a root; the Jupyter kernel is    *)
(* registered for the user, under one name for all roots.  There is no     *)
(* lock: what keeps the cache valid is the order of the steps and the      *)
(* marker written last.                                                    *)
(*                                                                         *)
(* The early returns (a malformed block, no requirements, a policy that    *)
(* refuses a package) touch nothing and are left out; so is the warm-up,   *)
(* whose failures are suppressed.  A subprocess is one step, at its end.   *)
(***************************************************************************)
EXTENDS Naturals, FiniteSets

CONSTANTS
  Builder,      \* processes that provision
  Root,         \* cache roots
  RootOf,       \* the root each process works under (its run directory's parent)
  Concurrent,   \* may two processes run at the same time
  MaxAttempts,  \* bound on the requests of one process
  None          \* no kernel registered

ASSUME RootAssumption == RootOf \in [Builder -> Root] /\ None \notin Root
ASSUME ConcurrentAssumption == Concurrent \in BOOLEAN
ASSUME AttemptsAssumption == MaxAttempts \in Nat

VARIABLES
  venv,      \* what is on disk under each root
  kernel,    \* the root the registered kernel runs in, or None
  pc,        \* where each process stands
  result,    \* what its last request returned
  attempts   \* requests made so far

vars == <<venv, kernel, pc, result, attempts>>

Step == {"idle", "wipe", "create", "install", "measure", "register", "mark", "answered"}

\* A ProvisionResult with ok is a cache hit or a fresh build.
Result == {"none", "hit", "built", "failed", "raised"}
Ok(b) == result[b] \in {"hit", "built"}

\* What a venv directory holds; it is there as soon as it holds something.
Part == {"interpreter", "packages", "marker"}
Put(b, part) == venv' = [venv EXCEPT ![RootOf[b]] = @ \cup {part}]

Init ==
  /\ venv = [r \in Root |-> {}]
  /\ kernel = None
  /\ pc = [b \in Builder |-> "idle"]
  /\ result = [b \in Builder |-> "none"]
  /\ attempts = [b \in Builder |-> 0]

At(b, step) == pc[b] = step
GoTo(b, step) == pc' = [pc EXCEPT ![b] = step]
Answer(b, answer) == GoTo(b, "answered") /\ result' = [result EXCEPT ![b] = answer]

\* Mutation: a directory is taken for an environment.
CacheHitByDirectory(r) == venv[r] # {}

\* Mutation: every request builds.
CacheHitNever(r) == FALSE

CacheHit(r) == "marker" \in venv[r]

\* provision_environment: the marker decides.
Request(b) ==
  /\ At(b, "idle")
  /\ attempts[b] < MaxAttempts
  /\ Concurrent \/ \A c \in Builder : At(c, "idle")
  /\ attempts' = [attempts EXCEPT ![b] = @ + 1]
  /\ IF CacheHit(RootOf[b]) THEN Answer(b, "hit") ELSE GoTo(b, "wipe") /\ UNCHANGED result
  /\ UNCHANGED <<venv, kernel>>

\* _build_environment: never install on top of a previous partial build.
Wipe(b) ==
  /\ At(b, "wipe")
  /\ venv' = [venv EXCEPT ![RootOf[b]] = {}]
  /\ GoTo(b, "create")
  /\ UNCHANGED <<kernel, result, attempts>>

\* Mutation: the marker is written with the directory.
CreateMarked(b) ==
  /\ At(b, "create")
  /\ venv' = [venv EXCEPT ![RootOf[b]] = @ \cup {"interpreter", "marker"}]
  /\ GoTo(b, "install")
  /\ UNCHANGED <<kernel, result, attempts>>

Create(b) ==
  /\ At(b, "create")
  /\ Put(b, "interpreter")
  /\ GoTo(b, "install")
  /\ UNCHANGED <<kernel, result, attempts>>

\* Runs the venv's own interpreter, so the venv must still be there.
Install(b) ==
  /\ At(b, "install")
  /\ "interpreter" \in venv[RootOf[b]]
  /\ Put(b, "packages")
  /\ GoTo(b, "measure")
  /\ UNCHANGED <<kernel, result, attempts>>

Measure(b) ==
  /\ At(b, "measure")
  /\ GoTo(b, "register")
  /\ UNCHANGED <<venv, kernel, result, attempts>>

Register(b) ==
  /\ At(b, "register")
  /\ {"interpreter", "packages"} \subseteq venv[RootOf[b]]
  /\ kernel' = RootOf[b]
  /\ GoTo(b, "mark")
  /\ UNCHANGED <<venv, result, attempts>>

\* The marker is written outside the try: without its directory the write raises.
Mark(b) ==
  /\ At(b, "mark")
  /\ IF venv[RootOf[b]] # {}
     THEN Put(b, "marker") /\ Answer(b, "built")
     ELSE UNCHANGED venv /\ Answer(b, "raised")
  /\ UNCHANGED <<kernel, attempts>>

\* fail(): a step returned an error, timed out, found no interpreter, or the
\* environment is over its size.  A registration that timed out may have
\* registered all the same.
Fail(b) ==
  /\ pc[b] \in {"create", "install", "measure", "register"}
  /\ kernel' \in IF At(b, "register") THEN {kernel, RootOf[b]} ELSE {kernel}
  /\ venv' = [venv EXCEPT ![RootOf[b]] = {}]
  /\ Answer(b, "failed")
  /\ UNCHANGED attempts

\* The caller is done with the answer (the notebook ran, or the run ended).
Finish(b) ==
  /\ At(b, "answered")
  /\ GoTo(b, "idle")
  /\ result' = [result EXCEPT ![b] = "none"]
  /\ UNCHANGED <<venv, kernel, attempts>>

\* The process is killed; the disk stays as it is.
Crash(b) ==
  /\ ~At(b, "idle")
  /\ GoTo(b, "idle")
  /\ result' = [result EXCEPT ![b] = "none"]
  /\ UNCHANGED <<venv, kernel, attempts>>

\* Every process has made its requests.
Done ==
  /\ \A b \in Builder : At(b, "idle") /\ attempts[b] = MaxAttempts
  /\ UNCHANGED vars

Advance(b) ==
  \/ Request(b) \/ Wipe(b) \/ Create(b) \/ Install(b) \/ Measure(b) \/ Register(b)
  \/ Mark(b) \/ Fail(b) \/ Finish(b)

Next == (\E b \in Builder : Advance(b) \/ Crash(b)) \/ Done

Spec == Init /\ [][Next]_vars

-----------------------------------------------------------------------------
TypeOK ==
  /\ venv \in [Root -> SUBSET Part]
  /\ kernel \in Root \cup {None}
  /\ pc \in [Builder -> Step]
  /\ result \in [Builder -> Result]
  /\ attempts \in [Builder -> 0..MaxAttempts]

\* An environment a notebook can run in.
Complete(r) == {"interpreter", "packages"} \subseteq venv[r]

\* "The marker is the cache validity flag": a venv that carries it has an
\* interpreter and its packages, after any crash and any failed build.
MarkerIsValid == \A r \in Root : "marker" \in venv[r] => Complete(r)

\* "ok: True when the lesson can run (a kernel is ready ...)", as far as it goes
\* with several roots: while a caller holds an ok, its own environment is
\* complete, and the registered kernel runs in it, unless the answer was a cache
\* hit and the kernel's name, the same under every root, has been taken by
\* another root since (provision_environment, line 220).
OnlyASharedNameMisleads ==
  \A b \in Builder : Ok(b) =>
    /\ Complete(RootOf[b])
    /\ kernel # RootOf[b] => result[b] = "hit" /\ kernel \in Root

\* "Heavy deps download once, reused across runs": no step takes a finished
\* environment away.
FinishedEnvironmentsStay == 
  [][\A r \in Root : "marker" \in venv[r] => "marker" \in venv'[r]]_vars

=============================================================================

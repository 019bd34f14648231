----------------------------- MODULE ModelCalls ------------------------------
(***************************************************************************)
(* The model calls the service makes in the UI process (service.py 347-433 *)
(* and 538-554, llm.py).  A click on "plan" or "adjust" asks one to three  *)
(* models in turn, inside a scope that puts the learner's API key into the *)
(* environment of the process; the SDK client of an agent reads it there   *)
(* when it is first used.  Clicks of several tabs overlap.                 *)
(***************************************************************************)
EXTENDS Integers, Sequences

CONSTANTS Caller,   \* clicks under way
          Request,  \* what a caller clicked: "plan" or "adjust"
          Key,
          KeyOf,    \* the key a caller typed
          NoKey,
          Ambient,  \* OPENAI_API_KEY when the process started
          Traced,   \* is Langfuse there and configured
          None

ASSUME KeyAssumption == NoKey \notin Key /\ Ambient \in Key \cup {NoKey}
ASSUME CallerAssumption ==
  /\ Request \in [Caller -> {"plan", "adjust"}]
  /\ KeyOf \in [Caller -> Key \cup {NoKey}]
  /\ None \notin Caller /\ None \notin Key /\ None # NoKey
ASSUME TracedAssumption == Traced \in BOOLEAN

VARIABLES
  pc,         \* where a caller is
  lock,       \* _KEY_LOCK: its holder, or None
  env,        \* OPENAI_API_KEY
  previous,   \* what the holder of the lock found there
  client,     \* the key of each agent's SDK client, None until it is built
  remaining,  \* the agents a caller has not asked yet
  tries,      \* requests sent for the call under way
  tracer,     \* the state of _TRACER
  tracers     \* observer: Langfuse clients built

vars == <<pc, lock, env, previous, client, remaining, tries, tracer, tracers>>

Agent == {"planner", "assessor", "adjuster"}

\* The agents asked in turn: a plan is assessed and, if it is not ready, planned
\* again by the same planner; a change may need a plan, by a planner of its own.
PlanCalls == <<"planner", "assessor", "planner">>
AdjustCalls == <<"adjuster", "planner">>

\* In a request the first remaining agent is the one asked.
Step == {"idle", "scope", "locking", "observing", "request", "done"}

Init ==
  /\ pc = [c \in Caller |-> "idle"]
  /\ lock = None
  /\ env = Ambient
  /\ previous = NoKey
  /\ client = [c \in Caller |-> [a \in Agent |-> None]]
  /\ remaining = [c \in Caller |-> IF Request[c] = "plan" THEN PlanCalls ELSE AdjustCalls]
  /\ tries = [c \in Caller |-> 0]
  /\ tracer = "unset"
  /\ tracers = 0

Goto(c, step) == pc' = [pc EXCEPT ![c] = step]

-----------------------------------------------------------------------------
\* The key scope

\* Mutation: nobody waits for the lock.
EnterUnlocked(c) ==
  /\ pc[c] = "idle"
  /\ Goto(c, "scope")
  /\ IF KeyOf[c] = NoKey THEN UNCHANGED <<lock, env, previous>>
     ELSE lock' = c /\ previous' = env /\ env' = KeyOf[c]
  /\ UNCHANGED <<client, remaining, tries, tracer, tracers>>

\* A call without a key takes no lock.
Enter(c) ==
  /\ pc[c] = "idle"
  /\ Goto(c, "scope")
  /\ IF KeyOf[c] = NoKey THEN UNCHANGED <<lock, env, previous>>
     ELSE lock = None /\ lock' = c /\ previous' = env /\ env' = KeyOf[c]
  /\ UNCHANGED <<client, remaining, tries, tracer, tracers>>

\* Mutation: the lock is not given back.
LeaveLocked(c) ==
  /\ pc[c] = "scope"
  /\ Goto(c, "done")
  /\ env' = IF lock = c THEN previous ELSE env
  /\ UNCHANGED <<lock, previous, client, remaining, tries, tracer, tracers>>

\* At the end, with an error or without: the models that were asked may have
\* answered all that was needed, or one of them failed.
Leave(c) ==
  /\ pc[c] = "scope"
  /\ Goto(c, "done")
  /\ IF lock = c THEN lock' = None /\ env' = previous ELSE UNCHANGED <<lock, env>>
  /\ UNCHANGED <<previous, client, remaining, tries, tracer, tracers>>

-----------------------------------------------------------------------------
\* One call: LLMClient.complete

EndCall(c) ==
  /\ Goto(c, "scope")
  /\ remaining' = [remaining EXCEPT ![c] = Tail(@)]
  /\ tries' = [tries EXCEPT ![c] = 0]

\* The tracer is looked at without its lock.
TracerSeen == IF tracer = "unset" /\ ~Traced THEN "off" ELSE tracer

\* The client is built on first use and kept; without a key that fails.
Ask(c) ==
  /\ pc[c] = "scope"
  /\ remaining[c] # <<>>
  /\ LET agent == Head(remaining[c])
         key == IF client[c][agent] # None THEN client[c][agent] ELSE env
     IN  IF key = NoKey THEN EndCall(c) /\ UNCHANGED <<client, tracer>>
         ELSE /\ client' = [client EXCEPT ![c][agent] = key]
              /\ tries' = [tries EXCEPT ![c] = 1]
              /\ tracer' = TracerSeen
              /\ Goto(c, CASE TracerSeen = "unset" -> "locking"
                           [] TracerSeen = "ready" -> "observing"
                           [] OTHER -> "request")
              /\ UNCHANGED remaining
  /\ UNCHANGED <<lock, env, previous, tracers>>

\* Mutation: it is built without looking again.
MakeTracerUnchecked(c) ==
  /\ pc[c] = "locking"
  /\ \/ tracer' = "ready" /\ tracers' = tracers + 1
     \/ tracer' = "off" /\ UNCHANGED tracers
  /\ Goto(c, IF tracer' = "ready" THEN "observing" ELSE "request")
  /\ UNCHANGED <<lock, env, previous, client, remaining, tries>>

\* With its lock: looked at again, then built, or given up for good.
MakeTracer(c) ==
  /\ pc[c] = "locking"
  /\ \/ tracer = "unset" /\ tracer' = "ready" /\ tracers' = tracers + 1
     \/ tracer = "unset" /\ tracer' = "off" /\ UNCHANGED tracers
     \/ tracer # "unset" /\ UNCHANGED <<tracer, tracers>>
  /\ Goto(c, IF tracer' = "ready" THEN "observing" ELSE "request")
  /\ UNCHANGED <<lock, env, previous, client, remaining, tries>>

\* An error of the tracer while it opens the observation fails the call.
Observe(c) ==
  /\ pc[c] = "observing"
  /\ \/ Goto(c, "request") /\ UNCHANGED <<remaining, tries>>
     \/ EndCall(c)
  /\ UNCHANGED <<lock, env, previous, client, tracer, tracers>>

\* The request is answered or fails; an answer cut off before its first word is
\* asked for once more.
Respond(c) ==
  /\ pc[c] = "request"
  /\ \/ EndCall(c)
     \/ tries[c] = 1 /\ tries' = [tries EXCEPT ![c] = 2] /\ UNCHANGED <<pc, remaining>>
  /\ UNCHANGED <<lock, env, previous, client, tracer, tracers>>

-----------------------------------------------------------------------------
Act(c) == Enter(c) \/ Ask(c) \/ MakeTracer(c) \/ Observe(c) \/ Respond(c) \/ Leave(c)

Next == \E c \in Caller : Act(c)

\* A thread that can go on does; the SDK's own timeout ends a request.
Spec == Init /\ [][Next]_vars /\ \A c \in Caller : WF_vars(Act(c))

-----------------------------------------------------------------------------
\* Properties

\* Type invariant: a call is two requests at most, and the process has one
\* Langfuse client at most, however many first calls meet.
CallsTypeOK ==
  /\ pc \in [Caller -> Step]
  /\ lock \in Caller \cup {None}
  /\ env \in Key \cup {NoKey}
  /\ previous \in Key \cup {NoKey}
  /\ client \in [Caller -> [Agent -> Key \cup {None}]]
  /\ remaining \in [Caller -> Seq(Agent)]
  /\ tries \in [Caller -> 0 .. 2]
  /\ tracer \in {"unset", "ready", "off"}
  /\ tracers = IF tracer = "ready" THEN 1 ELSE 0

\* What a key is used for: the requests of a learner who typed one are made with
\* it, whichever calls of other tabs, with another key or with none, begin and
\* end meanwhile, and when no call with a key is under way the environment of
\* the process is what it was (_api_key_scope).
KeysStayApart ==
  /\ \A c \in Caller :
       KeyOf[c] # NoKey /\ pc[c] = "request" => client[c][Head(remaining[c])] = KeyOf[c]
  /\ lock = None => env = Ambient

\* Every click is answered: no caller waits for the lock for good, also when
\* calls fail inside the scope.
CallsEnd == <>(\A c \in Caller : pc[c] = "done")

=============================================================================

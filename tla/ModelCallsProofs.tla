--------------------------- MODULE ModelCallsProofs --------------------------
(***************************************************************************)
(* Proofs about ModelCalls for any callers, keys, agents and scripts: the  *)
(* key scope is a critical section, and what a client was built with is    *)
(* the key of the section it was built in.                                 *)
(***************************************************************************)
EXTENDS ModelCalls, TLAPS

InScope(c) == pc[c] \notin {"idle", "done"}
InCall(c) == pc[c] \in {"locking", "observing", "request"}
Keyed(c) == KeyOf[c] # NoKey

\* A call under way has an agent to ask.
CallsAreOfAnAgent == \A c \in Caller : InCall(c) => remaining[c] # <<>>

\* The holder of the lock is the one caller with a key in its scope, and it
\* found the environment as it was.
LockIsHeld ==
  /\ \A c \in Caller : Keyed(c) /\ InScope(c) => lock = c
  /\ lock \in Caller => Keyed(lock) /\ InScope(lock)

EnvIsOfTheHolder ==
  IF lock = None THEN env = Ambient ELSE env = KeyOf[lock] /\ previous = Ambient

\* Clients are built with the caller's key, and before they are used.
ClientsAreOwn ==
  \A c \in Caller : Keyed(c) =>
    /\ \A a \in Agent : client[c][a] \in {None, KeyOf[c]}
    /\ InCall(c) => client[c][Head(remaining[c])] = KeyOf[c]

IInv == CallsTypeOK /\ CallsAreOfAnAgent /\ LockIsHeld /\ EnvIsOfTheHolder /\ ClientsAreOwn

-----------------------------------------------------------------------------
\* A sequence that is not empty has a first agent, and a rest.
LEMMA HeadAndTail ==
  ASSUME NEW s \in Seq(Agent), s # <<>>
  PROVE  Head(s) \in Agent /\ Tail(s) \in Seq(Agent)
OBVIOUS

\* The process starts in the invariant.
LEMMA Starts == Init => IInv
<1> SUFFICES ASSUME Init PROVE IInv
  OBVIOUS
<1> USE DEF Init
<1>0. PlanCalls \in Seq(Agent) /\ AdjustCalls \in Seq(Agent)
  BY DEF PlanCalls, AdjustCalls, Agent
<1>1. CallsTypeOK
  BY <1>0, KeyAssumption, CallerAssumption DEF CallsTypeOK, Step
<1>2. CallsAreOfAnAgent
  BY DEF CallsAreOfAnAgent, InCall
<1>3. LockIsHeld
  BY CallerAssumption DEF LockIsHeld, InScope
<1>4. EnvIsOfTheHolder
  BY DEF EnvIsOfTheHolder
<1>5. ClientsAreOwn
  BY DEF ClientsAreOwn, InCall
<1> QED
  BY <1>1, <1>2, <1>3, <1>4, <1>5 DEF IInv

\* A step of one caller keeps what is said of types and calls under way.
LEMMA TypesStay ==
  ASSUME IInv, NEW c \in Caller, Act(c)
  PROVE  CallsTypeOK' /\ CallsAreOfAnAgent'
<1>1. /\ CallsTypeOK /\ CallsAreOfAnAgent
      /\ pc[c] \in Step
      /\ remaining[c] \in Seq(Agent)
  BY DEF IInv, CallsTypeOK
<1>2. remaining[c] # <<>> => Tail(remaining[c]) \in Seq(Agent) /\ Head(remaining[c]) \in Agent
  BY <1>1, HeadAndTail
<1>3. CASE Enter(c)
  <2>1. /\ pc' = [pc EXCEPT ![c] = "scope"]
        /\ UNCHANGED <<client, remaining, tries, tracer, tracers>>
    BY <1>3 DEF Enter, Goto
  <2>2. /\ lock' \in Caller \cup {None}
        /\ env' \in Key \cup {NoKey}
        /\ previous' \in Key \cup {NoKey}
    <3>1. CASE KeyOf[c] = NoKey
      BY <1>1, <1>3, <3>1 DEF Enter, CallsTypeOK
    <3>2. CASE KeyOf[c] # NoKey
      BY <1>1, <1>3, <3>2, CallerAssumption DEF Enter, CallsTypeOK
    <3> QED
      BY <3>1, <3>2
  <2> QED
    BY <1>1, <2>1, <2>2 DEF CallsTypeOK, CallsAreOfAnAgent, InCall, Step
<1>4. CASE Ask(c)
  <2>1. CASE pc' = [pc EXCEPT ![c] = "scope"] /\ EndCall(c) /\ UNCHANGED <<client, tracer>>
    BY <1>1, <1>2, <1>4, <2>1 DEF Ask, EndCall, CallsTypeOK, CallsAreOfAnAgent, InCall, Step
  <2>2. CASE ~(EndCall(c) /\ UNCHANGED <<client, tracer>>)
    <3> DEFINE agent == Head(remaining[c])
               key == IF client[c][agent] # None THEN client[c][agent] ELSE env
    <3>1. /\ key \in Key
          /\ client' = [client EXCEPT ![c][agent] = key]
          /\ tries' = [tries EXCEPT ![c] = 1]
          /\ tracer' = TracerSeen
          /\ pc' = [pc EXCEPT ![c] = CASE TracerSeen = "unset" -> "locking"
                                       [] TracerSeen = "ready" -> "observing"
                                       [] OTHER -> "request"]
          /\ UNCHANGED <<remaining, lock, env, previous, tracers>>
          /\ remaining[c] # <<>>
      BY <1>1, <1>2, <1>4, <2>2 DEF Ask, Goto, CallsTypeOK
    <3>2. client' \in [Caller -> [Agent -> Key \cup {None}]]
      BY <1>1, <1>2, <3>1 DEF CallsTypeOK
    <3>3. tracer' \in {"unset", "ready", "off"} /\ tracers' = IF tracer' = "ready" THEN 1 ELSE 0
      BY <1>1, <3>1 DEF CallsTypeOK, TracerSeen
    <3>4. pc' \in [Caller -> Step]
      BY <1>1, <3>1 DEF CallsTypeOK, Step
    <3> QED
      BY <1>1, <3>1, <3>2, <3>3, <3>4 DEF CallsTypeOK, CallsAreOfAnAgent, InCall
  <2> QED
    BY <2>1, <2>2 DEF EndCall, Goto
<1>5. CASE MakeTracer(c)
  BY <1>1, <1>5 DEF MakeTracer, Goto, CallsTypeOK, CallsAreOfAnAgent, InCall, Step
<1>6. CASE Observe(c) \/ Respond(c)
  <2>1. /\ UNCHANGED <<lock, env, previous, client, tracer, tracers>>
        /\ remaining[c] # <<>>
    BY <1>1, <1>6 DEF Observe, Respond, CallsAreOfAnAgent, InCall
  <2>2. CASE EndCall(c)
    <3>1. /\ pc' = [pc EXCEPT ![c] = "scope"]
          /\ remaining' = [remaining EXCEPT ![c] = Tail(remaining[c])]
          /\ tries' = [tries EXCEPT ![c] = 0]
      BY <2>2 DEF EndCall, Goto
    <3>2. remaining' \in [Caller -> Seq(Agent)]
      BY <1>1, <1>2, <2>1, <3>1 DEF CallsTypeOK
    <3> QED
      BY <1>1, <2>1, <3>1, <3>2 DEF CallsTypeOK, CallsAreOfAnAgent, InCall, Step
  <2>3. CASE ~EndCall(c)
    <3>1. /\ pc' = [pc EXCEPT ![c] = "request"] \/ pc' = pc
          /\ tries' = [tries EXCEPT ![c] = 2] \/ tries' = tries
          /\ remaining' = remaining
      BY <1>6, <2>3 DEF Observe, Respond, Goto
    <3>2. pc' \in [Caller -> Step] /\ tries' \in [Caller -> 0 .. 2]
      <4>1. pc \in [Caller -> Step] /\ tries \in [Caller -> 0 .. 2]
        BY <1>1 DEF CallsTypeOK
      <4>2. pc' \in [Caller -> Step]
        BY <3>1, <4>1 DEF Step
      <4>3. tries' \in [Caller -> 0 .. 2]
        BY <3>1, <4>1
      <4> QED
        BY <4>2, <4>3
    <3>3. CallsTypeOK'
      BY <1>1, <2>1, <3>1, <3>2 DEF CallsTypeOK
    <3>4. \A d \in Caller : d # c => pc'[d] = pc[d]
      BY <1>1, <3>1 DEF CallsTypeOK
    <3>5. CallsAreOfAnAgent'
      BY <1>1, <2>1, <3>1, <3>4 DEF CallsAreOfAnAgent, InCall
    <3> QED
      BY <3>3, <3>5
  <2> QED
    BY <2>2, <2>3
<1>7. CASE Leave(c)
  BY <1>1, <1>7 DEF Leave, Goto, CallsTypeOK, CallsAreOfAnAgent, InCall, Step
<1> QED
  BY <1>3, <1>4, <1>5, <1>6, <1>7 DEF Act

\* Inside a scope a step touches neither the lock nor the environment, and the
\* caller stays in its scope.
LEMMA InsideTheScope ==
  ASSUME IInv, NEW c \in Caller, Ask(c) \/ MakeTracer(c) \/ Observe(c) \/ Respond(c)
  PROVE  /\ UNCHANGED <<lock, env, previous>>
         /\ InScope(c) /\ InScope(c)'
         /\ \A d \in Caller \ {c} : pc'[d] = pc[d] /\ remaining'[d] = remaining[d]
BY DEF IInv, CallsTypeOK, Ask, MakeTracer, Observe, Respond, EndCall, Goto, InScope

\* The key scope is a critical section.
LEMMA SectionsStay ==
  ASSUME IInv, NEW c \in Caller, Act(c)
  PROVE  LockIsHeld' /\ EnvIsOfTheHolder'
<1>1. CallsTypeOK /\ LockIsHeld /\ EnvIsOfTheHolder
  BY DEF IInv
<1>2. CASE Enter(c)
  <2>1. pc[c] = "idle" /\ pc' = [pc EXCEPT ![c] = "scope"]
    BY <1>2 DEF Enter, Goto
  <2>2. CASE KeyOf[c] = NoKey
    <3>1. lock # c
      BY <1>1, <2>1, <2>2, CallerAssumption DEF LockIsHeld, InScope, Keyed
    <3> QED
      BY <1>1, <1>2, <2>1, <2>2, <3>1
         DEF Enter, CallsTypeOK, LockIsHeld, EnvIsOfTheHolder, InScope, Keyed
  <2>3. CASE KeyOf[c] # NoKey
    BY <1>1, <1>2, <2>1, <2>3, CallerAssumption
       DEF Enter, CallsTypeOK, LockIsHeld, EnvIsOfTheHolder, InScope, Keyed
  <2> QED
    BY <2>2, <2>3
<1>3. CASE Ask(c) \/ MakeTracer(c) \/ Observe(c) \/ Respond(c)
  <2>1. /\ UNCHANGED <<lock, env, previous>>
        /\ InScope(c) /\ InScope(c)'
        /\ \A d \in Caller \ {c} : pc'[d] = pc[d]
    BY <1>3, InsideTheScope
  <2> QED
    BY <1>1, <2>1 DEF LockIsHeld, EnvIsOfTheHolder, InScope, Keyed
<1>4. CASE Leave(c)
  <2>1. pc[c] = "scope" /\ pc' = [pc EXCEPT ![c] = "done"] /\ UNCHANGED previous
    BY <1>4 DEF Leave, Goto
  <2>2. CASE lock = c
    <3>1. lock' = None /\ env' = Ambient /\ Keyed(c)
      BY <1>1, <1>4, <2>2, CallerAssumption DEF Leave, EnvIsOfTheHolder, LockIsHeld
    <3>2. \A d \in Caller \ {c} : ~(Keyed(d) /\ InScope(d))
      BY <1>1, <2>2 DEF LockIsHeld
    <3> QED
      BY <1>1, <2>1, <3>1, <3>2, CallerAssumption
         DEF CallsTypeOK, LockIsHeld, EnvIsOfTheHolder, InScope, Keyed
  <2>3. CASE lock # c
    <3>1. ~Keyed(c) /\ UNCHANGED <<lock, env>>
      BY <1>1, <1>4, <2>1, <2>3 DEF Leave, LockIsHeld, InScope
    <3> QED
      BY <1>1, <2>1, <2>3, <3>1 DEF CallsTypeOK, LockIsHeld, EnvIsOfTheHolder, InScope, Keyed
  <2> QED
    BY <2>2, <2>3
<1> QED
  BY <1>2, <1>3, <1>4 DEF Act

\* Clients keep the caller's key.
LEMMA ClientsStay ==
  ASSUME IInv, NEW c \in Caller, Act(c)
  PROVE  ClientsAreOwn'
<1>1. CallsTypeOK /\ LockIsHeld /\ EnvIsOfTheHolder /\ ClientsAreOwn /\ CallsAreOfAnAgent
  BY DEF IInv
<1>2. CASE Ask(c)
  <2> DEFINE agent == Head(remaining[c])
             key == IF client[c][agent] # None THEN client[c][agent] ELSE env
  <2>1. pc[c] = "scope" /\ remaining[c] # <<>> /\ agent \in Agent
    BY <1>1, <1>2, HeadAndTail DEF Ask, CallsTypeOK
  <2>2. Keyed(c) => key = KeyOf[c]
    BY <1>1, <2>1, CallerAssumption
       DEF ClientsAreOwn, LockIsHeld, EnvIsOfTheHolder, InScope
  <2>3. CASE key = NoKey
    <3>1. /\ ~Keyed(c)
          /\ UNCHANGED client
          /\ \A d \in Caller \ {c} : pc'[d] = pc[d] /\ remaining'[d] = remaining[d]
      BY <1>1, <1>2, <2>2, <2>3 DEF Ask, EndCall, Goto, Keyed, CallsTypeOK
    <3> QED
      BY <1>1, <3>1 DEF ClientsAreOwn, InCall, Keyed
  <2>4. CASE key # NoKey
    <3>1. /\ client' = [client EXCEPT ![c][agent] = key]
          /\ UNCHANGED remaining
          /\ \A d \in Caller \ {c} : pc'[d] = pc[d]
      BY <1>1, <1>2, <2>4 DEF Ask, Goto, CallsTypeOK
    <3>2. /\ \A d \in Caller \ {c} : client'[d] = client[d]
          /\ client'[c] = [client[c] EXCEPT ![agent] = key]
      BY <1>1, <3>1 DEF CallsTypeOK
    <3>3. client'[c][agent] = key
          /\ \A a \in Agent : client'[c][a] \in {client[c][a], key}
      BY <1>1, <2>1, <3>2 DEF CallsTypeOK
    <3> QED
      BY <1>1, <2>2, <3>1, <3>2, <3>3 DEF ClientsAreOwn, InCall, Keyed
  <2> QED
    BY <2>3, <2>4
<1>3. CASE ~Ask(c)
  <2>1. UNCHANGED client
    BY <1>3 DEF Act, Enter, MakeTracer, Observe, Respond, Leave
  <2>2. \A d \in Caller \ {c} : pc'[d] = pc[d] /\ remaining'[d] = remaining[d]
    BY <1>1, <1>3
       DEF Act, Enter, MakeTracer, Observe, Respond, Leave, EndCall, Goto, CallsTypeOK
  <2>3. InCall(c)' => InCall(c) /\ remaining'[c] = remaining[c]
    BY <1>1, <1>3
       DEF Act, Enter, MakeTracer, Observe, Respond, Leave, EndCall, Goto, CallsTypeOK, InCall
  <2> QED
    BY <1>1, <2>1, <2>2, <2>3 DEF ClientsAreOwn, InCall, Keyed
<1> QED
  BY <1>2, <1>3

\* The invariant is inductive.
LEMMA Stays == IInv /\ [Next]_vars => IInv'
<1> SUFFICES ASSUME IInv, [Next]_vars PROVE IInv'
  OBVIOUS
<1>1. CASE Next
  <2> PICK c \in Caller : Act(c)
    BY <1>1 DEF Next
  <2> QED
    BY TypesStay, SectionsStay, ClientsStay DEF IInv
<1>2. CASE UNCHANGED vars
  BY <1>2 DEF vars, IInv, CallsTypeOK, CallsAreOfAnAgent, LockIsHeld, EnvIsOfTheHolder, ClientsAreOwn,
              InScope, InCall, Keyed
<1> QED
  BY <1>1, <1>2

-----------------------------------------------------------------------------
\* The invariant holds of every run.
THEOREM Invariance == Spec => []IInv
BY Starts, Stays, PTL DEF Spec

\* Types: a call is two requests at most, and the process builds one Langfuse
\* client at most, however many first calls meet.
THEOREM TypesHold == Spec => []CallsTypeOK
<1>1. IInv => CallsTypeOK
  BY DEF IInv
<1> QED
  BY <1>1, Invariance, PTL

\* Requests of a caller with a key are made with that key, and between two
\* scopes the environment is what the process started with.
THEOREM KeysStayApartHolds == Spec => []KeysStayApart
<1>1. IInv => KeysStayApart
  BY DEF IInv, KeysStayApart, ClientsAreOwn, EnvIsOfTheHolder, InCall, Keyed
<1> QED
  BY <1>1, Invariance, PTL

=============================================================================

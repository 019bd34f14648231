------------------------------ MODULE LessonRun ------------------------------
(***************************************************************************)
(* What one lesson run promises its caller, whatever its agents do: it     *)
(* redoes a stage at most as often as the stage's budget allows, and then  *)
(* it gives one verdict that stands.  An accepted run comes with a lesson  *)
(* that was executed; a refused or crashed run comes with none.            *)
(***************************************************************************)
EXTENDS Naturals

CONSTANT Budget

VARIABLES
  spent,     \* revisions charged to each stage
  verdict,   \* "open" until the caller has its answer
  lesson     \* the deliverable: "none" or "executed"

vars == <<spent, verdict, lesson>>

Init ==
  /\ spent = [s \in DOMAIN Budget |-> 0]
  /\ verdict = "open"
  /\ lesson = "none"

Redo(s) ==
  /\ verdict = "open"
  /\ spent[s] < Budget[s]
  /\ spent' = [spent EXCEPT ![s] = @ + 1]
  /\ UNCHANGED <<verdict, lesson>>

Accept ==
  /\ verdict = "open"
  /\ verdict' = "accepted"
  /\ lesson' = "executed"
  /\ UNCHANGED spent

Refuse ==
  /\ verdict = "open"
  /\ verdict' \in {"refused", "crashed"}
  /\ UNCHANGED <<spent, lesson>>

Next == (\E s \in DOMAIN Budget : Redo(s)) \/ Accept \/ Refuse

Spec == Init /\ [][Next]_vars /\ WF_vars(Next)

=============================================================================

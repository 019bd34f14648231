---------------------------- MODULE MCModelCalls -----------------------------
(***************************************************************************)
(* An instance of ModelCalls for TLC: a plan and an adjustment with two    *)
(* keys, and a plan without a key.                                         *)
(***************************************************************************)
EXTENDS ModelCalls

Callers == {"plan", "adjust", "visitor"}
Keys == {"k1", "k2", "k3"}

Requests == [plan |-> "plan", adjust |-> "adjust", visitor |-> "plan"]
TypedKeys == [plan |-> "k1", adjust |-> "k2", visitor |-> NoKey]

=============================================================================

----------------------------- MODULE MCTurnLoop -----------------------------
(* Model-checking instance of TurnLoop. *)
EXTENDS TurnLoop
=============================================================================

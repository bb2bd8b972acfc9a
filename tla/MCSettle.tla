------------------------------ MODULE MCSettle ------------------------------
(* Model-checking instance of Settle. *)
EXTENDS Settle
=============================================================================

---------------------------- MODULE MCController ----------------------------
(* Model-checking instance of Controller. *)
EXTENDS Controller
=============================================================================

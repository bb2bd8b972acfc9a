----------------------------- MODULE MCConsent -----------------------------
(* Model-checking instance of Consent. *)
EXTENDS Consent, TLC

\* No definition tells one package from another.
PkgSymmetry == Permutations(Pkgs)
=============================================================================

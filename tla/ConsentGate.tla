---------------------------- MODULE ConsentGate ----------------------------
(***************************************************************************)
(* android-bridge .../state/ConsentGate.kt: which packages the operator    *)
(* lets the configured daemon drive.  Every method holds the gate's lock,  *)
(* so each is one step, whichever thread calls it.                         *)
(***************************************************************************)
EXTENDS Naturals

CONSTANTS Pkgs,             \* packages a daemon may ask for
          MaxGeneration     \* bound: prompts raised

ASSUME GateAssumption == MaxGeneration \in Nat

VARIABLES consented, pending, generation

gateVars == <<consented, pending, generation>>

GateTypeOK ==
    /\ consented \in SUBSET Pkgs
    /\ pending \in SUBSET Pkgs
    /\ generation \in 0..MaxGeneration

GateInit == consented = {} /\ pending = {} /\ generation = 0

\* Mutated forms of the definitions below.
Retained_All(requested) == consented
Matches_AnyGeneration(gen) == pending # {}

\* Dropping a package retracts its consent.
Retained(requested) == consented \cap requested

\* request(): the widening waits for the operator under a generation of its own.
Request(requested) ==
    /\ consented' = Retained(requested)
    /\ pending' = requested \ consented'
    /\ IF pending' # {}
       THEN generation < MaxGeneration /\ generation' = generation + 1
       ELSE UNCHANGED generation

\* A decision counts only for the prompt raised last, and only while it is open.
Matches(gen) == gen = generation /\ pending # {}

Approve(gen) ==
    /\ Matches(gen)
    /\ consented' = consented \cup pending
    /\ pending' = {}
    /\ UNCHANGED generation

Deny(gen) ==
    /\ Matches(gen)
    /\ pending' = {}
    /\ UNCHANGED <<consented, generation>>

Stale(gen) == ~Matches(gen) /\ UNCHANGED gateVars

AbandonPending == pending' = {} /\ UNCHANGED <<consented, generation>>

Revoke == consented' = {} /\ pending' = {} /\ UNCHANGED generation
=============================================================================

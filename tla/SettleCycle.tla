---------------------------- MODULE SettleCycle ----------------------------
(***************************************************************************)
(* What a bridge promises of its settle cycles, whatever its timers,       *)
(* threads and connections do: one is armed at a time, and each comes to   *)
(* one end, which is final: the daemon is told of it, or it is dropped     *)
(* without a word.  Settle implements this specification.                  *)
(***************************************************************************)
CONSTANT Cycles

VARIABLE phase          \* how far each cycle has come

Phases == {"new", "armed", "settling", "told", "dropped"}

TypeOK == phase \in [Cycles -> Phases]

Init == phase = [k \in Cycles |-> "new"]

\* A new cycle takes the place of the armed one.
Arm(k) ==
    /\ phase[k] = "new"
    /\ phase' = [j \in Cycles |-> CASE j = k -> "armed"
                                    [] j # k /\ phase[j] = "armed" -> "dropped"
                                    [] OTHER -> phase[j]]

Move(k, from, to) == phase[k] = from /\ phase' = [phase EXCEPT ![k] = to]

Complete(k) == Move(k, "armed", "settling")    \* quiet, or its hard timeout
Report(k) == Move(k, "settling", "told")       \* the completion reaches the daemon
Cancel(k) == Move(k, "armed", "told")          \* at the daemon's wish, as canceled
Drop(k) == Move(k, "armed", "dropped")         \* its act failed, or the session ended

Next == \E k \in Cycles : Arm(k) \/ Complete(k) \/ Report(k) \/ Cancel(k) \/ Drop(k)

Spec == Init /\ [][Next]_phase
=============================================================================

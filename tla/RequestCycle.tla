---------------------------- MODULE RequestCycle ----------------------------
(***************************************************************************)
(* What the request/response mux of a device session promises its callers, *)
(* whatever the socket, the timers and the device do: a request ends once, *)
(* either answered by a device that took it in or failed, and the ending   *)
(* is final.  DeviceSession implements this specification.                 *)
(***************************************************************************)
CONSTANT Ids            \* the request ids of one session

VARIABLES cycle,        \* how far each request has come
          handled       \* the requests the device took in

vars == <<cycle, handled>>

Phase == {"free", "open", "answered", "failed"}

TypeOK == cycle \in [Ids -> Phase] /\ handled \in SUBSET Ids

Init == cycle = [i \in Ids |-> "free"] /\ handled = {}

\* The caller asks, and its future is parked.
Issue(i) ==
    /\ cycle[i] = "free"
    /\ cycle' = [cycle EXCEPT ![i] = "open"]
    /\ UNCHANGED handled

\* The device takes a request in, once; the caller may have given up on it.
Handle(i) ==
    /\ cycle[i] \in {"open", "failed"}
    /\ i \notin handled
    /\ handled' = handled \cup {i}
    /\ UNCHANGED cycle

\* Only a request the device took in, and nobody gave up on, is answered.
Answer(i) ==
    /\ cycle[i] = "open"
    /\ i \in handled
    /\ cycle' = [cycle EXCEPT ![i] = "answered"]
    /\ UNCHANGED handled

\* One timeout fails one request; the end of the pump fails all that are open.
Fail(S) ==
    /\ S # {}
    /\ \A i \in S : cycle[i] = "open"
    /\ cycle' = [i \in Ids |-> IF i \in S THEN "failed" ELSE cycle[i]]
    /\ UNCHANGED handled

Next ==
    \/ \E i \in Ids : Issue(i) \/ Handle(i) \/ Answer(i)
    \/ \E S \in SUBSET Ids : Fail(S)

Spec == Init /\ [][Next]_vars
=============================================================================

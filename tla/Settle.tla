-------------------------------- MODULE Settle --------------------------------
(***************************************************************************)
(* SettleDetector.kt of the Android bridge under its four threads: the     *)
(* router's coroutine (act, waitForSettle, cancel, configure of            *)
(* CommandRouter.kt), the main thread's events, the timers' coroutines and *)
(* the socket's thread, which resets the session.                          *)
(*                                                                         *)
(* Every method holds the detector's lock: one action each.  A timer's     *)
(* coroutine can be cancelled while it delays, no more once it runs; the   *)
(* callback it fires is invoked after the lock is released.  A cycle has   *)
(* the number of its arm, which the code does not keep.                    *)
(***************************************************************************)
EXTENDS Naturals, Sequences

CONSTANTS MinEvents,  \* minEventCount of the sessions that set it
          MaxArms,    \* bound: cycles armed
          MaxEvents   \* bound: qualifying events counted in one cycle

ASSUME SettleAssumption ==
    MinEvents \in Nat \ {0} /\ MaxArms \in Nat /\ MaxEvents \in Nat

Cycles == 1..MaxArms
None == 0
Modes == {"quiet", "minEventsThenQuiet"}
Reasons == {"quiet", "timeout"}

VARIABLES
    mode,             \* cfg.mode: of the cycle that is armed
    armed, onComplete, armRequestId, qualifyingCount,
    delaying,         \* the timers, quietJob and hardJob, still in their delay
    expired,          \* per reason: coroutines past it and not yet at the lock
    firing,           \* callbacks taken under the lock and not yet invoked
    performing,       \* the router is in actuator.perform
    arms, kind,       \* cycles so far, and what armed each
    sent,             \* what the daemon was told of each cycle
    events, dropped   \* ghosts: what each cycle heard; those ended with no completion

cycleVars == <<armed, onComplete, armRequestId, qualifyingCount>>
timerVars == <<delaying, expired, firing>>
routerVars == <<performing, arms, kind>>
vars == <<mode, cycleVars, timerVars, routerVars, sent, events, dropped>>

Completion == [of : Cycles, reason : Reasons, mode : Modes]
Frame == [of : Cycles, what : {"settled", "res", "canceled"}]

TypeOK ==
    /\ mode \in Modes
    /\ armed \in BOOLEAN
    /\ onComplete \in Cycles \cup {None}
    /\ armRequestId \in Cycles \cup {None}
    /\ qualifyingCount \in 0..MaxEvents
    /\ delaying \in SUBSET Reasons
    /\ expired \in [Reasons -> Nat]
    /\ firing \in SUBSET Completion
    /\ performing \in BOOLEAN
    /\ arms \in 0..MaxArms
    /\ kind \in [Cycles -> {"none", "act", "wait"}]
    /\ sent \in Seq(Frame)
    /\ events \in [Cycles -> Nat]
    /\ dropped \in SUBSET Cycles

Init ==
    /\ mode = "quiet"
    /\ armed = FALSE /\ onComplete = None /\ armRequestId = None
    /\ qualifyingCount = 0
    /\ delaying = {} /\ expired = [r \in Reasons |-> 0] /\ firing = {}
    /\ performing = FALSE
    /\ arms = 0 /\ kind = [k \in Cycles |-> "none"]
    /\ sent = <<>>
    /\ events = [k \in Cycles |-> 0] /\ dropped = {}

-----------------------------------------------------------------------------
(***************************************************************************)
(* Mutated forms of definitions below: the slips the properties exclude.   *)
(***************************************************************************)
Disarm_KeepsArmed ==
    /\ delaying' = {} /\ qualifyingCount' = 0
    /\ UNCHANGED <<armed, onComplete, armRequestId>>
Fires_BothReasons(r) ==
    armed /\ (mode = "minEventsThenQuiet" => qualifyingCount >= MinEvents)
Fires_NotArmed(r) ==
    r = "quiet" /\ mode = "minEventsThenQuiet" => qualifyingCount >= MinEvents
Fresh_KeepsCount == UNCHANGED qualifyingCount
ArmedBy_Anyone(k) == armed

-----------------------------------------------------------------------------
(* SettleDetector.kt *)

\* disarmLocked
Disarm ==
    /\ armed' = FALSE
    /\ onComplete' = None
    /\ armRequestId' = None
    /\ delaying' = {}
    /\ qualifyingCount' = 0

\* `qualifyingCount = 0`
Fresh == qualifyingCount' = 0

\* arm: with the session's configuration or the call's override, either in any mode.  A
\* quiet timer of the cycle it replaces runs on.
Arm(k, requestId) ==
    /\ mode' \in Modes
    /\ onComplete' = k
    /\ armRequestId' = requestId
    /\ armed' = TRUE
    /\ Fresh
    /\ delaying' = delaying \cup {"timeout"}
    /\ dropped' = IF armed THEN dropped \cup {onComplete} ELSE dropped

\* onEvent, for an event in the scope and the mask of cfg: others are ignored.
OnEvent ==
    /\ armed
    /\ qualifyingCount < MaxEvents
    /\ qualifyingCount' = qualifyingCount + 1
    /\ delaying' = delaying \cup {"quiet"}
    /\ events' = [events EXCEPT ![onComplete] = @ + 1]
    /\ UNCHANGED <<mode, armed, onComplete, armRequestId, expired, firing, routerVars,
                   sent, dropped>>

\* delay() returns: from here on cancelling the job has no effect.
Expire(r) ==
    /\ r \in delaying
    /\ delaying' = delaying \ {r}
    /\ expired' = [expired EXCEPT ![r] = @ + 1]
    /\ UNCHANGED <<mode, cycleVars, firing, routerVars, sent, events, dropped>>

\* Some cycle is armed, whichever; a quiet with too few qualifying events waits on.
Fires(r) ==
    /\ armed
    /\ r = "quiet" /\ mode = "minEventsThenQuiet" => qualifyingCount >= MinEvents

\* fireIfReady: the callback is taken under the lock and the cycle ends.
FireIfReady(r) ==
    /\ expired[r] > 0
    /\ expired' = [expired EXCEPT ![r] = @ - 1]
    /\ IF Fires(r)
       THEN /\ firing' = firing \cup {[of |-> onComplete, reason |-> r, mode |-> mode]}
            /\ Disarm
       ELSE UNCHANGED <<cycleVars, delaying, firing>>
    /\ UNCHANGED <<mode, routerVars, sent, events, dropped>>

-----------------------------------------------------------------------------
(* CommandRouter.kt *)

Tell(k, what) == sent' = Append(sent, [of |-> k, what |-> what])

\* cb.invoke: actSettle sends the event `settled`, waitForSettle its deferred answer.
Invoke(c) ==
    /\ c \in firing
    /\ firing' = firing \ {c}
    /\ Tell(c.of, IF kind[c.of] = "act" THEN "settled" ELSE "res")
    /\ UNCHANGED <<mode, cycleVars, delaying, expired, routerVars, events, dropped>>

\* The router handles one frame after the other.
Begin(k, what) ==
    /\ ~performing
    /\ arms < MaxArms
    /\ k = arms + 1
    /\ arms' = k
    /\ kind' = [kind EXCEPT ![k] = what]

\* act: the detector is armed before the action is performed.
Act(k) ==
    /\ Begin(k, "act")
    /\ Arm(k, None)
    /\ performing' = TRUE
    /\ UNCHANGED <<expired, firing, sent, events>>

Performed ==
    /\ performing
    /\ performing' = FALSE
    /\ UNCHANGED <<mode, cycleVars, timerVars, arms, kind, sent, events, dropped>>

Drop == dropped' = IF armed THEN dropped \cup {onComplete} ELSE dropped

\* perform threw: the cycle, if it has not fired yet, is disarmed.
Failed ==
    /\ performing
    /\ performing' = FALSE
    /\ Disarm
    /\ Drop
    /\ UNCHANGED <<mode, expired, firing, arms, kind, sent, events>>

WaitForSettle(k) ==
    /\ Begin(k, "wait")
    /\ Arm(k, k)
    /\ UNCHANGED <<expired, firing, performing, sent, events>>

\* `armed && armRequestId == requestId`
ArmedBy(k) == armed /\ armRequestId = k

\* cancel: of any earlier waitForSettle; the answer to the request it aborts.
Cancel(k) ==
    /\ ~performing
    /\ kind[k] = "wait"
    /\ ArmedBy(k)
    /\ Disarm
    /\ Tell(k, "canceled")
    /\ UNCHANGED <<mode, expired, firing, routerVars, events, dropped>>

\* resetSession, on the socket's thread.
Reset ==
    /\ Disarm
    /\ Drop
    /\ UNCHANGED <<mode, expired, firing, routerVars, sent, events>>

-----------------------------------------------------------------------------
Timers == \E r \in Reasons : Expire(r) \/ FireIfReady(r)

Router ==
    \/ \E k \in Cycles : Act(k) \/ WaitForSettle(k) \/ Cancel(k)
    \/ Performed \/ Failed

Next ==
    \/ OnEvent
    \/ Timers
    \/ \E c \in firing : Invoke(c)
    \/ Router
    \/ Reset

Spec == Init /\ [][Next]_vars

\* Delays end and their coroutines run; nothing is assumed of the other threads.
FairSpec ==
    /\ Spec
    /\ \A r \in Reasons : WF_vars(Expire(r)) /\ WF_vars(FireIfReady(r))
    /\ WF_vars(\E c \in firing : Invoke(c))

-----------------------------------------------------------------------------
(* Properties *)

ToldOf(k) == {i \in DOMAIN sent : sent[i].of = k}

\* "the callback fires exactly once" (SettleDetector.kt:29), at most: one frame answers a
\* waitForSettle or reports the end of an act, whichever of both timers, cancel, a failed
\* perform and a reset meet in it.
ToldOnce == \A k \in Cycles : \A i, j \in ToldOf(k) : i = j

\* In minEventsThenQuiet a cycle ends as quiet only after that many events of its own:
\* the count never carries over from a cycle it replaced (74-75, 136-143).
QuietHeardEnough ==
    \A c \in firing :
        c.reason = "quiet" /\ c.mode = "minEventsThenQuiet" => events[c.of] >= MinEvents

\* "the hard timeout guarantees liveness" (77-78): every cycle armed is reported to the
\* daemon, unless a later arm, a failed action or a reset took it off.
CycleIsReported ==
    \A k \in Cycles : onComplete = k ~> (ToldOf(k) # {} \/ k \in dropped)

\* "quiet is measured from the first qualifying event" (77): no cycle ends as quiet that
\* has heard no event at all.
QuietIsOwn == \A c \in firing : c.reason = "quiet" => events[c.of] > 0

\* Of a cycle that were in two of these places, the earlier stage is seen.
Phase(k) ==
    IF armed /\ onComplete = k THEN "armed"
    ELSE IF \E c \in firing : c.of = k THEN "settling"
    ELSE IF ToldOf(k) # {} THEN "told"
    ELSE IF k \in dropped THEN "dropped" ELSE "new"

CyclePhase == [k \in Cycles |-> Phase(k)]

\* "One settle cycle is active at a time" (SettleDetector.kt:28) and each has one end, for
\* good: a cycle taken off by a later arm, a failed act or a reset is never reported, one
\* that fired is not canceled as well, and none comes back.
Cycle == INSTANCE SettleCycle WITH phase <- CyclePhase
ImplementsSettleCycle == Cycle!Spec
=============================================================================

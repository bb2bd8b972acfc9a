----------------------------- MODULE Controller -----------------------------
(***************************************************************************)
(* controller/a11y/controller.py: the act -> settle -> re-observe cycle of *)
(* one device, run by the host tools of a batched turn, each a coroutine   *)
(* of its own.  Acts queue on one FIFO lock; screen_observe and screen_wait*)
(* do not take it.  A call on the session (DeviceSession) is one request   *)
(* in flight that ends with the device's answer, a timeout, or the death   *)
(* of the session.  Code between two awaits is one step.                   *)
(*                                                                         *)
(* The device, its link and the reconnect are the environment.             *)
(***************************************************************************)
EXTENDS Naturals, Sequences, FiniteSets

CONSTANTS RefActs,     \* tool calls that act on a set-of-marks ref
          GlobalActs,  \* BACK / HOME / START_MENU ...: global settle override
          PlainActs,   \* gesture, type_text, press_key
          Looks,       \* screen_observe or screen_wait: no lock
          Pkgs,        \* packages that may come to the foreground
          NoTask,      \* owner of a request whose caller gave up
          Follow,      \* follow the foreground, or a pinned scope
          MaxDrops     \* bound: connections lost

Acts == RefActs \cup GlobalActs \cup PlainActs
Tasks == Acts \cup Looks
Epochs == 1..(MaxDrops + 1)

ASSUME ControllerAssumption ==
    /\ NoTask \notin Tasks
    /\ Acts \cap Looks = {}
    /\ Follow \in BOOLEAN
    /\ MaxDrops \in Nat
    /\ Pkgs \cap {"none", "ok", "stale", "refused", "other", "offline", "timeout"} = {}

\* A request's name is the control point of the task that awaits it.
Requests == {"act", "retry", "wait", "windows", "configure", "widen", "reconfigure",
             "observe"}
Configures == {"configure", "widen", "reconfigure"}
Failures == {"stale", "refused", "other", "offline", "timeout"}
Config == [scope : Pkgs, wide : BOOLEAN]

VARIABLES
    task,       \* per tool call: control point and locals
    lockQueue,  \* _act_lock: holder first, then the waiters
    held,       \* _session: the connection it belongs to
    cfg,        \* _scope and _settle
    timeouts,   \* the tuner's run of timeouts on this scope
    audit,      \* the tool calls recorded, in order
    epoch, link,       \* newest connection and its state
    inbox,             \* requests sent and not yet handled
    settledQueue,      \* _settled of each session: whose act each event is of
    settling,          \* acts whose settled event the device owes
    asked,             \* configuration the device was last asked to run, {} when none
                       \* since it dialled in
    performed,         \* the acts the device performed, in order
    order,             \* the acts in the order the model emitted them
    refused,           \* the device refused the last configure it handled
    troubled           \* the calls of which a request failed for good

controllerVars == <<task, lockQueue, held, cfg, timeouts, audit>>
deviceVars == <<epoch, link, inbox, settledQueue, settling, asked, performed>>
ghostVars == <<order, refused>>
vars == <<controllerVars, deviceVars, ghostVars, troubled>>

\* pc; the reply to the request it awaits; whether the act is to be recorded; whether
\* the session was recovered; the session it awaits `settled` on.
Local == [pc : Requests \cup {"idle", "queued", "settle", "reacquire", "done"},
          reply : Failures \cup Pkgs \cup {"none", "ok"},
          after : {"record", "return"},
          recovered : BOOLEAN,
          on : Epochs]

Idle == [pc |-> "idle", reply |-> "none", after |-> "return", recovered |-> FALSE,
         on |-> 1]

TypeOK ==
    /\ task \in [Tasks -> Local]
    /\ lockQueue \in Seq(Acts)
    /\ held \in Epochs
    /\ cfg \in Config
    /\ timeouts \in 0..2
    /\ audit \in Seq(Acts)
    /\ epoch \in Epochs
    /\ link \in {"up", "broken", "down"}
    /\ inbox \in Seq([task : Tasks \cup {NoTask}, act : Acts \cup {NoTask},
                      verb : Requests, cfg : Config])
    /\ settledQueue \in [Epochs -> Seq(Acts)]
    /\ settling \in SUBSET Acts
    /\ asked \in SUBSET Config /\ Cardinality(asked) <= 1
    /\ performed \in Seq(Acts)
    /\ order \in Seq(Acts)
    /\ refused \in BOOLEAN

\* A turn begins on a configured live session, with any history of settle timeouts.
Init ==
    /\ cfg \in [scope : Pkgs, wide : {FALSE}]
    /\ task = [t \in Tasks |-> Idle]
    /\ lockQueue = <<>>
    /\ held = 1
    /\ timeouts \in 0..2
    /\ audit = <<>>
    /\ epoch = 1 /\ link = "up" /\ inbox = <<>>
    /\ settledQueue = [e \in Epochs |-> <<>>]
    /\ settling = {}
    /\ asked = {cfg}
    /\ performed = <<>> /\ order = <<>> /\ refused = FALSE /\ troubled = {}

-----------------------------------------------------------------------------
(***************************************************************************)
(* Mutated forms of definitions below: the slips the properties exclude.   *)
(***************************************************************************)
Message_ScopeOnly(t, verb, c) ==
    [task |-> t, act |-> IF t \in Acts THEN t ELSE NoTask, verb |-> verb,
     cfg |-> [c EXCEPT !.wide = FALSE]]
Record_Always(t) == audit' = IF t \in Acts THEN Append(audit, t) ELSE audit
Retried_OnTimeout(t) ==
    t \in RefActs /\ task[t].reply \in {"stale", "refused", "timeout"}
Widens_AtFour(t, reason) == t \notin GlobalActs /\ reason = "timeout" /\ timeouts = 3
Ended_KeepsLock(t) == lockQueue
Timed_NotWait(verb) == verb \in Requests \ {"wait"}

-----------------------------------------------------------------------------
(* One request on the held session *)

Alive == held = epoch /\ link # "down"

Step(t, r) == task' = [task EXCEPT ![t] = r]

HoldsLock(t) == Head(lockQueue) = t

\* The coroutine ends, by a return or by an exception; `async with` frees the lock.
Ended(t) == IF lockQueue # <<>> /\ HoldsLock(t) THEN Tail(lockQueue) ELSE lockQueue

End(t) ==
    /\ Step(t, [Idle EXCEPT !.pc = "done"])
    /\ lockQueue' = Ended(t)

\* A frame to the device.
Message(t, verb, c) ==
    [task |-> t, act |-> IF t \in Acts THEN t ELSE NoTask, verb |-> verb, cfg |-> c]

\* request(): sent; or ConnectionClosed from ws.send while the pump still reads, which
\* no caller survives; or, on the observe path, which catches it, raised when the pump is
\* gone too; or refused by a dead session, which the observe path answers by waiting for
\* a reconnect, once.
Request(t, r, verb, c) ==
    \/ /\ Alive /\ link = "up"
       /\ Step(t, [r EXCEPT !.pc = verb, !.reply = "none"])
       /\ inbox' = Append(inbox, Message(t, verb, c))
       /\ UNCHANGED lockQueue
    \/ /\ Alive /\ link = "broken"
       /\ End(t)
       /\ UNCHANGED inbox
    \/ /\ Alive /\ link = "broken" /\ verb \in {"windows", "configure", "observe"}
       /\ Step(t, [r EXCEPT !.pc = verb, !.reply = "none"])
       /\ UNCHANGED <<lockQueue, inbox>>
    \/ /\ ~Alive
       /\ IF r.recovered \/ verb = "widen"
          THEN End(t)
          ELSE /\ Step(t, [r EXCEPT !.pc = "reacquire", !.reply = "none"])
               /\ UNCHANGED lockQueue
       /\ UNCHANGED inbox

Awaiting(t, verb) == task[t].pc = verb /\ task[t].reply # "none"
Failed(t) == task[t].reply \in Failures

UnchangedRest == UNCHANGED <<audit, epoch, link, settledQueue, settling, asked,
                             performed, ghostVars>>

-----------------------------------------------------------------------------
(* _observe_and_follow / _observe_once, 163-190 *)

Reobserve(t, r) == Request(t, r, IF Follow THEN "windows" ELSE "observe", cfg)

\* The except clause: only a dead session is recovered from, and only once.
ObserveFailed(t) ==
    /\ IF Alive \/ task[t].recovered
       THEN End(t)
       ELSE /\ Step(t, [task[t] EXCEPT !.pc = "reacquire", !.reply = "none"])
            /\ UNCHANGED lockQueue
    /\ UNCHANGED inbox

\* _scope and _settle are replaced before the device is asked.
WindowsReturn(t) ==
    /\ Awaiting(t, "windows")
    /\ IF Failed(t)
       THEN ObserveFailed(t) /\ UNCHANGED <<cfg, timeouts>>
       ELSE IF task[t].reply \in Pkgs \ {cfg.scope}
       THEN /\ cfg' = [scope |-> task[t].reply, wide |-> FALSE]
            /\ timeouts' = 0
            /\ Request(t, task[t], "configure", cfg')
       ELSE Request(t, task[t], "observe", cfg) /\ UNCHANGED <<cfg, timeouts>>
    /\ UNCHANGED held
    /\ UnchangedRest

ConfigureReturn(t) ==
    /\ Awaiting(t, "configure")
    /\ IF Failed(t) THEN ObserveFailed(t) ELSE Request(t, task[t], "observe", cfg)
    /\ UNCHANGED <<cfg, timeouts, held>>
    /\ UnchangedRest

\* The observation is in; an act that settled is recorded last of all.
Record(t) == audit' = IF task[t].after = "record" THEN Append(audit, t) ELSE audit

ObserveReturn(t) ==
    /\ Awaiting(t, "observe")
    /\ IF Failed(t)
       THEN ObserveFailed(t) /\ UNCHANGED audit
       ELSE End(t) /\ Record(t) /\ UNCHANGED inbox
    /\ UNCHANGED <<cfg, timeouts, held, epoch, link, settledQueue, settling, asked,
                   performed, ghostVars>>

\* _recover_session, 192-215: adopt the newest live session and configure it, or give
\* up when none dials in within the reconnect timeout.
Reacquire(t) ==
    /\ task[t].pc = "reacquire"
    /\ \/ /\ link # "down"
          /\ held' = epoch
          /\ cfg' = [cfg EXCEPT !.wide = FALSE]
          /\ timeouts' = 0
          /\ IF link = "up"
             THEN /\ Step(t, [task[t] EXCEPT !.pc = "reconfigure", !.recovered = TRUE])
                  /\ inbox' = Append(inbox, Message(t, "reconfigure", cfg'))
                  /\ UNCHANGED lockQueue
             ELSE End(t) /\ UNCHANGED inbox
       \/ /\ End(t)
          /\ UNCHANGED <<held, cfg, timeouts, inbox>>
    /\ UnchangedRest

ReconfigureReturn(t) ==
    /\ Awaiting(t, "reconfigure")
    /\ IF Failed(t) THEN End(t) /\ UNCHANGED inbox ELSE Reobserve(t, task[t])
    /\ UNCHANGED <<cfg, timeouts, held>>
    /\ UnchangedRest

-----------------------------------------------------------------------------
(* The host tools' entry points, 226-276 *)

UnchangedPolicy == UNCHANGED <<cfg, timeouts, held>>

\* act_ref with a ref that is not on the current snapshot returns at once.
UngroundedRef(t) ==
    /\ t \in RefActs
    /\ task[t].pc = "idle"
    /\ Step(t, [task[t] EXCEPT !.pc = "done"])
    /\ UNCHANGED <<lockQueue, inbox>>
    /\ UnchangedPolicy /\ UnchangedRest

\* Any other act grounds its selectors and joins the lock's queue.
QueueAct(t) ==
    /\ t \in Acts
    /\ task[t].pc = "idle"
    /\ Step(t, [task[t] EXCEPT !.pc = "queued"])
    /\ lockQueue' = Append(lockQueue, t)
    /\ order' = Append(order, t)
    /\ UnchangedPolicy
    /\ UNCHANGED <<audit, deviceVars, refused>>

Look(t) ==
    /\ t \in Looks
    /\ task[t].pc = "idle"
    /\ Reobserve(t, task[t])
    /\ UnchangedPolicy /\ UnchangedRest

Wait(t) ==
    /\ t \in Looks
    /\ task[t].pc = "idle"
    /\ Request(t, task[t], "wait", cfg)
    /\ UnchangedPolicy /\ UnchangedRest

WaitReturn(t) ==
    /\ Awaiting(t, "wait")
    /\ Reobserve(t, task[t])
    /\ UnchangedPolicy /\ UnchangedRest

-----------------------------------------------------------------------------
(* _act_and_settle_locked, 299-365 *)

Act(t) ==
    /\ task[t].pc = "queued"
    /\ HoldsLock(t)
    /\ Request(t, task[t], "act", cfg)
    /\ UnchangedPolicy /\ UnchangedRest

\* A stale ref is retried with its version-independent selector, a refused click as a
\* gesture on the node's bounds; nothing else is tried twice.
Retried(t) == t \in RefActs /\ task[t].reply \in {"stale", "refused"}

Performed(t) ==
    /\ Step(t, [task[t] EXCEPT !.pc = "settle", !.reply = "none", !.on = held])
    /\ UNCHANGED <<lockQueue, inbox>>

ActReturn(t) ==
    /\ Awaiting(t, "act")
    /\ \/ task[t].reply = "ok" /\ Performed(t)
       \/ Retried(t) /\ Request(t, task[t], "retry", cfg)
       \/ Failed(t) /\ ~Retried(t) /\ Reobserve(t, task[t])
    /\ UnchangedPolicy /\ UnchangedRest

RetryReturn(t) ==
    /\ Awaiting(t, "retry")
    /\ IF Failed(t) THEN Reobserve(t, task[t]) ELSE Performed(t)
    /\ UnchangedPolicy /\ UnchangedRest

\* SettleTuner.observe: the third timeout in a row widens; a global does not count.
Widens(t, reason) == t \notin GlobalActs /\ reason = "timeout" /\ timeouts = 2

Tune_Forgets(t, r, reason) ==   \* mutated form of Tune
    IF Widens(t, reason)
    THEN /\ timeouts' = 0
         /\ cfg' = [cfg EXCEPT !.wide = TRUE]
         /\ Request(t, task[t], "widen", cfg')
    ELSE /\ timeouts' = IF t \in GlobalActs THEN timeouts
                        ELSE IF reason = "timeout" THEN timeouts + 1 ELSE 0
         /\ Reobserve(t, r)
         /\ UNCHANGED cfg

Tune(t, r, reason) ==
    IF Widens(t, reason)
    THEN /\ timeouts' = 0
         /\ cfg' = [cfg EXCEPT !.wide = TRUE]
         /\ Request(t, r, "widen", cfg')
    ELSE /\ timeouts' = IF t \in GlobalActs THEN timeouts
                        ELSE IF reason = "timeout" THEN timeouts + 1 ELSE 0
         /\ Reobserve(t, r)
         /\ UNCHANGED cfg

\* await_settled: the oldest event queued on the session, or the ceiling expires.
NextSettled(t, reason) ==
    LET q == settledQueue[task[t].on] IN
    \/ /\ q # <<>>
       /\ settledQueue' = [settledQueue EXCEPT ![task[t].on] = Tail(q)]
    \/ /\ q = <<>> /\ reason = "timeout"
       /\ UNCHANGED settledQueue

SettledReturn(t) ==
    /\ task[t].pc = "settle"
    /\ \E reason \in {"quiet", "timeout"} :
          NextSettled(t, reason) /\ Tune(t, [task[t] EXCEPT !.after = "record"], reason)
    /\ UNCHANGED <<held, audit, epoch, link, settling, asked, performed, ghostVars>>

\* A configure that fails here escapes the cycle: no re-observe, no record.
WidenReturn(t) ==
    /\ Awaiting(t, "widen")
    /\ IF Failed(t) THEN End(t) /\ UNCHANGED inbox ELSE Reobserve(t, task[t])
    /\ UNCHANGED <<cfg, timeouts, held>>
    /\ UnchangedRest

-----------------------------------------------------------------------------
(* The session's timers, the device and its link *)

Orphan(q, t) == [k \in DOMAIN q |-> IF q[k].task = t THEN [q[k] EXCEPT !.task = NoTask]
                                    ELSE q[k]]

\* Every verb has a timeout, its own or the default.
Timed(verb) == verb \in Requests

\* The verb's timer: the caller gives up, the device may still get to the request.
Timeout(t) ==
    /\ Timed(task[t].pc)
    /\ task[t].reply = "none"
    /\ Step(t, [task[t] EXCEPT !.reply = "timeout"])
    /\ inbox' = Orphan(inbox, t)
    /\ UNCHANGED lockQueue
    /\ UnchangedPolicy /\ UnchangedRest

\* The answer, unless the caller gave up or the link is gone.  A device is taken not to
\* answer a request of an earlier connection.
Answer(e, reply) ==
    task' = IF e.task = NoTask \/ link # "up" THEN task
            ELSE [task EXCEPT ![e.task].reply = reply]

\* An act arms a settle cycle, in place of the one running or beside it.
DevicePerform(e) ==
    /\ e.verb \in {"act", "retry"}
    /\ performed' = Append(performed, e.act)
    /\ settling' \in {{e.act}, settling \cup {e.act}}
    /\ Answer(e, "ok") \/ UNCHANGED task
    /\ UNCHANGED <<asked, refused>>

\* The settle policy is in force as asked, the scope as far as the operator consents
\* (module Consent); the answer is the same.
DeviceConfigure(e) ==
    /\ e.verb \in Configures
    /\ asked' = {e.cfg}
    /\ refused' = FALSE
    /\ Answer(e, "ok") \/ UNCHANGED task
    /\ UNCHANGED <<performed, settling>>

\* A waitForSettle may take the place of the cycle an act armed.
DeviceReport(e) ==
    /\ e.verb \in {"windows", "observe", "wait"}
    /\ \/ \E p \in Pkgs : e.verb = "windows" /\ Answer(e, p)
       \/ Answer(e, "ok")
       \/ UNCHANGED task
    /\ \/ UNCHANGED settling
       \/ e.verb = "wait" /\ settling' = {}
    /\ UNCHANGED <<performed, asked, refused>>

\* An error is answered before anything is done; only a version-bound ref is stale.
DeviceRefuse(e) ==
    /\ \/ e.verb = "act" /\ e.act \in RefActs /\ Answer(e, "stale")
       \/ e.verb \in {"act", "retry"} /\ Answer(e, "refused")
       \/ Answer(e, "other")
    /\ refused' = (e.verb \in Configures \/ refused)
    /\ UNCHANGED <<performed, settling, asked>>

DeviceHandle ==
    /\ inbox # <<>>
    /\ inbox' = Tail(inbox)
    /\ LET e == Head(inbox) IN
       DevicePerform(e) \/ DeviceConfigure(e) \/ DeviceReport(e) \/ DeviceRefuse(e)
    /\ UNCHANGED <<lockQueue, held, cfg, timeouts, audit, epoch, link, settledQueue,
                   order>>

DeviceSettled(a) ==
    /\ a \in settling
    /\ settling' = settling \ {a}
    /\ settledQueue' = IF link = "up" THEN [settledQueue EXCEPT ![epoch] = Append(@, a)]
                       ELSE settledQueue
    /\ UNCHANGED <<controllerVars, epoch, link, inbox, asked, performed, ghostVars>>

\* The socket closes; what the device had read it still works off, for nobody.  The
\* pump notices later, and the device dials in again with or without its configuration
\* and settle cycles.
Drop ==
    /\ link = "up"
    /\ epoch <= MaxDrops
    /\ link' = "broken"
    /\ \E n \in 0..Len(inbox) :
          inbox' = [k \in 1..n |-> [inbox[k] EXCEPT !.task = NoTask]]
    /\ UNCHANGED <<controllerVars, epoch, settledQueue, settling, asked, performed,
                   ghostVars>>

PumpEnd ==
    /\ link = "broken"
    /\ link' = "down"
    /\ task' = [t \in Tasks |-> IF task[t].pc \in Requests /\ task[t].reply = "none"
                                THEN [task[t] EXCEPT !.reply = "offline"] ELSE task[t]]
    /\ UNCHANGED <<lockQueue, held, cfg, timeouts, audit, epoch, inbox, settledQueue,
                   settling, asked, performed, ghostVars>>

Reconnect ==
    /\ link = "down"
    /\ epoch' = epoch + 1
    /\ link' = "up"
    /\ asked' \in {{}, asked}
    /\ settling' \in {{}, settling}
    /\ UNCHANGED <<controllerVars, inbox, settledQueue, performed, ghostVars>>

-----------------------------------------------------------------------------
\* Keeps the calls of which a request was not sent, not answered, or failed for a reason
\* that is not tried again.
Watched ==
    LET failing(t) == \/ task'[t].reply \in {"other", "offline", "timeout"}
                      \/ task'[t].pc = "reacquire"
                      \/ /\ task[t].pc # "done" /\ task'[t].pc = "done"
                         /\ held # epoch \/ link # "up"
    IN  troubled' = troubled \cup {t \in Tasks : failing(t)}

Start(t) == (UngroundedRef(t) \/ QueueAct(t) \/ Look(t) \/ Wait(t)) /\ Watched

Continue(t) ==
    /\ \/ Act(t) \/ ActReturn(t) \/ RetryReturn(t) \/ SettledReturn(t) \/ WidenReturn(t)
       \/ WaitReturn(t) \/ WindowsReturn(t) \/ ConfigureReturn(t) \/ ObserveReturn(t)
       \/ Reacquire(t) \/ ReconfigureReturn(t) \/ Timeout(t)
    /\ Watched

Device == (DeviceHandle \/ \E a \in Acts : DeviceSettled(a)) /\ Watched
Link == (Drop \/ PumpEnd \/ Reconnect) /\ Watched

Finished == (\A t \in Tasks : task[t].pc = "done") /\ UNCHANGED vars

Next == (\E t \in Tasks : Start(t) \/ Continue(t)) \/ Device \/ Link \/ Finished

Spec == Init /\ [][Next]_vars

\* The event loop resumes what is ready and its timers expire.  Nothing is assumed of
\* the device, the link or the model that starts the calls.
FairSpec == Spec /\ \A t \in Tasks : WF_vars(Continue(t))

-----------------------------------------------------------------------------
(* Properties *)

IsSubsequence(p, q) ==
    \E at \in [DOMAIN p -> DOMAIN q] :
        /\ \A k \in DOMAIN p : q[at[k]] = p[k]
        /\ \A j, k \in DOMAIN p : j < k => at[j] < at[k]

\* A batch is performed on the device in the order the model emitted it (294), and no
\* act twice: not by a retry, not by a request that outlived its timeout or a reconnect.
PerformedOnceInOrder ==
    /\ \A j, k \in DOMAIN performed : performed[j] = performed[k] => j = k
    /\ IsSubsequence(performed, order)

\* Every record of the trail is of an act the device did perform, and the records stand in
\* the order of the acts, whatever failed in between.
AuditOrdered == IsSubsequence(audit, performed)

\* "Each record ... enough to replay" (audit.py:4-6), as far as the code keeps it: the trail
\* is in order, and an act the device performed is missing from it only if a request of its
\* call was not sent, not answered in time, or failed; never because it was stale or refused
\* and tried again, did not settle, widened the policy or followed the foreground.
AuditFaithful ==
    /\ AuditOrdered
    /\ \A k \in DOMAIN performed :
          LET t == performed[k] IN
          task[t].pc = "done" /\ t \notin troubled => \E j \in DOMAIN audit : audit[j] = t

\* The configuration the device was last asked to run, once it is through its inbox, is the
\* one the controller holds in _scope and _settle, however looks, acts and recoveries
\* interleave their configures; unless it refused one.  Of the scope the device runs what
\* the operator consents to.
ConfigureIsCurrent ==
    LET sent == {k \in DOMAIN inbox : inbox[k].verb \in Configures} IN
    held = epoch /\ link = "up" /\ ~refused =>
        /\ sent = {} => asked = {cfg}
        /\ \A k \in sent : (\A j \in sent : j <= k) => inbox[k].cfg = cfg

\* Every host-tool call returns: timeouts, drops and the lock never strand one.
CallsReturn == \A t \in Tasks : task[t].pc # "idle" ~> task[t].pc = "done"

\* "settled events map 1:1 to acts" (device_session.py:66): the event an act is about to
\* take is its own.
SettledMatchesAct ==
    \A t \in Acts : task[t].pc = "settle" /\ settledQueue[task[t].on] # <<>> =>
        Head(settledQueue[task[t].on]) = t
=============================================================================

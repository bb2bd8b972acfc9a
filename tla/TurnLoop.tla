------------------------------ MODULE TurnLoop ------------------------------
(***************************************************************************)
(* controller/run_controller.py and a11y/console.py: the conversational    *)
(* loop over one session of the agent daemon.  Three coroutines share the  *)
(* flags and queues: the main loop, the router of the operator's lines,    *)
(* and the client's reader, which runs the event callbacks.  A step is     *)
(* what one of them does between two awaits.                               *)
(*                                                                         *)
(* The daemon behind IPCClient is not under src/.  Taken from how the code *)
(* uses it: one event per turn's end, with its finish_reason; a line       *)
(* injected while no turn runs waits for the next; a send to a session     *)
(* that terminated raises.                                                 *)
(***************************************************************************)
EXTENDS Naturals, Sequences, FiniteSets

CONSTANTS Lines,       \* lines of the operator, the goal on the command line included
          NoLine,
          Continue,    \* "(connected - the device's tools are now available...)"
          MaxConnects  \* bound: devices the agent connects

ASSUME TurnAssumption ==
    /\ NoLine \notin Lines /\ Continue \notin Lines /\ NoLine # Continue
    /\ MaxConnects \in Nat

VARIABLES
    once,           \* --once: no console, no router
    pc,             \* main: where it is parked
    hand,           \* the line _next_line took for main
    sending,        \* the text of the turn: its lines
    exitCode,
    turnActive, turnDone, turnFinish, terminated, justConnected, quit,
    lineQueue,      \* SteerConsole.line_queue
    steerQueue,
    router, routed, \* the router: where it is parked; the line it took
    turn, mailbox, session, events,   \* the daemon
    connects, connecting,             \* connect_device calls made; one under way
    typed, reached, dropped           \* ghosts: lines typed, turns each reached, lost

mainVars == <<once, pc, hand, sending, exitCode, turnActive, justConnected>>
eventVars == <<turnDone, turnFinish, terminated, events>>
lineVars == <<lineQueue, steerQueue, router, routed, typed, dropped>>
daemonVars == <<turn, mailbox, session, connects, connecting, reached>>
vars == <<mainVars, eventVars, lineVars, daemonVars, quit>>

Texts == Lines \cup {Continue}

\* How a turn ends by itself: finish_reason stop or tool_use; or max_tokens, safety or
\* error, which the daemon reports as a completion too.
Finishes == {"stop", "short"}
Reasons == {"error", "natural"}

TypeOK ==
    /\ once \in BOOLEAN
    /\ pc \in {"start", "creating", "next", "got", "send", "sent", "await", "closing", "exited"}
    /\ hand \in Lines \cup {NoLine}
    /\ sending \in Seq(Texts)
    /\ exitCode \in 0..1
    /\ turnActive \in BOOLEAN /\ turnDone \in BOOLEAN /\ justConnected \in BOOLEAN
    /\ quit \in BOOLEAN
    /\ turnFinish \in Finishes
    /\ terminated \in {"no"} \cup Reasons
    /\ lineQueue \in Seq(Lines) /\ steerQueue \in Seq(Lines)
    /\ router \in {"off", "next", "got", "inject", "gone"}
    /\ routed \in Lines \cup {NoLine}
    /\ turn \in {"none", "running", "cut"} \cup Finishes
    /\ mailbox \in Seq(Lines)
    /\ session \in {"none", "live", "dead"}
    /\ events \in Seq(Finishes \cup Reasons)
    /\ connects \in 0..MaxConnects /\ connecting \in BOOLEAN
    /\ typed \in SUBSET Lines /\ dropped \in SUBSET Lines
    /\ reached \in [Lines -> Nat]

\* sending holds the goal of the command line until the first turn is driven.
Init ==
    /\ once \in BOOLEAN
    /\ sending \in {<<>>} \cup {<<l>> : l \in Lines}
    /\ once => sending # <<>>
    /\ typed = {l \in Lines : sending = <<l>>}
    /\ pc = "start" /\ hand = NoLine /\ exitCode = 0
    /\ turnActive = FALSE /\ turnDone = FALSE /\ justConnected = FALSE /\ quit = FALSE
    /\ turnFinish = "stop" /\ terminated = "no" /\ events = <<>>
    /\ lineQueue = <<>> /\ steerQueue = <<>>
    /\ router = "off" /\ routed = NoLine
    /\ turn = "none" /\ mailbox = <<>> /\ session = "none"
    /\ connects = 0 /\ connecting = FALSE
    /\ dropped = {} /\ reached = [l \in Lines |-> 0]

-----------------------------------------------------------------------------
(***************************************************************************)
(* Mutated forms of definitions below: the slips the properties exclude.   *)
(***************************************************************************)
PrepTurn_NoClear == turnDone' = turnDone /\ turnFinish' = "stop" /\ justConnected' = FALSE
Drained_Kept == steerQueue
OnTerminated_NoWake(reason) == terminated' = reason /\ UNCHANGED <<turnDone, turnFinish>>
RouteIdle_First(l) == <<l>>
ExitOf_Terminated == 0
NextLineQuits_Unchecked ==
    /\ pc = "next"
    /\ quit
    /\ hand' = NoLine /\ pc' = "send" /\ sending' = <<NoLine>> \o steerQueue
    /\ UNCHANGED <<once, exitCode, turnActive, justConnected, eventVars, lineVars,
                   daemonVars, quit>>

-----------------------------------------------------------------------------
(* The main loop, 369-406 *)

\* _drain: the typed-ahead lines leave the queue for the turn's text.
Drained == <<>>

\* prep_turn and the reset before it.
PrepTurn == turnDone' = FALSE /\ turnFinish' = "stop" /\ justConnected' = FALSE

Drive(p) ==
    /\ sending' = p \o steerQueue
    /\ steerQueue' = Drained
    /\ PrepTurn
    /\ pc' = "send"

\* The head of the loop, with what is pending.
Iterate(p) ==
    \/ /\ ~quit /\ p # <<>>
       /\ Drive(p)
    \/ /\ quit \/ p = <<>>
       /\ pc' = IF quit \/ once THEN "closing" ELSE "next"
       /\ sending' = p
       /\ UNCHANGED <<steerQueue, turnDone, turnFinish, justConnected>>

\* The daemon answers and the router starts, 180-187.
ClientConnects ==
    /\ pc = "start"
    /\ \/ /\ pc' = "creating"
          /\ router' = IF once THEN "off" ELSE "next"
          /\ UNCHANGED exitCode
       \/ /\ pc' = "closing" /\ exitCode' = 1
          /\ UNCHANGED router
    /\ UNCHANGED <<once, hand, sending, turnActive, justConnected, eventVars, lineQueue,
                   steerQueue, routed, typed, dropped, daemonVars, quit>>

\* The session is created, or the run ends without one, 340-366.
CreateSession ==
    /\ pc = "creating"
    /\ \/ /\ session' = "live"
          /\ Iterate(sending)
          /\ UNCHANGED exitCode
       \/ /\ pc' = "closing" /\ exitCode' = 1
          /\ UNCHANGED <<session, sending, steerQueue, turnDone, turnFinish, justConnected>>
    /\ UNCHANGED <<once, hand, turnActive, terminated, events, lineQueue, router, routed,
                   typed, dropped, turn, mailbox, connects, connecting, reached, quit>>

\* _next_line: the getter takes a line; its caller resumes later.
TakeLine ==
    /\ pc = "next"
    /\ steerQueue # <<>>
    /\ hand' = Head(steerQueue)
    /\ steerQueue' = Tail(steerQueue)
    /\ pc' = "got"
    /\ UNCHANGED <<once, sending, exitCode, turnActive, justConnected, eventVars,
                   lineQueue, router, routed, typed, dropped, daemonVars, quit>>

NextLineQuits ==
    /\ pc = "next"
    /\ quit
    /\ pc' = "closing"
    /\ UNCHANGED <<once, hand, sending, exitCode, turnActive, justConnected, eventVars,
                   lineVars, daemonVars, quit>>

\* Taken, the line is sent whether or not the operator quits meanwhile.
GotLine ==
    /\ pc = "got"
    /\ Drive(<<hand>>)
    /\ hand' = NoLine
    /\ UNCHANGED <<once, exitCode, turnActive, terminated, events, lineQueue, router,
                   routed, typed, dropped, daemonVars, quit>>

\* send_message returned: await_turn begins in the same step.
AwaitTurn ==
    /\ pc = "sent"
    /\ turnActive' = TRUE
    /\ pc' = "await"
    /\ UNCHANGED <<once, hand, sending, exitCode, justConnected, eventVars, lineVars,
                   daemonVars, quit>>

\* await_turn's status, 292-296.
Status ==
    IF quit /\ ~turnDone THEN "quit"
    ELSE IF terminated # "no" THEN "terminated" ELSE "completed"

\* report_terminated, 264-271.
ExitOf == IF terminated = "error" THEN 1 ELSE 0

TurnReturns ==
    /\ pc = "await"
    /\ turnDone \/ quit
    /\ turnActive' = FALSE
    /\ \/ /\ Status # "completed" \/ (once /\ ~justConnected)
          /\ pc' = "closing"
          /\ exitCode' = IF Status = "terminated" THEN ExitOf ELSE exitCode
          /\ UNCHANGED <<sending, steerQueue, turnDone, turnFinish, justConnected>>
       \/ /\ Status = "completed" /\ ~(once /\ ~justConnected)
          /\ Iterate(IF justConnected THEN <<Continue>> ELSE <<>>)
          /\ UNCHANGED exitCode
    /\ UNCHANGED <<once, hand, terminated, events, lineQueue, router, routed, typed,
                   dropped, daemonVars, quit>>

\* The finally block, 407-416.
Close ==
    /\ pc = "closing"
    /\ quit' = TRUE
    /\ router' = "gone"
    /\ pc' = "exited"
    /\ UNCHANGED <<once, hand, sending, exitCode, turnActive, justConnected, eventVars,
                   lineQueue, steerQueue, routed, typed, dropped, daemonVars>>

-----------------------------------------------------------------------------
(* The console and the router, 81-116 and console.py *)

UnchangedMain == UNCHANGED <<mainVars, eventVars>>

\* Enter, any line but a quit.
Type(l) ==
    /\ ~once /\ ~quit
    /\ l \notin typed
    /\ typed' = typed \cup {l}
    /\ lineQueue' = Append(lineQueue, l)
    /\ UnchangedMain
    /\ UNCHANGED <<steerQueue, router, routed, dropped, daemonVars, quit>>

Quit ==
    /\ ~once /\ ~quit
    /\ quit' = TRUE
    /\ UnchangedMain
    /\ UNCHANGED <<lineVars, daemonVars>>

RouterTakes ==
    /\ router = "next"
    /\ lineQueue # <<>>
    /\ routed' = Head(lineQueue)
    /\ lineQueue' = Tail(lineQueue)
    /\ router' = "got"
    /\ UnchangedMain
    /\ UNCHANGED <<steerQueue, typed, dropped, daemonVars, quit>>

RouterQuits ==
    /\ router = "next"
    /\ quit
    /\ router' = "gone"
    /\ UnchangedMain
    /\ UNCHANGED <<lineQueue, steerQueue, routed, typed, dropped, daemonVars, quit>>

RouteIdle(l) == Append(steerQueue, l)

\* A turn in flight at this instant: steer it; else leave the line for the main loop.
Route ==
    /\ router = "got"
    /\ IF turnActive
       THEN router' = "inject" /\ UNCHANGED <<steerQueue, routed>>
       ELSE /\ steerQueue' = RouteIdle(routed)
            /\ router' = IF quit THEN "gone" ELSE "next"
            /\ routed' = NoLine
    /\ UnchangedMain
    /\ UNCHANGED <<lineQueue, typed, dropped, daemonVars, quit>>

\* inject_prompt returns, or raises and the line is reported and gone.
InjectReturns ==
    /\ router = "inject"
    /\ \/ mailbox' = Append(mailbox, routed) /\ UNCHANGED dropped
       \/ dropped' = dropped \cup {routed} /\ UNCHANGED mailbox
    /\ router' = IF quit THEN "gone" ELSE "next"
    /\ routed' = NoLine
    /\ UnchangedMain
    /\ UNCHANGED <<lineQueue, steerQueue, typed, turn, session, connects, connecting,
                   reached, quit>>

-----------------------------------------------------------------------------
(* The event callbacks, 216-218 and 248-256 *)

OnTurnCompleted(finish) ==
    turnFinish' = finish /\ turnDone' = TRUE /\ UNCHANGED terminated
OnTerminated(reason) ==
    terminated' = reason /\ turnDone' = TRUE /\ UNCHANGED turnFinish

Deliver ==
    /\ events # <<>> /\ pc # "exited"
    /\ events' = Tail(events)
    /\ IF Head(events) \in Finishes
       THEN OnTurnCompleted(Head(events)) ELSE OnTerminated(Head(events))
    /\ UNCHANGED <<mainVars, lineVars, daemonVars, quit>>

-----------------------------------------------------------------------------
(* The daemon *)

Occurs(l, q) == \E k \in DOMAIN q : q[k] = l

\* send_message: the text starts a turn, along with what was injected since the last.
Accept ==
    /\ pc = "send"
    /\ session = "live" /\ turn # "running"
    /\ turn' = "running"
    /\ reached' = [l \in Lines |-> reached[l] + (IF Occurs(l, sending) THEN 1 ELSE 0)
                                              + (IF Occurs(l, mailbox) THEN 1 ELSE 0)]
    /\ mailbox' = <<>>
    /\ sending' = <<>>
    /\ pc' = "sent"
    /\ UNCHANGED <<once, hand, exitCode, turnActive, justConnected, eventVars, lineVars,
                   session, connects, connecting, quit>>

\* send_message raises: the run ends through the finally block.
SendRaises ==
    /\ pc = "send"
    /\ pc' = "closing" /\ exitCode' = 1
    /\ dropped' = dropped \cup {l \in Lines : Occurs(l, sending)}
    /\ sending' = <<>>
    /\ UNCHANGED <<once, hand, turnActive, justConnected, eventVars, lineQueue,
                   steerQueue, router, routed, typed, daemonVars, quit>>

\* The runner folds in what was injected, at a tool boundary.
Fold ==
    /\ turn = "running" /\ mailbox # <<>>
    /\ reached' = [l \in Lines |-> reached[l] + (IF Occurs(l, mailbox) THEN 1 ELSE 0)]
    /\ mailbox' = <<>>
    /\ UNCHANGED <<mainVars, eventVars, lineVars, turn, session, connects, connecting,
                   quit>>

\* The model stops, or is cut off: one completion either way.
EndTurn(finish) ==
    /\ turn = "running"
    /\ turn' = finish
    /\ events' = Append(events, finish)
    /\ UNCHANGED <<mainVars, turnDone, turnFinish, terminated, lineVars, mailbox, session,
                   connects, connecting, reached, quit>>

\* A terminal error, or the session's natural end.
Terminate(reason) ==
    /\ session = "live"
    /\ session' = "dead"
    /\ turn' = IF turn # "running" THEN turn
               ELSE IF reason = "error" THEN "cut" ELSE "none"
    /\ events' = Append(events, reason)
    /\ UNCHANGED <<mainVars, turnDone, turnFinish, terminated, lineVars, mailbox, connects,
                   connecting, reached, quit>>

\* connect_device: its handler runs in this process and may outlive the turn.
ConnectDevice ==
    /\ turn = "running" /\ ~connecting /\ connects < MaxConnects
    /\ connects' = connects + 1 /\ connecting' = TRUE
    /\ UNCHANGED <<mainVars, eventVars, lineVars, turn, mailbox, session, reached, quit>>

\* connect_cb ends, 328-335: the device is bound, or the tool reports an error.
ConnectReturns ==
    /\ connecting /\ pc # "exited"
    /\ connecting' = FALSE
    /\ justConnected' \in {TRUE, justConnected}
    /\ UNCHANGED <<once, pc, hand, sending, exitCode, turnActive, eventVars, lineVars,
                   turn, mailbox, session, connects, reached, quit>>

-----------------------------------------------------------------------------
Main ==
    \/ ClientConnects \/ CreateSession
    \/ TakeLine \/ NextLineQuits \/ GotLine \/ AwaitTurn \/ TurnReturns \/ Close
Router == RouterTakes \/ RouterQuits \/ Route \/ InjectReturns
Operator == Quit \/ \E l \in Lines : Type(l)
Daemon ==
    \/ Accept \/ SendRaises \/ Fold \/ ConnectDevice \/ ConnectReturns
    \/ \E finish \in Finishes : EndTurn(finish)
    \/ \E reason \in Reasons : Terminate(reason)

Next == Main \/ Router \/ Operator \/ Deliver \/ Daemon

Spec == Init /\ [][Next]_vars

\* The event loop runs what is ready.  The daemon answers a send and a connect, and ends
\* each turn; the operator need not do anything.
FairSpec ==
    /\ Spec
    /\ WF_vars(Main) /\ WF_vars(Router) /\ WF_vars(Deliver)
    /\ WF_vars(Accept \/ SendRaises) /\ WF_vars(ConnectReturns)
    /\ WF_vars(\E finish \in Finishes : EndTurn(finish))

-----------------------------------------------------------------------------
(* Properties *)

\* Where a line is that no turn has had yet.
Places(l) ==
    {p \in {"lineQueue", "router", "steerQueue", "hand", "sending", "mailbox"} :
        \/ p = "lineQueue" /\ Occurs(l, lineQueue)
        \/ p = "router" /\ routed = l
        \/ p = "steerQueue" /\ Occurs(l, steerQueue)
        \/ p = "hand" /\ hand = l
        \/ p = "sending" /\ Occurs(l, sending)
        \/ p = "mailbox" /\ Occurs(l, mailbox)}

\* An operator's line is folded into a running turn or starts one (87-92), never both and
\* never twice, and none is lost on the way but by an inject or a send that failed.
LineReachesOneTurn ==
    \A l \in typed :
        Cardinality(Places(l)) + reached[l] + (IF l \in dropped THEN 1 ELSE 0) = 1

\* A turn taken for complete is over on the daemon, and the finish_reason main then holds
\* is this turn's: no end of an earlier turn is taken for the end of this one, so the line
\* at the boundary is honest (194-199, 403).
CompletionIsOfThisTurn ==
    pc = "await" /\ turnDone /\ terminated = "no" =>
        turn \in Finishes /\ turnFinish = turn

\* --once exits with 0 only when the goal had its turn, once, and that turn is over without
\* a terminal error of the session (264-271, 340-366).  It does not say that the model
\* finished: a turn cut off by max_tokens, safety or error is a completion like any other
\* (216-218), and 401-402 leave the code at 0.
ZeroMeansGoalRun ==
    once /\ pc = "exited" /\ exitCode = 0 =>
        turn \notin {"running", "cut"} /\ \E l \in typed : reached[l] = 1

\* A turn in flight ends, by its completion, a termination of the session or a quit: the
\* loop never waits "on a TURN_COMPLETED that never comes" (248-252).
TurnIsLeft == pc = "await" ~> pc # "await"

\* A line typed is handed to the daemon, however turns, sends and connects interleave with
\* it, or the run ends.
LineIsHandedOver ==
    \A l \in Lines :
        l \in typed ~> reached[l] > 0 \/ Occurs(l, mailbox) \/ l \in dropped \/ pc = "exited"
=============================================================================

--------------------------- MODULE TurnLoopProofs ---------------------------
(***************************************************************************)
(* Proofs about the turn loop: types, that the end of one turn is never    *)
(* taken for the end of another, that a line reaches one turn, and that    *)
(* the exit code of a --once run tells the truth.                          *)
(***************************************************************************)
EXTENDS TurnLoop, FiniteSetTheorems, TLAPS

\* A coroutine that is about to pass a line on holds one.
HoldsLine ==
    /\ pc = "got" => hand \in Lines
    /\ router \in {"got", "inject"} => routed \in Lines

TypeInv == TypeOK /\ HoldsLine

LEMMA Mailed ==
  ASSUME NEW q, NEW r \in [Lines -> Nat], NEW s
  PROVE  [l \in Lines |-> r[l] + (IF Occurs(l, q) THEN 1 ELSE 0)
                               + (IF Occurs(l, s) THEN 1 ELSE 0)] \in [Lines -> Nat]
OBVIOUS

LEMMA Single == ASSUME NEW S, NEW x \in S PROVE <<x>> \in Seq(S)
OBVIOUS

LEMMA Joined == ASSUME NEW S, NEW p \in Seq(S), NEW q \in Seq(S) PROVE p \o q \in Seq(S)
OBVIOUS

\* What a turn is continued with.
LEMMA Continuation == (IF justConnected THEN <<Continue>> ELSE <<>>) \in Seq(Texts)
<1>1. <<Continue>> \in Seq(Texts)
  <2>1. Continue \in Texts
    BY DEF Texts
  <2> QED
    BY <2>1, Single
<1>2. <<>> \in Seq(Texts)
  OBVIOUS
<1> QED
  BY <1>1, <1>2

LEMMA InitSends == Init => sending \in Seq(Texts)
<1> SUFFICES ASSUME Init PROVE sending \in Seq(Texts)
  OBVIOUS
<1>1. CASE sending = <<>>
  BY <1>1
<1>2. ASSUME NEW l \in Lines, sending = <<l>> PROVE sending \in Seq(Texts)
  BY <1>2, Single DEF Texts
<1> QED
  BY <1>1, <1>2 DEF Init

LEMMA IterateTypes ==
  ASSUME TypeInv, NEW p \in Seq(Texts), Iterate(p)
  PROVE  /\ sending' \in Seq(Texts) /\ steerQueue' \in Seq(Lines)
         /\ turnDone' \in BOOLEAN /\ justConnected' \in BOOLEAN
         /\ turnFinish' \in Finishes
         /\ pc' \in {"closing", "next", "send"}
<1>1. steerQueue \in Seq(Texts)
  BY DEF TypeInv, TypeOK, Texts
<1>2. turnDone \in BOOLEAN /\ justConnected \in BOOLEAN /\ steerQueue \in Seq(Lines)
      /\ turnFinish \in Finishes
  BY DEF TypeInv, TypeOK
<1>3. CASE Drive(p)
  <2>1. p \o steerQueue \in Seq(Texts)
    BY <1>1, Joined
  <2>2. sending' = p \o steerQueue /\ steerQueue' = <<>>
    BY <1>3 DEF Drive, Drained
  <2>3. turnDone' = FALSE /\ justConnected' = FALSE /\ pc' = "send" /\ turnFinish' \in Finishes
    BY <1>3 DEF Drive, PrepTurn, Finishes
  <2>4. steerQueue' \in Seq(Lines)
    BY <2>2
  <2>5. sending' \in Seq(Texts)
    BY <2>1, <2>2
  <2> QED
    BY <2>3, <2>4, <2>5
<1>4. CASE /\ pc' = IF quit \/ once THEN "closing" ELSE "next"
           /\ sending' = p
           /\ UNCHANGED <<steerQueue, turnDone, turnFinish, justConnected>>
  BY <1>2, <1>4
<1> QED
  BY <1>3, <1>4 DEF Iterate

\* The types by the groups of variables the actions leave alone together.
MainTypes ==
    /\ once \in BOOLEAN
    /\ pc \in {"start", "creating", "next", "got", "send", "sent", "await", "closing", "exited"}
    /\ hand \in Lines \cup {NoLine}
    /\ sending \in Seq(Texts)
    /\ exitCode \in {0, 1}
    /\ turnActive \in BOOLEAN /\ justConnected \in BOOLEAN
    /\ pc = "got" => hand \in Lines
EventTypes ==
    /\ turnDone \in BOOLEAN
    /\ turnFinish \in Finishes
    /\ terminated \in {"no"} \cup Reasons
    /\ events \in Seq(Finishes \cup Reasons)
LineTypes ==
    /\ quit \in BOOLEAN
    /\ lineQueue \in Seq(Lines) /\ steerQueue \in Seq(Lines)
    /\ router \in {"off", "next", "got", "inject", "gone"}
    /\ routed \in Lines \cup {NoLine}
    /\ router \in {"got", "inject"} => routed \in Lines
    /\ typed \in SUBSET Lines /\ dropped \in SUBSET Lines
DaemonTypes ==
    /\ turn \in {"none", "running", "cut"} \cup Finishes
    /\ mailbox \in Seq(Lines)
    /\ session \in {"none", "live", "dead"}
    /\ connects \in 0..MaxConnects /\ connecting \in BOOLEAN
    /\ reached \in [Lines -> Nat]

LEMMA TypesByGroup ==
  TypeInv <=> MainTypes /\ EventTypes /\ LineTypes /\ DaemonTypes
<1>1. exitCode \in 0..1 <=> exitCode \in {0, 1}
  OBVIOUS
<1> QED
  BY <1>1, Zenon DEF TypeInv, TypeOK, HoldsLine, MainTypes, EventTypes, LineTypes, DaemonTypes

LEMMA Frames ==
  /\ MainTypes /\ UNCHANGED mainVars => MainTypes'
  /\ EventTypes /\ UNCHANGED eventVars => EventTypes'
  /\ LineTypes /\ UNCHANGED <<lineVars, quit>> => LineTypes'
  /\ DaemonTypes /\ UNCHANGED daemonVars => DaemonTypes'
BY DEF MainTypes, EventTypes, LineTypes, DaemonTypes, mainVars, eventVars, lineVars,
       daemonVars

\* What the head of the loop may change keeps the types of the rest.
LEMMA IterateKeeps ==
  ASSUME TypeInv, NEW p \in Seq(Texts), Iterate(p),
         UNCHANGED <<once, hand, terminated, events, lineQueue, router, routed, typed,
                     dropped, quit>>,
         turnActive' \in BOOLEAN, exitCode' \in {0, 1}
  PROVE  MainTypes' /\ EventTypes' /\ LineTypes'
<1>0. /\ sending' \in Seq(Texts) /\ steerQueue' \in Seq(Lines)
      /\ turnDone' \in BOOLEAN /\ justConnected' \in BOOLEAN
      /\ turnFinish' \in Finishes
      /\ pc' \in {"closing", "next", "send"}
  BY IterateTypes
<1>1. MainTypes /\ EventTypes /\ LineTypes
  BY TypesByGroup
<1>2. MainTypes'
  BY <1>0, <1>1 DEF MainTypes
<1>3. EventTypes'
  BY <1>0, <1>1 DEF EventTypes
<1>4. LineTypes'
  BY <1>0, <1>1 DEF LineTypes
<1> QED
  BY <1>2, <1>3, <1>4

LEMMA TypeInvStep == TypeInv /\ [Next]_vars => TypeInv'
<1> SUFFICES ASSUME TypeInv, [Next]_vars PROVE MainTypes' /\ EventTypes' /\ LineTypes' /\ DaemonTypes'
  <2>1. TypeInv' <=> MainTypes' /\ EventTypes' /\ LineTypes' /\ DaemonTypes'
    BY TypesByGroup, PTL
  <2> QED
    BY <2>1
<1>0. MainTypes /\ EventTypes /\ LineTypes /\ DaemonTypes
  BY TypesByGroup
<1> DEFINE Goal == MainTypes' /\ EventTypes' /\ LineTypes' /\ DaemonTypes'
<1>1. CASE ClientConnects
  <2>1. MainTypes'
    BY <1>0, <1>1 DEF ClientConnects, MainTypes
  <2>2. LineTypes'
    BY <1>0, <1>1 DEF ClientConnects, LineTypes
  <2>3. UNCHANGED <<eventVars, daemonVars>>
    BY <1>1 DEF ClientConnects
  <2> QED
    BY <1>0, <2>1, <2>2, <2>3, Frames
<1>2. CASE CreateSession
  <2>0. UNCHANGED <<once, hand, turnActive, terminated, events, lineQueue, router, routed,
                    typed, dropped, turn, mailbox, connects, connecting, reached, quit>>
    BY <1>2 DEF CreateSession
  <2>1. DaemonTypes'
    BY <1>0, <1>2, <2>0 DEF CreateSession, DaemonTypes
  <2>2. CASE Iterate(sending) /\ UNCHANGED exitCode
    <3>1. /\ sending \in Seq(Texts) /\ turnActive' \in BOOLEAN /\ exitCode' \in {0, 1}
      BY <1>0, <2>0, <2>2 DEF MainTypes
    <3> QED
      BY <2>0, <2>1, <2>2, <3>1, IterateKeeps
  <2>3. CASE /\ pc' = "closing" /\ exitCode' = 1
             /\ UNCHANGED <<session, sending, steerQueue, turnDone, turnFinish,
                            justConnected>>
    <3>1. MainTypes'
      BY <1>0, <2>0, <2>3 DEF MainTypes
    <3>2. UNCHANGED <<eventVars, lineVars, quit>>
      BY <2>0, <2>3 DEF eventVars, lineVars
    <3> QED
      BY <1>0, <2>1, <3>1, <3>2, Frames
  <2> QED
    BY <1>2, <2>2, <2>3 DEF CreateSession
<1>3. CASE TakeLine
  <2>1. steerQueue \in Seq(Lines) /\ steerQueue # <<>>
    BY <1>0, <1>3 DEF TakeLine, LineTypes
  <2>2. Head(steerQueue) \in Lines /\ Tail(steerQueue) \in Seq(Lines)
    BY <2>1
  <2>3. MainTypes' /\ LineTypes'
    BY <1>0, <1>3, <2>2 DEF TakeLine, MainTypes, LineTypes
  <2>4. UNCHANGED <<eventVars, daemonVars>>
    BY <1>3 DEF TakeLine
  <2> QED
    BY <1>0, <2>3, <2>4, Frames
<1>4. CASE NextLineQuits
  <2>1. MainTypes' /\ UNCHANGED <<eventVars, lineVars, daemonVars, quit>>
    BY <1>0, <1>4 DEF NextLineQuits, MainTypes
  <2> QED
    BY <1>0, <2>1, Frames
<1>5. CASE GotLine
  <2>0. hand \in Texts /\ steerQueue \in Seq(Texts)
    BY <1>0, <1>5 DEF GotLine, Texts, MainTypes, LineTypes
  <2>1. <<hand>> \o steerQueue \in Seq(Texts)
    BY <2>0, Single, Joined
  <2>2. sending' = <<hand>> \o steerQueue /\ steerQueue' = <<>>
    BY <1>5 DEF GotLine, Drive, Drained
  <2>3. /\ turnDone' = FALSE /\ justConnected' = FALSE /\ pc' = "send" /\ hand' = NoLine
        /\ turnFinish' \in Finishes
    BY <1>5 DEF GotLine, Drive, PrepTurn, Finishes
  <2>4. UNCHANGED <<once, exitCode, turnActive, terminated, events, lineQueue, router,
                    routed, typed, dropped, quit>>
    BY <1>5 DEF GotLine
  <2>5. MainTypes'
    BY <1>0, <2>1, <2>2, <2>3, <2>4 DEF MainTypes
  <2>6. EventTypes'
    BY <1>0, <2>3, <2>4 DEF EventTypes
  <2>7. steerQueue' \in Seq(Lines)
    BY <2>2
  <2>8. LineTypes'
    BY <1>0, <2>4, <2>7 DEF LineTypes
  <2>9. UNCHANGED daemonVars
    BY <1>5 DEF GotLine
  <2> QED
    BY <1>0, <2>5, <2>6, <2>8, <2>9, Frames
<1>6. CASE AwaitTurn
  <2>1. MainTypes' /\ UNCHANGED <<eventVars, lineVars, daemonVars, quit>>
    BY <1>0, <1>6 DEF AwaitTurn, MainTypes
  <2> QED
    BY <1>0, <2>1, Frames
<1>7. CASE TurnReturns
  <2>0. /\ turnActive' = FALSE
        /\ UNCHANGED <<once, hand, terminated, events, lineQueue, router, routed, typed,
                       dropped, daemonVars, quit>>
    BY <1>7 DEF TurnReturns
  <2>1. exitCode' \in {0, 1}
    <3>1. exitCode' = exitCode \/ exitCode' = ExitOf
      BY <1>7 DEF TurnReturns
    <3>2. exitCode \in {0, 1} /\ ExitOf \in {0, 1}
      BY <1>0 DEF ExitOf, MainTypes
    <3> QED
      BY <3>1, <3>2
  <2>2. CASE /\ pc' = "closing"
             /\ UNCHANGED <<sending, steerQueue, turnDone, turnFinish, justConnected>>
    <3>1. MainTypes'
      BY <1>0, <2>0, <2>1, <2>2 DEF MainTypes
    <3>2. UNCHANGED <<eventVars, lineVars, quit>>
      BY <2>0, <2>2 DEF eventVars, lineVars
    <3> QED
      BY <1>0, <2>0, <3>1, <3>2, Frames
  <2>3. CASE Iterate(IF justConnected THEN <<Continue>> ELSE <<>>)
    <3>1. turnActive' \in BOOLEAN
      BY <2>0
    <3>2. MainTypes' /\ EventTypes' /\ LineTypes'
      BY <2>0, <2>1, <2>3, <3>1, Continuation, IterateKeeps
    <3> QED
      BY <1>0, <2>0, <3>2, Frames
  <2> QED
    BY <1>7, <2>2, <2>3 DEF TurnReturns
<1>8. CASE Close
  <2>1. MainTypes'
    BY <1>0, <1>8 DEF Close, MainTypes
  <2>2. LineTypes'
    BY <1>0, <1>8 DEF Close, LineTypes
  <2>3. UNCHANGED <<eventVars, daemonVars>>
    BY <1>8 DEF Close
  <2> QED
    BY <1>0, <2>1, <2>2, <2>3, Frames
<1>9. CASE Quit \/ RouterQuits
  <2>1. LineTypes' /\ UNCHANGED <<mainVars, eventVars, daemonVars>>
    BY <1>0, <1>9 DEF Quit, RouterQuits, UnchangedMain, LineTypes, lineVars
  <2> QED
    BY <1>0, <2>1, Frames
<1>22. ASSUME NEW l \in Lines, Type(l) PROVE Goal
  <2>1. lineQueue' \in Seq(Lines) /\ typed' \in SUBSET Lines
    BY <1>0, <1>22 DEF Type, LineTypes
  <2>2. LineTypes' /\ UNCHANGED <<mainVars, eventVars, daemonVars>>
    BY <1>0, <1>22, <2>1 DEF Type, UnchangedMain, LineTypes
  <2> QED
    BY <1>0, <2>2, Frames
<1>10. CASE RouterTakes
  <2>1. lineQueue \in Seq(Lines) /\ lineQueue # <<>>
    BY <1>0, <1>10 DEF RouterTakes, LineTypes
  <2>2. Head(lineQueue) \in Lines /\ Tail(lineQueue) \in Seq(Lines)
    BY <2>1
  <2>3. LineTypes' /\ UNCHANGED <<mainVars, eventVars, daemonVars>>
    BY <1>0, <1>10, <2>2 DEF RouterTakes, LineTypes, UnchangedMain
  <2> QED
    BY <1>0, <2>3, Frames
<1>11. CASE Route
  <2>1. UNCHANGED <<mainVars, eventVars, daemonVars>>
    BY <1>11 DEF Route, UnchangedMain
  <2>2. routed \in Lines /\ steerQueue \in Seq(Lines)
    BY <1>0, <1>11 DEF Route, LineTypes
  <2>3. Append(steerQueue, routed) \in Seq(Lines)
    BY <2>2
  <2>4. CASE turnActive
    BY <1>0, <1>11, <2>1, <2>4, Frames DEF Route, LineTypes
  <2>5. CASE ~turnActive
    <3>1. LineTypes'
      BY <1>0, <1>11, <2>3, <2>5 DEF Route, RouteIdle, LineTypes
    <3> QED
      BY <1>0, <2>1, <3>1, Frames
  <2> QED
    BY <2>4, <2>5
<1>12. CASE InjectReturns
  <2>1. UNCHANGED <<mainVars, eventVars, lineQueue, steerQueue, typed, turn, session,
                    connects, connecting, reached, quit>>
    BY <1>12 DEF InjectReturns, UnchangedMain
  <2>2. routed \in Lines /\ routed' = NoLine /\ router' \in {"gone", "next"}
    BY <1>0, <1>12 DEF InjectReturns, LineTypes
  <2>3. mailbox' = mailbox \/ mailbox' = Append(mailbox, routed)
    BY <1>12 DEF InjectReturns
  <2>4. mailbox \in Seq(Lines)
    BY <1>0 DEF DaemonTypes
  <2>5. mailbox' \in Seq(Lines)
    BY <2>2, <2>3, <2>4
  <2>6. dropped' = dropped \/ dropped' = dropped \cup {routed}
    BY <1>12 DEF InjectReturns
  <2>7. LineTypes'
    BY <1>0, <2>1, <2>2, <2>6 DEF LineTypes
  <2>8. DaemonTypes'
    BY <1>0, <2>1, <2>5 DEF DaemonTypes
  <2> QED
    BY <1>0, <2>1, <2>7, <2>8, Frames
<1>13. CASE Deliver
  <2>1. UNCHANGED <<mainVars, lineVars, daemonVars, quit>> /\ events' = Tail(events)
    BY <1>13 DEF Deliver
  <2>2. events \in Seq(Finishes \cup Reasons) /\ events # <<>>
    BY <1>0, <1>13 DEF Deliver, EventTypes
  <2>3. /\ Head(events) \in Finishes \cup Reasons
        /\ Tail(events) \in Seq(Finishes \cup Reasons)
    BY <2>2
  <2>4. EventTypes'
    BY <1>0, <1>13, <2>1, <2>3 DEF Deliver, OnTurnCompleted, OnTerminated, EventTypes
  <2> QED
    BY <1>0, <2>1, <2>4, Frames
<1>14. CASE Accept
  <2>1. reached' \in [Lines -> Nat]
    BY <1>0, <1>14, Mailed DEF Accept, DaemonTypes
  <2>2. MainTypes'
    BY <1>0, <1>14 DEF Accept, MainTypes
  <2>3. DaemonTypes'
    BY <1>0, <1>14, <2>1 DEF Accept, DaemonTypes
  <2>4. UNCHANGED <<eventVars, lineVars, quit>>
    BY <1>14 DEF Accept
  <2> QED
    BY <1>0, <2>2, <2>3, <2>4, Frames
<1>15. CASE SendRaises
  <2>1. MainTypes'
    BY <1>0, <1>15 DEF SendRaises, MainTypes
  <2>2. dropped' \in SUBSET Lines
    BY <1>0, <1>15 DEF SendRaises, LineTypes
  <2>3. LineTypes' /\ UNCHANGED <<eventVars, daemonVars>>
    BY <1>0, <1>15, <2>2 DEF SendRaises, LineTypes
  <2> QED
    BY <1>0, <2>1, <2>3, Frames
<1>16. CASE Fold
  <2>1. reached' \in [Lines -> Nat]
    BY <1>0, <1>16 DEF Fold, DaemonTypes
  <2>2. DaemonTypes' /\ UNCHANGED <<mainVars, eventVars, lineVars, quit>>
    BY <1>0, <1>16, <2>1 DEF Fold, DaemonTypes
  <2> QED
    BY <1>0, <2>2, Frames
<1>17. ASSUME NEW finish \in Finishes, EndTurn(finish) PROVE Goal
  <2>1. EventTypes'
    BY <1>0, <1>17 DEF EndTurn, EventTypes
  <2>2. DaemonTypes' /\ UNCHANGED <<mainVars, lineVars, quit>>
    BY <1>0, <1>17 DEF EndTurn, DaemonTypes
  <2> QED
    BY <1>0, <2>1, <2>2, Frames
<1>18. ASSUME NEW reason \in Reasons, Terminate(reason) PROVE Goal
  <2>1. EventTypes'
    BY <1>0, <1>18 DEF Terminate, EventTypes
  <2>2. DaemonTypes' /\ UNCHANGED <<mainVars, lineVars, quit>>
    BY <1>0, <1>18 DEF Terminate, DaemonTypes
  <2> QED
    BY <1>0, <2>1, <2>2, Frames
<1>19. CASE ConnectDevice
  <2>1. DaemonTypes' /\ UNCHANGED <<mainVars, eventVars, lineVars, quit>>
    BY <1>0, <1>19, TurnAssumption DEF ConnectDevice, DaemonTypes
  <2> QED
    BY <1>0, <2>1, Frames
<1>20. CASE ConnectReturns
  <2>1. MainTypes'
    BY <1>0, <1>20 DEF ConnectReturns, MainTypes
  <2>2. DaemonTypes' /\ UNCHANGED <<eventVars, lineVars, quit>>
    BY <1>0, <1>20 DEF ConnectReturns, DaemonTypes
  <2> QED
    BY <1>0, <2>1, <2>2, Frames
<1>21. CASE UNCHANGED vars
  BY <1>0, <1>21, Frames DEF vars
<1> QED
  BY <1>1, <1>2, <1>3, <1>4, <1>5, <1>6, <1>7, <1>8, <1>9, <1>10, <1>11, <1>12, <1>13,
     <1>14, <1>15, <1>16, <1>17, <1>18, <1>19, <1>20, <1>21, <1>22
  DEF Next, Main, Router, Operator, Daemon

LEMMA InitTypes == Init => TypeInv
<1> SUFFICES ASSUME Init PROVE MainTypes /\ EventTypes /\ LineTypes /\ DaemonTypes
  BY TypesByGroup
<1>1. MainTypes
  BY InitSends DEF Init, MainTypes
<1>2. EventTypes
  <2>1. turnDone = FALSE /\ turnFinish = "stop" /\ terminated = "no" /\ events = <<>>
    BY DEF Init
  <2>2. <<>> \in Seq(Finishes \cup Reasons)
    OBVIOUS
  <2> QED
    BY <2>1, <2>2 DEF EventTypes, Finishes
<1>3. LineTypes
  <2>1. quit = FALSE /\ lineQueue = <<>> /\ steerQueue = <<>>
    BY DEF Init
  <2>2. router = "off" /\ routed = NoLine /\ dropped = {} /\ typed \in SUBSET Lines
    BY DEF Init
  <2>3. <<>> \in Seq(Lines)
    OBVIOUS
  <2>4. lineQueue \in Seq(Lines) /\ steerQueue \in Seq(Lines)
    BY <2>1, <2>3
  <2> QED
    BY <2>1, <2>2, <2>4 DEF LineTypes
<1>4. DaemonTypes
  <2>1. turn = "none" /\ mailbox = <<>> /\ session = "none" /\ connecting = FALSE
    BY DEF Init
  <2>2. mailbox \in Seq(Lines)
    BY <2>1
  <2>3. connects \in 0..MaxConnects
    BY TurnAssumption DEF Init
  <2>4. reached \in [Lines -> Nat]
    BY DEF Init
  <2> QED
    BY <2>1, <2>2, <2>3, <2>4 DEF DaemonTypes
<1> QED
  BY <1>1, <1>2, <1>3, <1>4

\* TypeOK of TurnLoop: queues hold lines, a turn's text holds lines or the automatic
\* continuation, the exit code is 0 or 1 (run, _route_lines, _next_line).
THEOREM TypeCorrect == Spec => []TypeOK
<1>1. TypeInv => TypeOK
  BY DEF TypeInv
<1> QED
  BY InitTypes, <1>1, TypeInvStep, PTL DEF Spec

-----------------------------------------------------------------------------
\* Where main can be while a turn runs or its end is on the way.
Engaged == pc \in {"sent", "await", "closing", "exited"}

\* One event is owed or under way for one turn, and turn_done stands for the turn that is
\* over: with the session alive nothing else can have set it.
TurnInv ==
    /\ session = "none" =>
          turnDone = FALSE /\ events = <<>> /\ pc \in {"start", "creating", "closing", "exited"}
    /\ pc \in {"start", "creating"} => session = "none"
    /\ session # "dead" =>
          terminated = "no" /\ (events = <<>> \/ \E f \in Finishes : events = <<f>>)
    /\ turn = "running" => session = "live" /\ events = <<>> /\ turnDone = FALSE /\ Engaged
    /\ session = "live" /\ turnDone => events = <<>>
    /\ session = "live" /\ events # <<>> => Engaged
    /\ session = "live" /\ pc = "send" => turnDone = FALSE

\* The last turn sent is the one a completion under way, or taken, is about.
FinishInv ==
    pc \in {"sent", "await"} =>
        /\ \A k \in 1..Len(events) : events[k] \in Finishes => turn = events[k]
        /\ turnDone /\ terminated = "no" => turn \in Finishes /\ turnFinish = turn

LEMMA IterateTurn ==
  ASSUME TypeInv, NEW p \in Seq(Texts), Iterate(p)
  PROVE  /\ pc' \in {"closing", "next", "send"}
         /\ turnDone' = FALSE \/ turnDone' = turnDone
         /\ pc' = "send" => turnDone' = FALSE
BY DEF Iterate, Drive, PrepTurn

LEMMA TurnInvStep == TypeInv /\ TurnInv /\ [Next]_vars => TurnInv'
<1> SUFFICES ASSUME TypeInv, TurnInv, [Next]_vars PROVE TurnInv'
  OBVIOUS
<1> USE DEF TurnInv, Engaged, eventVars, lineVars, daemonVars, mainVars
<1>0. /\ turnDone \in BOOLEAN /\ session \in {"none", "live", "dead"}
      /\ sending \in Seq(Texts)
      /\ events \in Seq(Finishes \cup Reasons)
  BY DEF TypeInv, TypeOK
<1>1. CASE ClientConnects
  BY <1>1 DEF ClientConnects
<1>2. CASE CreateSession
  <2>1. CASE session' = "live" /\ Iterate(sending)
    <3>1. /\ pc' \in {"closing", "next", "send"}
          /\ turnDone' = FALSE \/ turnDone' = turnDone
          /\ pc' = "send" => turnDone' = FALSE
      BY <1>0, <2>1, IterateTurn
    <3>2. pc = "creating" /\ UNCHANGED <<terminated, events, turn>>
      BY <1>2 DEF CreateSession
    <3>3. session = "none"
      BY <1>0, <3>2
    <3> QED
      BY <1>0, <2>1, <3>1, <3>2, <3>3
  <2>2. CASE UNCHANGED <<session, sending, steerQueue, turnDone, justConnected>>
    BY <1>2, <2>2 DEF CreateSession
  <2> QED
    BY <1>2, <2>1, <2>2 DEF CreateSession
<1>3. CASE TakeLine
  BY <1>3 DEF TakeLine
<1>4. CASE NextLineQuits
  BY <1>4 DEF NextLineQuits
<1>5. CASE GotLine
  BY <1>5 DEF GotLine, Drive, PrepTurn
<1>6. CASE AwaitTurn
  BY <1>6 DEF AwaitTurn
<1>7. CASE TurnReturns
  <2>1. UNCHANGED <<terminated, events, turn, session>> /\ pc = "await"
    BY <1>7 DEF TurnReturns
  <2>2. CASE pc' = "closing" /\ UNCHANGED turnDone
    BY <2>1, <2>2
  <2>3. CASE /\ Status = "completed"
             /\ Iterate(IF justConnected THEN <<Continue>> ELSE <<>>)
    <3>1. turnDone
      BY <1>0, <1>7, <2>3 DEF TurnReturns, Status
    <3>3. /\ pc' \in {"closing", "next", "send"}
          /\ turnDone' = FALSE \/ turnDone' = turnDone
          /\ pc' = "send" => turnDone' = FALSE
      BY <2>3, Continuation, IterateTurn
    <3> QED
      BY <1>0, <2>1, <3>1, <3>3
  <2> QED
    BY <1>7, <2>2, <2>3 DEF TurnReturns
<1>8. CASE Close
  BY <1>8 DEF Close
<1>9. CASE Quit \/ (\E l \in Lines : Type(l)) \/ RouterTakes \/ RouterQuits \/ Route
           \/ InjectReturns
  BY <1>9 DEF Quit, Type, RouterTakes, RouterQuits, Route, InjectReturns, UnchangedMain
<1>10. CASE Deliver
  <2>1. events # <<>> /\ events' = Tail(events)
        /\ UNCHANGED <<pc, session, turn>>
    BY <1>10 DEF Deliver
  <2>2. CASE session # "dead"
    <3>1. PICK f \in Finishes : events = <<f>>
      BY <2>1, <2>2
    <3>4. session = "live"
      BY <1>0, <2>1, <2>2
    <3>2. events' = <<>> /\ Head(events) \in Finishes
      BY <2>1, <3>1
    <3>3. terminated' = terminated /\ turnDone' = TRUE
      BY <1>10, <3>2 DEF Deliver, OnTurnCompleted
    <3> QED
      BY <1>0, <2>1, <3>4, <3>2, <3>3
  <2>3. CASE session = "dead"
    BY <1>0, <2>1, <2>3
  <2> QED
    BY <2>2, <2>3
<1>11. CASE Accept
  BY <1>11 DEF Accept
<1>12. CASE SendRaises
  BY <1>12 DEF SendRaises
<1>13. CASE Fold \/ ConnectDevice \/ ConnectReturns
  <2>1. UNCHANGED <<pc, turn, session, events, turnDone, terminated>>
    BY <1>13 DEF Fold, ConnectDevice, ConnectReturns
  <2> QED
    BY <2>1
<1>14. ASSUME NEW finish \in Finishes, EndTurn(finish) PROVE TurnInv'
  <2>1. /\ session = "live" /\ events = <<>> /\ terminated = "no" /\ turnDone = FALSE
        /\ Engaged /\ finish # "running"
    BY <1>14 DEF EndTurn, Finishes
  <2>2. events' = <<finish>> /\ turn' = finish
        /\ UNCHANGED <<pc, session, terminated, turnDone>>
    BY <1>14, <2>1 DEF EndTurn
  <2> QED
    BY <2>1, <2>2
<1>15. ASSUME NEW reason \in Reasons, Terminate(reason) PROVE TurnInv'
  BY <1>15 DEF Terminate
<1>16. CASE UNCHANGED vars
  BY <1>16 DEF vars
<1> QED
  BY <1>1, <1>2, <1>3, <1>4, <1>5, <1>6, <1>7, <1>8, <1>9, <1>10, <1>11, <1>12, <1>13,
     <1>14, <1>15, <1>16
  DEF Next, Main, Router, Operator, Daemon

\* A completion is of the turn that was sent last: it is put on its way when that turn ends,
\* and none is under way or taken when the next turn is accepted.
LEMMA FinishInvStep == TypeInv /\ TurnInv /\ FinishInv /\ [Next]_vars => FinishInv'
<1> SUFFICES ASSUME TypeInv, TurnInv, FinishInv, [Next]_vars, pc' \in {"sent", "await"}
             PROVE  FinishInv'
  BY DEF FinishInv
<1> USE DEF FinishInv, eventVars, lineVars, daemonVars, mainVars
<1>0. events \in Seq(Finishes \cup Reasons) /\ Len(events) \in Nat /\ turnDone \in BOOLEAN
  BY DEF TypeInv, TypeOK
<1>1. CASE Accept
  <2>1. /\ pc = "send" /\ session = "live" /\ UNCHANGED <<events, turnDone>>
    BY <1>1 DEF Accept
  <2>2. events = <<>> /\ turnDone = FALSE
    BY <1>0, <2>1 DEF TurnInv, Engaged
  <2> QED
    BY <2>1, <2>2
<1>2. CASE Deliver
  <2>1. /\ UNCHANGED <<pc, turn>> /\ events # <<>> /\ events' = Tail(events)
    BY <1>2 DEF Deliver
  <2>2. /\ Head(events) = events[1] /\ 1 \in 1..Len(events)
        /\ \A k \in 1..Len(events') : k + 1 \in 1..Len(events) /\ events'[k] = events[k + 1]
    BY <1>0, <2>1
  <2>3. \A k \in 1..Len(events') : events'[k] \in Finishes => turn' = events'[k]
    BY <2>1, <2>2
  <2>4. CASE Head(events) \in Finishes
    BY <1>2, <2>1, <2>2, <2>3, <2>4 DEF Deliver, OnTurnCompleted
  <2>5. CASE Head(events) \notin Finishes
    <3>1. events[1] \in Finishes \cup Reasons
      BY <1>0, <2>2
    <3>2. terminated' \in Reasons
      BY <1>2, <2>2, <2>5, <3>1 DEF Deliver, OnTerminated
    <3>3. terminated' # "no"
      BY <3>2 DEF Reasons
    <3> QED
      BY <2>1, <2>3, <3>3
  <2> QED
    BY <2>4, <2>5
<1>3. ASSUME NEW finish \in Finishes, EndTurn(finish)
      PROVE  FinishInv'
  <2>1. events = <<>> /\ turnDone = FALSE
    BY <1>3 DEF EndTurn, TurnInv
  <2>2. events' = <<finish>> /\ turn' = finish /\ turnDone' = turnDone
    BY <1>3, <2>1 DEF EndTurn
  <2> QED
    BY <2>1, <2>2
<1>4. ASSUME NEW reason \in Reasons, Terminate(reason)
      PROVE  FinishInv'
  <2>1. /\ UNCHANGED <<pc, turnDone, turnFinish, terminated>>
        /\ events' = Append(events, reason)
        /\ turn # "running" => turn' = turn
    BY <1>4 DEF Terminate
  <2>2. reason \notin Finishes
    BY DEF Reasons, Finishes
  <2>3. \A k \in 1..Len(events') : events'[k] \in Finishes =>
            k \in 1..Len(events) /\ events'[k] = events[k]
    <3>1. /\ Len(events') = Len(events) + 1 /\ events'[Len(events) + 1] = reason
          /\ \A k \in 1..Len(events) : events'[k] = events[k]
      BY <1>0, <2>1
    <3>2. \A k \in 1..(Len(events) + 1) : k \in 1..Len(events) \/ k = Len(events) + 1
      BY <1>0
    <3> QED
      BY <2>2, <3>1, <3>2
  <2>4. CASE turn = "running"
    <3>1. events = <<>> /\ turnDone = FALSE
      BY <2>4 DEF TurnInv
    <3> QED
      BY <2>1, <2>3, <3>1
  <2>5. CASE turn # "running"
    BY <2>1, <2>3, <2>5
  <2> QED
    BY <2>4, <2>5
<1>5. ASSUME UNCHANGED <<events, turn, turnDone, turnFinish, terminated>>,
             pc \in {"sent", "await"}
      PROVE  FinishInv'
  BY <1>5
<1>6. CASE AwaitTurn
  BY <1>5, <1>6 DEF AwaitTurn
<1>7. CASE Main /\ ~AwaitTurn
  <2>1. ASSUME NEW p, Iterate(p)
        PROVE  pc' \notin {"sent", "await"}
    BY <2>1 DEF Iterate, Drive
  <2> QED
    BY <1>7, <2>1 DEF Main, ClientConnects, CreateSession, TakeLine, NextLineQuits, GotLine,
                      TurnReturns, Close, Drive
<1>8. CASE Router \/ Operator
  BY <1>5, <1>8 DEF Router, Operator, Quit, Type, RouterTakes, RouterQuits, Route,
                    InjectReturns, UnchangedMain
<1>9. CASE SendRaises \/ Fold \/ ConnectDevice \/ ConnectReturns
  BY <1>5, <1>9 DEF SendRaises, Fold, ConnectDevice, ConnectReturns
<1>10. CASE UNCHANGED vars
  BY <1>5, <1>10 DEF vars
<1> QED
  BY <1>1, <1>2, <1>3, <1>4, <1>6, <1>7, <1>8, <1>9, <1>10 DEF Next, Daemon

\* CompletionIsOfThisTurn of TurnLoop: prep_turn clears turn_done before each send and at
\* most one completion is under way, so await_turn never returns on an earlier turn's, and
\* the finish_reason main reads at the boundary is the one of the turn that just ended.
THEOREM NoStaleCompletion == Spec => []CompletionIsOfThisTurn
<1>1. Init => TurnInv /\ FinishInv
  BY DEF Init, TurnInv, FinishInv, Engaged
<1>2. FinishInv => CompletionIsOfThisTurn
  BY DEF FinishInv, CompletionIsOfThisTurn
<1> QED
  BY InitTypes, <1>1, <1>2, TypeInvStep, TurnInvStep, FinishInvStep, PTL DEF Spec

-----------------------------------------------------------------------------
(* A line reaches one turn *)

\* A line is somewhere, and in one place only.
Somewhere(l) ==
    \/ Occurs(l, lineQueue) \/ routed = l \/ Occurs(l, steerQueue)
    \/ hand = l \/ Occurs(l, sending) \/ Occurs(l, mailbox)
    \/ reached[l] = 1 \/ l \in dropped

InOnePlace(l) ==
    /\ Occurs(l, lineQueue) =>
          /\ routed # l /\ ~Occurs(l, steerQueue) /\ hand # l /\ ~Occurs(l, sending)
          /\ ~Occurs(l, mailbox) /\ reached[l] = 0 /\ l \notin dropped
    /\ routed = l =>
          /\ ~Occurs(l, steerQueue) /\ hand # l /\ ~Occurs(l, sending)
          /\ ~Occurs(l, mailbox) /\ reached[l] = 0 /\ l \notin dropped
    /\ Occurs(l, steerQueue) =>
          /\ hand # l /\ ~Occurs(l, sending) /\ ~Occurs(l, mailbox)
          /\ reached[l] = 0 /\ l \notin dropped
    /\ hand = l =>
          /\ ~Occurs(l, sending) /\ ~Occurs(l, mailbox)
          /\ reached[l] = 0 /\ l \notin dropped
    /\ Occurs(l, sending) => ~Occurs(l, mailbox) /\ reached[l] = 0 /\ l \notin dropped
    /\ Occurs(l, mailbox) => reached[l] = 0 /\ l \notin dropped
    /\ reached[l] = 0 \/ (reached[l] = 1 /\ l \notin dropped)

\* Each line typed is in one place, each other in none.
Accounted(l) == InOnePlace(l) /\ (Somewhere(l) <=> l \in typed)

Distinct(q) == \A j, k \in DOMAIN q : q[j] = q[k] => j = k

\* Every line is accounted for, and a slot is empty when the next line is put in it.
LineInv ==
    /\ \A l \in Lines : Accounted(l)
    /\ Distinct(lineQueue) /\ Distinct(steerQueue)
    /\ pc \in {"next", "got", "sent", "await"} => sending = <<>>
    /\ pc # "got" => hand = NoLine
    /\ router \in {"off", "next"} => routed = NoLine
    /\ pc = "start" => router = "off"

\* A turn that an error cut short is reported by that error alone.
CutInv ==
    turn = "cut" =>
        /\ session = "dead"
        /\ \/ terminated = "error" /\ events = <<>>
           \/ terminated = "no" /\ turnDone = FALSE /\ events = <<"error">>

\* A --once run has its goal in hand until it is sent, and closes with 0 after it only.
OnceInv ==
    once =>
        /\ typed # {}
        /\ quit => pc = "exited"
        /\ pc \notin {"next", "got"}
        /\ pc \in {"start", "creating"} => sending # <<>>
        /\ pc \in {"start", "creating", "send"} =>
              \A l \in typed : Occurs(l, sending) \/ reached[l] >= 1
        /\ pc \in {"sent", "await"} => \A l \in typed : reached[l] >= 1
        /\ pc \in {"closing", "exited"} /\ exitCode = 0 =>
              turn \notin {"running", "cut"} /\ \A l \in typed : reached[l] >= 1

LEMMA OccursEmpty == ASSUME NEW l PROVE ~Occurs(l, <<>>)
BY DEF Occurs

LEMMA OccursOne == ASSUME NEW l, NEW x PROVE Occurs(l, <<x>>) <=> l = x
BY DEF Occurs

LEMMA OccursAppend ==
  ASSUME NEW S, NEW q \in Seq(S), NEW x \in S, NEW l
  PROVE  Occurs(l, Append(q, x)) <=> Occurs(l, q) \/ l = x
<1>1. /\ DOMAIN Append(q, x) = 1..(Len(q) + 1) /\ DOMAIN q = 1..Len(q) /\ Len(q) \in Nat
      /\ Append(q, x)[Len(q) + 1] = x
      /\ \A k \in 1..Len(q) : Append(q, x)[k] = q[k]
  OBVIOUS
<1>2. \A k \in 1..(Len(q) + 1) : k \in 1..Len(q) \/ k = Len(q) + 1
  BY <1>1
<1>3. 1..Len(q) \subseteq 1..(Len(q) + 1) /\ Len(q) + 1 \in 1..(Len(q) + 1)
  BY <1>1
<1> QED
  BY <1>1, <1>2, <1>3 DEF Occurs

LEMMA OccursJoined ==
  ASSUME NEW S, NEW p \in Seq(S), NEW q \in Seq(S), NEW l
  PROVE  Occurs(l, p \o q) <=> Occurs(l, p) \/ Occurs(l, q)
<1>1. /\ DOMAIN (p \o q) = 1..(Len(p) + Len(q))
      /\ DOMAIN p = 1..Len(p) /\ DOMAIN q = 1..Len(q)
      /\ Len(p) \in Nat /\ Len(q) \in Nat
      /\ \A k \in 1..Len(p) : (p \o q)[k] = p[k]
      /\ \A k \in 1..Len(q) : (p \o q)[Len(p) + k] = q[k]
  OBVIOUS
<1>2. ASSUME NEW k \in 1..(Len(p) + Len(q)), (p \o q)[k] = l
      PROVE  Occurs(l, p) \/ Occurs(l, q)
  <2>1. CASE k <= Len(p)
    BY <1>1, <1>2, <2>1 DEF Occurs
  <2>2. CASE k > Len(p)
    <3>1. k - Len(p) \in 1..Len(q) /\ k = Len(p) + (k - Len(p))
      BY <1>1, <2>2
    <3> QED
      BY <1>1, <1>2, <3>1 DEF Occurs
  <2> QED
    BY <1>1, <2>1, <2>2
<1>3. /\ \A k \in 1..Len(p) : k \in 1..(Len(p) + Len(q))
      /\ \A k \in 1..Len(q) : Len(p) + k \in 1..(Len(p) + Len(q))
  BY <1>1
<1> QED
  BY <1>1, <1>2, <1>3 DEF Occurs

LEMMA OccursHead ==
  ASSUME NEW S, NEW q \in Seq(S), q # <<>>
  PROVE  /\ \A l : Occurs(l, q) <=> l = Head(q) \/ Occurs(l, Tail(q))
         /\ Distinct(q) => Distinct(Tail(q)) /\ ~Occurs(Head(q), Tail(q))
<1>1. /\ DOMAIN q = 1..Len(q) /\ DOMAIN Tail(q) = 1..(Len(q) - 1)
      /\ Len(q) \in Nat /\ Len(q) >= 1
      /\ Head(q) = q[1]
      /\ \A k \in 1..(Len(q) - 1) : Tail(q)[k] = q[k + 1]
  OBVIOUS
<1>2. /\ \A k \in 1..(Len(q) - 1) : k + 1 \in 1..Len(q) /\ k + 1 # 1
      /\ 1 \in 1..Len(q)
      /\ \A j, k \in 1..(Len(q) - 1) : j + 1 = k + 1 => j = k
  BY <1>1
<1>3. \A k \in 1..Len(q) : k = 1 \/ \E j \in 1..(Len(q) - 1) : k = j + 1
  <2> TAKE k \in 1..Len(q)
  <2>1. k # 1 => k - 1 \in 1..(Len(q) - 1) /\ k = (k - 1) + 1
    BY <1>1
  <2> QED
    BY <2>1
<1>4. ASSUME NEW l
      PROVE  Occurs(l, q) <=> l = Head(q) \/ Occurs(l, Tail(q))
  <2>1. ASSUME Occurs(l, q) PROVE l = Head(q) \/ Occurs(l, Tail(q))
    <3>1. PICK k \in 1..Len(q) : q[k] = l
      BY <1>1, <2>1 DEF Occurs
    <3>2. CASE k = 1
      BY <1>1, <3>1, <3>2
    <3>3. CASE k # 1
      BY <1>1, <1>3, <3>1, <3>3 DEF Occurs
    <3> QED
      BY <3>2, <3>3
  <2>2. l = Head(q) => Occurs(l, q)
    BY <1>1, <1>2 DEF Occurs
  <2>3. Occurs(l, Tail(q)) => Occurs(l, q)
    BY <1>1, <1>2 DEF Occurs
  <2> QED
    BY <2>1, <2>2, <2>3
<1>5. Distinct(q) => Distinct(Tail(q))
  BY <1>1, <1>2 DEF Distinct
<1>6. Distinct(q) => ~Occurs(Head(q), Tail(q))
  BY <1>1, <1>2 DEF Distinct, Occurs
<1> QED
  BY <1>4, <1>5, <1>6

LEMMA DistinctAppend ==
  ASSUME NEW S, NEW q \in Seq(S), NEW x \in S, Distinct(q), ~Occurs(x, q)
  PROVE  Distinct(Append(q, x))
<1>1. /\ DOMAIN Append(q, x) = 1..(Len(q) + 1) /\ DOMAIN q = 1..Len(q) /\ Len(q) \in Nat
      /\ Append(q, x)[Len(q) + 1] = x
      /\ \A k \in 1..Len(q) : Append(q, x)[k] = q[k]
  OBVIOUS
<1>2. \A k \in 1..(Len(q) + 1) : k \in 1..Len(q) \/ k = Len(q) + 1
  BY <1>1
<1> QED
  BY <1>1, <1>2 DEF Distinct, Occurs

LEMMA Known ==
  ASSUME LineInv, NEW l \in Lines
  PROVE  InOnePlace(l) /\ (Somewhere(l) <=> l \in typed) /\ l # NoLine /\ l # Continue
BY TurnAssumption DEF LineInv, Accounted

\* The head of the loop moves the typed-ahead lines into the turn's text, or nothing.
LEMMA IterateLines ==
  ASSUME TypeInv, LineInv, NEW p \in Seq(Texts), Iterate(p),
         \A l \in Lines : Occurs(l, p) <=> Occurs(l, sending),
         pc \in {"creating", "await"},
         UNCHANGED <<hand, lineQueue, router, routed, typed, dropped, mailbox, reached>>
  PROVE  LineInv'
<1>0. steerQueue \in Seq(Texts) /\ hand = NoLine
  BY DEF TypeInv, TypeOK, Texts, LineInv
<1>1. CASE Drive(p)
  <2>1. sending' = p \o steerQueue /\ steerQueue' = <<>> /\ pc' = "send"
    BY <1>1 DEF Drive, Drained
  <2>2. ASSUME NEW l \in Lines
        PROVE  Accounted(l)'
    <3>1. Occurs(l, sending') <=> Occurs(l, sending) \/ Occurs(l, steerQueue)
      BY <1>0, <2>1, OccursJoined
    <3>2. ~Occurs(l, steerQueue')
      BY <2>1, OccursEmpty
    <3> QED
      BY <3>1, <3>2, Known DEF Accounted, InOnePlace, Somewhere
  <2>3. Distinct(steerQueue')
    BY <2>1 DEF Distinct
  <2> QED
    BY <1>0, <2>1, <2>2, <2>3 DEF LineInv
<1>2. CASE /\ quit \/ p = <<>>
           /\ pc' = IF quit \/ once THEN "closing" ELSE "next"
           /\ sending' = p
           /\ UNCHANGED <<steerQueue, turnDone, turnFinish, justConnected>>
  <2>1. ASSUME NEW l \in Lines
        PROVE  Accounted(l)'
    BY <1>2, <2>1, Known DEF Accounted, InOnePlace, Somewhere
  <2> QED
    BY <1>0, <1>2, <2>1 DEF LineInv
<1> QED
  BY <1>1, <1>2 DEF Iterate

\* Every step keeps each line in its one place, or moves it to one other.
LEMMA LineInvStep == TypeInv /\ LineInv /\ [Next]_vars => LineInv'
<1> SUFFICES ASSUME TypeInv, LineInv, [Next]_vars PROVE LineInv'
  OBVIOUS
<1> USE DEF eventVars, lineVars, daemonVars, mainVars
<1>0. /\ steerQueue \in Seq(Lines) /\ lineQueue \in Seq(Lines) /\ mailbox \in Seq(Lines)
      /\ Distinct(steerQueue) /\ Distinct(lineQueue)
      /\ reached \in [Lines -> Nat]
      /\ \A l : ~Occurs(l, <<>>)
  BY OccursEmpty DEF TypeInv, TypeOK, LineInv
<1>1. ASSUME UNCHANGED <<hand, sending, lineQueue, steerQueue, routed, mailbox, typed,
                         reached, dropped>>
      PROVE  /\ (\A l \in Lines : Accounted(l))'
             /\ Distinct(lineQueue)' /\ Distinct(steerQueue)'
  <2>1. ASSUME NEW l \in Lines PROVE Accounted(l)'
    BY <1>1, Known DEF Accounted, InOnePlace, Somewhere
  <2>2. Distinct(lineQueue)' /\ Distinct(steerQueue)'
    BY <1>0, <1>1 DEF Distinct
  <2> QED
    BY <2>1, <2>2
<1>2. CASE ClientConnects
  BY <1>1, <1>2 DEF ClientConnects, LineInv
<1>3. CASE CreateSession
  <2>1. CASE Iterate(sending)
    BY <1>3, <2>1, IterateLines DEF CreateSession, TypeInv, TypeOK
  <2>2. CASE pc' = "closing" /\ UNCHANGED <<sending, steerQueue>>
    BY <1>1, <1>3, <2>2 DEF CreateSession, LineInv
  <2> QED
    BY <1>3, <2>1, <2>2 DEF CreateSession
<1>4. CASE TakeLine
  <2>1. /\ hand = NoLine /\ sending = <<>> /\ hand' = Head(steerQueue)
        /\ steerQueue # <<>> /\ steerQueue' = Tail(steerQueue) /\ pc' = "got"
        /\ UNCHANGED <<sending, lineQueue, router, routed, mailbox, typed, reached, dropped>>
    BY <1>4 DEF TakeLine, LineInv
  <2>2. /\ \A l : Occurs(l, steerQueue) <=> l = Head(steerQueue) \/ Occurs(l, Tail(steerQueue))
        /\ Distinct(Tail(steerQueue)) /\ ~Occurs(Head(steerQueue), Tail(steerQueue))
    BY <1>0, <2>1, OccursHead
  <2>3. ASSUME NEW l \in Lines PROVE Accounted(l)'
    BY <2>1, <2>2, Known DEF Accounted, InOnePlace, Somewhere
  <2> QED
    BY <1>0, <2>1, <2>2, <2>3 DEF LineInv
<1>5. CASE NextLineQuits
  BY <1>1, <1>5 DEF NextLineQuits, LineInv
<1>6. CASE GotLine
  <2>1. /\ sending = <<>> /\ sending' = <<hand>> \o steerQueue /\ steerQueue' = <<>>
        /\ hand' = NoLine /\ pc' = "send" /\ hand \in Lines
        /\ UNCHANGED <<lineQueue, router, routed, mailbox, typed, reached, dropped>>
    BY <1>6 DEF GotLine, Drive, Drained, LineInv, TypeInv, HoldsLine
  <2>2. ASSUME NEW l \in Lines PROVE Accounted(l)'
    <3>1. <<hand>> \in Seq(Lines)
      BY <2>1, Single
    <3>2. Occurs(l, sending') <=> l = hand \/ Occurs(l, steerQueue)
      BY <1>0, <2>1, <3>1, OccursJoined, OccursOne
    <3> QED
      BY <1>0, <2>1, <3>2, Known DEF Accounted, InOnePlace, Somewhere
  <2>3. Distinct(steerQueue')
    BY <2>1 DEF Distinct
  <2> QED
    BY <1>0, <2>1, <2>2, <2>3 DEF LineInv
<1>7. CASE AwaitTurn
  BY <1>1, <1>7 DEF AwaitTurn, LineInv
<1>8. CASE TurnReturns
  <2>1. CASE pc' = "closing" /\ UNCHANGED <<sending, steerQueue>>
    BY <1>1, <1>8, <2>1 DEF TurnReturns, LineInv
  <2>2. CASE Iterate(IF justConnected THEN <<Continue>> ELSE <<>>)
    <3> DEFINE p == IF justConnected THEN <<Continue>> ELSE <<>>
    <3>1. sending = <<>> /\ p \in Seq(Texts)
      BY <1>8, Continuation DEF TurnReturns, LineInv
    <3>2. \A l \in Lines : Occurs(l, p) <=> Occurs(l, sending)
      BY <1>0, <3>1, OccursOne, TurnAssumption
    <3> HIDE DEF p
    <3>3. Iterate(p)
      BY <2>2 DEF p
    <3> QED
      BY <1>8, <3>1, <3>2, <3>3, IterateLines DEF TurnReturns
  <2> QED
    BY <1>8, <2>1, <2>2 DEF TurnReturns
<1>9. CASE Close
  BY <1>1, <1>9 DEF Close, LineInv
<1>10. ASSUME NEW x \in Lines, Type(x)
       PROVE  LineInv'
  <2>1. /\ x \notin typed /\ typed' = typed \cup {x} /\ lineQueue' = Append(lineQueue, x)
        /\ UNCHANGED <<pc, hand, sending, steerQueue, router, routed, mailbox, reached,
                       dropped>>
    BY <1>10 DEF Type, UnchangedMain
  <2>2. ~Occurs(x, lineQueue)
    BY <2>1, Known DEF Accounted, InOnePlace, Somewhere
  <2>3. Distinct(lineQueue')
    BY <1>0, <2>1, <2>2, DistinctAppend
  <2>4. ASSUME NEW l \in Lines PROVE Accounted(l)'
    <3>1. Occurs(l, lineQueue') <=> Occurs(l, lineQueue) \/ l = x
      BY <1>0, <2>1, OccursAppend
    <3> QED
      BY <2>1, <2>2, <3>1, Known DEF Accounted, InOnePlace, Somewhere
  <2> QED
    BY <1>0, <2>1, <2>3, <2>4 DEF LineInv
<1>11. CASE Quit \/ RouterQuits
  BY <1>1, <1>11 DEF Quit, RouterQuits, UnchangedMain, LineInv
<1>12. CASE RouterTakes
  <2>1. /\ routed = NoLine /\ routed' = Head(lineQueue) /\ router' = "got" /\ pc # "start"
        /\ lineQueue # <<>> /\ lineQueue' = Tail(lineQueue)
        /\ UNCHANGED <<pc, hand, sending, steerQueue, mailbox, typed, reached, dropped>>
    BY <1>12 DEF RouterTakes, UnchangedMain, LineInv
  <2>2. /\ \A l : Occurs(l, lineQueue) <=> l = Head(lineQueue) \/ Occurs(l, Tail(lineQueue))
        /\ Distinct(Tail(lineQueue)) /\ ~Occurs(Head(lineQueue), Tail(lineQueue))
    BY <1>0, <2>1, OccursHead
  <2>3. ASSUME NEW l \in Lines PROVE Accounted(l)'
    BY <2>1, <2>2, Known DEF Accounted, InOnePlace, Somewhere
  <2> QED
    BY <1>0, <2>1, <2>2, <2>3 DEF LineInv
<1>13. CASE Route
  <2>1. UNCHANGED <<pc, hand, sending, lineQueue, mailbox, typed, reached, dropped>>
        /\ routed \in Lines /\ pc # "start"
    BY <1>13 DEF Route, UnchangedMain, TypeInv, HoldsLine, LineInv
  <2>2. CASE turnActive
    BY <1>1, <1>13, <2>1, <2>2 DEF Route, LineInv
  <2>3. CASE ~turnActive
    <3>1. steerQueue' = Append(steerQueue, routed) /\ routed' = NoLine
      BY <1>13, <2>3 DEF Route, RouteIdle
    <3>2. ~Occurs(routed, steerQueue)
      BY <2>1, Known DEF Accounted, InOnePlace, Somewhere
    <3>3. Distinct(steerQueue')
      BY <1>0, <2>1, <3>1, <3>2, DistinctAppend
    <3>4. ASSUME NEW l \in Lines PROVE Accounted(l)'
      <4>1. Occurs(l, steerQueue') <=> Occurs(l, steerQueue) \/ l = routed
        BY <1>0, <2>1, <3>1, OccursAppend
      <4> QED
        BY <2>1, <3>1, <3>2, <4>1, Known DEF Accounted, InOnePlace, Somewhere
    <3> QED
      BY <1>0, <2>1, <3>1, <3>3, <3>4 DEF LineInv
  <2> QED
    BY <2>2, <2>3
<1>14. CASE InjectReturns
  <2>1. /\ UNCHANGED <<pc, hand, sending, lineQueue, steerQueue, typed, reached>>
        /\ routed \in Lines /\ routed' = NoLine /\ pc # "start"
        /\ \/ mailbox' = Append(mailbox, routed) /\ UNCHANGED dropped
           \/ dropped' = dropped \cup {routed} /\ UNCHANGED mailbox
    BY <1>14 DEF InjectReturns, UnchangedMain, TypeInv, HoldsLine, LineInv
  <2>2. ~Occurs(routed, mailbox) /\ routed \notin dropped
    BY <2>1, Known DEF Accounted, InOnePlace, Somewhere
  <2>3. ASSUME NEW l \in Lines PROVE Accounted(l)'
    <3>1. Occurs(l, Append(mailbox, routed)) <=> Occurs(l, mailbox) \/ l = routed
      BY <1>0, <2>1, OccursAppend
    <3>2. CASE mailbox' = Append(mailbox, routed) /\ UNCHANGED dropped
      BY <2>1, <2>2, <3>1, <3>2, Known DEF Accounted, InOnePlace, Somewhere
    <3>3. CASE dropped' = dropped \cup {routed} /\ UNCHANGED mailbox
      BY <2>1, <2>2, <3>3, Known DEF Accounted, InOnePlace, Somewhere
    <3> QED
      BY <2>1, <3>2, <3>3
  <2> QED
    BY <1>0, <2>1, <2>3 DEF LineInv
<1>15. CASE Deliver
  BY <1>1, <1>15 DEF Deliver, LineInv
<1>16. CASE Accept
  <2>1. /\ UNCHANGED <<hand, lineQueue, steerQueue, router, routed, typed, dropped>>
        /\ mailbox' = <<>> /\ sending' = <<>> /\ pc' = "sent" /\ pc = "send"
        /\ \A l \in Lines : reached'[l] = reached[l] + (IF Occurs(l, sending) THEN 1 ELSE 0)
                                                     + (IF Occurs(l, mailbox) THEN 1 ELSE 0)
    BY <1>16 DEF Accept
  <2>2. ASSUME NEW l \in Lines PROVE Accounted(l)'
    <3>1. reached'[l] = IF Occurs(l, sending) \/ Occurs(l, mailbox) THEN 1 ELSE reached[l]
      BY <2>1, Known DEF InOnePlace
    <3> QED
      BY <1>0, <2>1, <3>1, Known DEF Accounted, InOnePlace, Somewhere
  <2> QED
    BY <1>0, <2>1, <2>2 DEF LineInv
<1>17. CASE SendRaises
  <2>1. /\ UNCHANGED <<hand, lineQueue, steerQueue, router, routed, typed, mailbox, reached>>
        /\ sending' = <<>> /\ pc' = "closing" /\ pc = "send"
        /\ \A l \in Lines : l \in dropped' <=> l \in dropped \/ Occurs(l, sending)
    BY <1>17 DEF SendRaises
  <2>2. ASSUME NEW l \in Lines PROVE Accounted(l)'
    BY <1>0, <2>1, Known DEF Accounted, InOnePlace, Somewhere
  <2> QED
    BY <1>0, <2>1, <2>2 DEF LineInv
<1>18. CASE Fold
  <2>1. /\ UNCHANGED <<pc, hand, sending, lineQueue, steerQueue, router, routed, typed,
                       dropped>>
        /\ mailbox' = <<>>
        /\ \A l \in Lines : reached'[l] = reached[l] + (IF Occurs(l, mailbox) THEN 1 ELSE 0)
    BY <1>18 DEF Fold
  <2>2. ASSUME NEW l \in Lines PROVE Accounted(l)'
    <3>1. reached'[l] = IF Occurs(l, mailbox) THEN 1 ELSE reached[l]
      BY <2>1, Known DEF InOnePlace
    <3> QED
      BY <1>0, <2>1, <3>1, Known DEF Accounted, InOnePlace, Somewhere
  <2> QED
    BY <1>0, <2>1, <2>2 DEF LineInv
<1>19. CASE \/ ConnectDevice \/ ConnectReturns
            \/ \E finish \in Finishes : EndTurn(finish)
            \/ \E reason \in Reasons : Terminate(reason)
  BY <1>1, <1>19 DEF EndTurn, ConnectDevice, ConnectReturns, Terminate, LineInv
<1>20. CASE UNCHANGED vars
  BY <1>1, <1>20 DEF vars, LineInv
<1> QED
  BY <1>2, <1>3, <1>4, <1>5, <1>6, <1>7, <1>8, <1>9, <1>10, <1>11, <1>12, <1>13, <1>14,
     <1>15, <1>16, <1>17, <1>18, <1>19, <1>20
  DEF Next, Main, Router, Operator, Daemon

\* The goal of the command line is in the first turn's text and nowhere else.
LEMMA InitLines == Init => LineInv
<1> SUFFICES ASSUME Init PROVE LineInv
  OBVIOUS
<1>1. /\ lineQueue = <<>> /\ steerQueue = <<>> /\ mailbox = <<>> /\ routed = NoLine
      /\ hand = NoLine /\ dropped = {} /\ reached = [l \in Lines |-> 0] /\ pc = "start"
      /\ typed = {l \in Lines : sending = <<l>>}
      /\ \A l : ~Occurs(l, <<>>)
  BY OccursEmpty DEF Init
<1>2. ASSUME NEW l \in Lines
      PROVE  Occurs(l, sending) <=> l \in typed
  <2>1. CASE sending = <<>>
    BY <1>1, <2>1
  <2>2. ASSUME NEW x \in Lines, sending = <<x>>
        PROVE  Occurs(l, sending) <=> l \in typed
    <3>1. sending = <<l>> <=> l = x
      BY <2>2
    <3> QED
      BY <1>1, <2>2, <3>1, OccursOne
  <2> QED
    BY <2>1, <2>2 DEF Init
<1>3. ASSUME NEW l \in Lines
      PROVE  Accounted(l)
  BY <1>1, <1>2, TurnAssumption DEF Accounted, InOnePlace, Somewhere
<1>4. Distinct(lineQueue) /\ Distinct(steerQueue)
  BY <1>1 DEF Distinct
<1> QED
  BY <1>1, <1>3, <1>4 DEF LineInv, Init

\* Places, one place at a time.
LEMMA PlacesOf ==
  ASSUME NEW l
  PROVE  /\ "lineQueue" \in Places(l) <=> Occurs(l, lineQueue)
         /\ "router" \in Places(l) <=> routed = l
         /\ "steerQueue" \in Places(l) <=> Occurs(l, steerQueue)
         /\ "hand" \in Places(l) <=> hand = l
         /\ "sending" \in Places(l) <=> Occurs(l, sending)
         /\ "mailbox" \in Places(l) <=> Occurs(l, mailbox)
         /\ Places(l) \subseteq {"lineQueue", "router", "steerQueue", "hand", "sending",
                                 "mailbox"}
BY DEF Places

\* LineReachesOneTurn of TurnLoop: a line the operator types is in one queue, slot or text,
\* in the mailbox of the daemon, in the one turn it reached, or reported lost; the step that
\* hands it on takes it from where it was.
THEOREM OneTurnEach == Spec => []LineReachesOneTurn
<1>1. TypeInv /\ LineInv => LineReachesOneTurn
  <2> SUFFICES ASSUME TypeInv, LineInv, NEW l \in typed
               PROVE  Cardinality(Places(l)) + reached[l]
                        + (IF l \in dropped THEN 1 ELSE 0) = 1
    BY DEF LineReachesOneTurn
  <2>1. l \in Lines /\ InOnePlace(l) /\ Somewhere(l)
    BY Known DEF TypeInv, TypeOK
  <2>2. CASE reached[l] = 1 \/ l \in dropped
    <3>1. Places(l) = {}
      BY <2>1, <2>2, PlacesOf DEF InOnePlace
    <3>2. Cardinality(Places(l)) = 0
      BY <3>1, FS_EmptySet
    <3> QED
      BY <2>1, <2>2, <3>2 DEF InOnePlace
  <2>3. CASE ~(reached[l] = 1 \/ l \in dropped)
    <3>1. \E p : Places(l) = {p}
      <4>1. PICK p \in {"lineQueue", "router", "steerQueue", "hand", "sending", "mailbox"} :
                p \in Places(l)
        BY <2>1, <2>3, PlacesOf DEF Somewhere
      <4>2. \A q \in Places(l) : q = p
        BY <2>1, <4>1, PlacesOf DEF InOnePlace
      <4> QED
        BY <4>1, <4>2
    <3>2. Cardinality(Places(l)) = 1
      BY <3>1, FS_Singleton
    <3>3. reached[l] = 0
      BY <2>1, <2>3 DEF InOnePlace
    <3> QED
      BY <2>3, <3>2, <3>3
  <2> QED
    BY <2>2, <2>3
<1> QED
  BY InitTypes, InitLines, <1>1, TypeInvStep, LineInvStep, PTL DEF Spec

-----------------------------------------------------------------------------
(* What the exit code of a --once run says *)

LEMMA CutInvStep == TypeInv /\ TurnInv /\ CutInv /\ [Next]_vars => CutInv'
<1> SUFFICES ASSUME TypeInv, TurnInv, CutInv, [Next]_vars, turn' = "cut" PROVE CutInv'
  BY DEF CutInv
<1> USE DEF CutInv, eventVars, lineVars, daemonVars, mainVars
<1>1. ASSUME NEW reason \in Reasons, Terminate(reason)
      PROVE  CutInv'
  <2>1. turn = "running" /\ reason = "error"
    BY <1>1 DEF Terminate
  <2>2. session = "live" /\ events = <<>> /\ turnDone = FALSE /\ terminated = "no"
    BY <2>1 DEF TurnInv
  <2> QED
    BY <1>1, <2>1, <2>2 DEF Terminate
<1>2. CASE Deliver
  <2>1. turn = "cut" /\ session' = session /\ events # <<>>
    BY <1>2 DEF Deliver
  <2>2. events = <<"error">> /\ session = "dead"
    BY <2>1
  <2> QED
    BY <1>2, <2>2 DEF Deliver, OnTerminated, Finishes
<1>3. CASE Accept \/ \E finish \in Finishes : EndTurn(finish)
  BY <1>3 DEF Accept, EndTurn, Finishes
<1>4. ASSUME UNCHANGED <<turn, session, terminated, events>>,
             turnDone' = turnDone \/ turnDone' = FALSE
      PROVE  CutInv'
  BY <1>4
<1>5. ASSUME NEW p, Iterate(p)
      PROVE  turnDone' = turnDone \/ turnDone' = FALSE
  BY <1>5 DEF Iterate, Drive, PrepTurn
<1>6. CASE CreateSession
  <2>1. session' = session
    <3>1. pc = "creating" /\ turn = "cut"
      BY <1>6 DEF CreateSession
    <3> QED
      BY <3>1 DEF TurnInv
  <2> QED
    BY <1>4, <1>5, <1>6, <2>1 DEF CreateSession
<1>7. CASE TurnReturns
  BY <1>4, <1>5, <1>7 DEF TurnReturns
<1>8. CASE Main /\ ~CreateSession /\ ~TurnReturns
  BY <1>4, <1>8 DEF Main, ClientConnects, TakeLine, NextLineQuits, GotLine, AwaitTurn, Close,
                    Drive, PrepTurn
<1>9. CASE Router \/ Operator
  BY <1>4, <1>9 DEF Router, Operator, Quit, Type, RouterTakes, RouterQuits, Route,
                    InjectReturns, UnchangedMain
<1>10. CASE SendRaises \/ Fold \/ ConnectDevice \/ ConnectReturns
  BY <1>4, <1>10 DEF SendRaises, Fold, ConnectDevice, ConnectReturns
<1>11. CASE UNCHANGED vars
  BY <1>4, <1>11 DEF vars
<1> QED
  BY <1>1, <1>2, <1>3, <1>6, <1>7, <1>8, <1>9, <1>10, <1>11 DEF Next, Daemon

LEMMA OnceInvStep ==
  TypeInv /\ TurnInv /\ CutInv /\ LineInv /\ OnceInv /\ [Next]_vars => OnceInv'
<1> SUFFICES ASSUME TypeInv, TurnInv, CutInv, LineInv, OnceInv, [Next]_vars, once'
             PROVE  OnceInv'
  BY DEF OnceInv
<1> USE DEF OnceInv, eventVars, lineVars, daemonVars, mainVars
<1>0. /\ once' = once /\ once
      /\ reached \in [Lines -> Nat] /\ typed \subseteq Lines /\ exitCode \in 0..1
      /\ sending \in Seq(Texts) /\ steerQueue \in Seq(Texts)
      /\ \A l : ~Occurs(l, <<>>)
  <2>1. once' = once
    BY DEF Next, Main, Router, Operator, Daemon, ClientConnects, CreateSession, TakeLine,
           NextLineQuits, GotLine, AwaitTurn, TurnReturns, Close, RouterTakes, RouterQuits,
           Route, InjectReturns, Quit, Type, Deliver, Accept, SendRaises, Fold, EndTurn,
           ConnectDevice, ConnectReturns, Terminate, UnchangedMain, vars
  <2>2. once
    BY <2>1
  <2>3. /\ reached \in [Lines -> Nat] /\ typed \subseteq Lines /\ exitCode \in 0..1
        /\ sending \in Seq(Texts)
    BY DEF TypeInv, TypeOK
  <2>4. steerQueue \in Seq(Texts)
    BY DEF TypeInv, TypeOK, Texts
  <2> QED
    BY <2>1, <2>2, <2>3, <2>4, OccursEmpty
<1>1. CASE ClientConnects
  BY <1>0, <1>1 DEF ClientConnects
<1>2. CASE CreateSession
  <2>1. CASE Iterate(sending) /\ UNCHANGED exitCode
    <3>1. /\ sending # <<>> /\ ~quit /\ UNCHANGED <<typed, reached, quit>>
          /\ \A l \in typed : Occurs(l, sending) \/ reached[l] >= 1
      BY <1>0, <1>2 DEF CreateSession
    <3>2. sending' = sending \o steerQueue /\ pc' = "send"
      BY <2>1, <3>1 DEF Iterate, Drive
    <3>3. \A l \in typed : Occurs(l, sending) => Occurs(l, sending')
      BY <1>0, <3>2, OccursJoined
    <3> QED
      BY <1>0, <3>1, <3>2, <3>3
  <2>2. CASE pc' = "closing" /\ exitCode' = 1
    BY <1>0, <1>2, <2>2 DEF CreateSession
  <2> QED
    BY <1>2, <2>1, <2>2 DEF CreateSession
<1>3. CASE TakeLine \/ NextLineQuits \/ GotLine
  BY <1>0, <1>3 DEF TakeLine, NextLineQuits, GotLine
<1>4. CASE AwaitTurn
  BY <1>0, <1>4 DEF AwaitTurn
<1>5. CASE TurnReturns
  <2>1. /\ pc = "await" /\ ~quit /\ turnDone
        /\ UNCHANGED <<typed, reached, quit, turn>>
        /\ \A l \in typed : reached[l] >= 1
    BY <1>0, <1>5 DEF TurnReturns
  <2>2. CASE /\ pc' = "closing"
             /\ exitCode' = IF Status = "terminated" THEN ExitOf ELSE exitCode
    <3>1. ASSUME exitCode' = 0 PROVE turn \notin {"running", "cut"}
      <4>1. terminated # "error"
        BY <2>1, <2>2, <3>1 DEF Status, ExitOf
      <4>2. turn # "cut"
        BY <2>1, <4>1 DEF CutInv
      <4>3. turn # "running"
        BY <2>1 DEF TurnInv
      <4> QED
        BY <4>2, <4>3
    <3> QED
      BY <1>0, <2>1, <2>2, <3>1
  <2>3. CASE /\ ~(once /\ ~justConnected)
             /\ Iterate(IF justConnected THEN <<Continue>> ELSE <<>>)
    <3>1. pc' = "send"
      BY <1>0, <2>1, <2>3 DEF Iterate, Drive
    <3> QED
      BY <1>0, <2>1, <3>1
  <2> QED
    BY <1>5, <2>2, <2>3 DEF TurnReturns
<1>6. CASE Close
  BY <1>0, <1>6 DEF Close
<1>7. CASE Router \/ Operator \/ Deliver
  BY <1>0, <1>7 DEF Router, Operator, Quit, Type, RouterTakes, RouterQuits, Route,
                    InjectReturns, Deliver, UnchangedMain
<1>8. CASE Accept
  <2>1. \A l \in typed : reached'[l] >= 1
    <3> TAKE l \in typed
    <3>1. l \in Lines /\ reached[l] \in Nat /\ (Occurs(l, sending) \/ reached[l] >= 1)
      BY <1>0, <1>8 DEF Accept
    <3>2. reached'[l] = reached[l] + (IF Occurs(l, sending) THEN 1 ELSE 0)
                                   + (IF Occurs(l, mailbox) THEN 1 ELSE 0)
      BY <1>8, <3>1 DEF Accept
    <3> QED
      BY <3>1, <3>2
  <2> QED
    BY <1>0, <1>8, <2>1 DEF Accept
<1>9. CASE SendRaises
  BY <1>0, <1>9 DEF SendRaises
<1>10. CASE Fold
  <2>1. \A l \in typed : reached'[l] >= reached[l]
    BY <1>0, <1>10 DEF Fold
  <2> QED
    BY <1>0, <1>10, <2>1 DEF Fold
<1>11. CASE \/ ConnectDevice \/ ConnectReturns
            \/ \E finish \in Finishes : EndTurn(finish)
            \/ \E reason \in Reasons : Terminate(reason)
  BY <1>0, <1>11 DEF EndTurn, ConnectDevice, ConnectReturns, Terminate, Finishes
<1>12. CASE UNCHANGED vars
  BY <1>0, <1>12 DEF vars
<1> QED
  BY <1>1, <1>2, <1>3, <1>4, <1>5, <1>6, <1>7, <1>8, <1>9, <1>10, <1>11, <1>12
  DEF Next, Main, Daemon

\* ZeroMeansGoalRun of TurnLoop: the exit code is 0 only after the turn that had the goal is
\* over, and a terminal error that cut it short is the one event main can have woken on, so
\* it is reported.  A turn the model itself ended early is over like any other.
THEOREM ZeroIsEarned == Spec => []ZeroMeansGoalRun
<1>1. Init => OnceInv
  <2> SUFFICES ASSUME Init, once PROVE OnceInv
    BY DEF OnceInv
  <2>1. PICK g \in Lines : sending = <<g>>
    BY DEF Init
  <2>2. \A l \in typed : Occurs(l, sending)
    BY OccursOne DEF Init
  <2> QED
    BY <2>1, <2>2 DEF Init, OnceInv
<1>2. Init => TurnInv /\ CutInv
  BY DEF Init, TurnInv, CutInv, Engaged
<1>3. TypeInv /\ LineInv /\ OnceInv => ZeroMeansGoalRun
  <2> SUFFICES ASSUME TypeInv, LineInv, OnceInv, once, pc = "exited", exitCode = 0
               PROVE  turn \notin {"running", "cut"} /\ \E l \in typed : reached[l] = 1
    BY DEF ZeroMeansGoalRun
  <2>1. turn \notin {"running", "cut"} /\ \E l \in typed : reached[l] >= 1
    BY DEF OnceInv
  <2> QED
    BY <2>1, Known DEF InOnePlace, TypeInv, TypeOK
<1> QED
  BY InitTypes, InitLines, <1>1, <1>2, <1>3, TypeInvStep, TurnInvStep, CutInvStep,
     LineInvStep, OnceInvStep, PTL DEF Spec
=============================================================================

---------------------------- MODULE SettleProofs ----------------------------
(***************************************************************************)
(* A cycle is in one place at a time: armed, fired and not yet reported,   *)
(* told to the daemon, or dropped.  That is what makes it told once, and   *)
(* the detector an implementation of SettleCycle.                          *)
(***************************************************************************)
EXTENDS Settle, TLAPS

NotTold(k) == \A i \in DOMAIN sent : sent[i].of # k

ArmedIsNew ==
    /\ armed <=> onComplete # None
    /\ armRequestId # None => armRequestId = onComplete
    /\ armed => /\ onComplete <= arms
                /\ NotTold(onComplete)
                /\ \A c \in firing : c.of # onComplete

FiringIsNew ==
    /\ \A c \in firing : c.of <= arms /\ NotTold(c.of)
    /\ \A c, d \in firing : c.of = d.of => c = d

SentIsOld == \A i \in DOMAIN sent : sent[i].of <= arms

SentOnce == \A i, j \in DOMAIN sent : sent[i].of = sent[j].of => i = j

\* The detector counts events of the armed cycle only.
CountIsOwn == armed => qualifyingCount <= events[onComplete]

IInv == TypeOK /\ ArmedIsNew /\ FiringIsNew /\ SentIsOld /\ SentOnce

USE SettleAssumption DEF SettleAssumption, Cycles, None, Modes, Reasons

\* The initial state satisfies the invariant.
LEMMA Start == Init => IInv /\ CountIsOwn /\ QuietHeardEnough
<1> SUFFICES ASSUME Init PROVE IInv /\ CountIsOwn /\ QuietHeardEnough
  OBVIOUS
<1>1. sent = <<>> /\ DOMAIN sent = {} /\ sent \in Seq(Frame)
  BY DEF Init
<1>2. TypeOK
  <2>1. /\ firing \in SUBSET Completion /\ dropped \in SUBSET Cycles
        /\ delaying \in SUBSET Reasons
    BY DEF Init
  <2>2. /\ kind \in [Cycles -> {"none", "act", "wait"}] /\ events \in [Cycles -> Nat]
        /\ expired \in [Reasons -> Nat]
    BY DEF Init
  <2>3. qualifyingCount \in 0..MaxEvents /\ arms \in 0..MaxArms
    BY DEF Init
  <2> QED BY <1>1, <2>1, <2>2, <2>3 DEF Init, TypeOK
<1> QED BY <1>1, <1>2 DEF Init, IInv, ArmedIsNew, FiringIsNew, SentIsOld, SentOnce, CountIsOwn,
             QuietHeardEnough

\* Disarming keeps the types of what it writes.
LEMMA Disarmed ==
    ASSUME Disarm
    PROVE  /\ armed' \in BOOLEAN /\ onComplete' \in Cycles \cup {None}
           /\ armRequestId' \in Cycles \cup {None} /\ qualifyingCount' \in 0..MaxEvents
           /\ delaying' \in SUBSET Reasons
<1>1. 0 \in 0..MaxEvents /\ {} \in SUBSET Reasons
  OBVIOUS
<1> QED BY <1>1 DEF Disarm

\* What a report appends.
LEMMA Appended ==
    ASSUME TypeOK, NEW k \in Cycles, NEW w \in {"settled", "res", "canceled"}, Tell(k, w)
    PROVE  /\ sent' \in Seq(Frame)
           /\ DOMAIN sent' = DOMAIN sent \cup {Len(sent) + 1}
           /\ Len(sent) + 1 \notin DOMAIN sent
           /\ \A i \in DOMAIN sent : sent'[i] = sent[i]
           /\ sent'[Len(sent) + 1].of = k
<1> DEFINE e == [of |-> k, what |-> w]
<1>1. e \in Frame /\ sent \in Seq(Frame) /\ sent' = Append(sent, e)
  BY DEF TypeOK, Tell, Frame
<1>2. /\ sent' \in Seq(Frame)
      /\ Len(sent') = Len(sent) + 1
      /\ \A i \in 1..Len(sent) : sent'[i] = sent[i]
      /\ sent'[Len(sent) + 1] = e
  BY <1>1
<1> QED BY <1>1, <1>2

\* A report of a cycle that is neither armed nor fired nor told leaves each told once.
LEMMA Reported ==
    ASSUME IInv, NEW k \in Cycles, NEW w \in {"settled", "res", "canceled"}, Tell(k, w),
           k <= arms, NotTold(k), arms' = arms
    PROVE  SentIsOld' /\ SentOnce' /\ \A j \in Cycles : j # k /\ NotTold(j) => NotTold(j)'
<1> USE Appended DEF IInv
<1>1. SentIsOld'
  BY DEF SentIsOld
<1>2. SentOnce'
  BY DEF SentOnce, NotTold
<1>3. \A j \in Cycles : j # k /\ NotTold(j) => NotTold(j)'
  BY DEF NotTold
<1> QED BY <1>1, <1>2, <1>3

\* A new cycle: nothing of it is fired or told yet.
LEMMA Arming ==
    ASSUME IInv, NEW k \in Cycles, k = arms + 1, arms' = k, NEW q \in {None, k}, Arm(k, q),
           UNCHANGED <<firing, sent>>
    PROVE  ArmedIsNew' /\ FiringIsNew' /\ SentIsOld' /\ SentOnce'
<1> USE DEF IInv, TypeOK, Arm
<1>1. NotTold(k) /\ \A c \in firing : c.of # k
  BY DEF SentIsOld, FiringIsNew, NotTold, Frame, Completion
<1>2. ArmedIsNew'
  BY <1>1 DEF ArmedIsNew, NotTold
<1>3. FiringIsNew'
  BY DEF FiringIsNew, NotTold, Completion
<1>4. SentOnce'
  BY DEF SentOnce
<1>5. SentIsOld'
  <2> SUFFICES ASSUME NEW i \in DOMAIN sent PROVE sent[i].of <= arms + 1
    BY DEF SentIsOld
  <2>1. sent[i] \in Frame /\ sent[i].of <= arms
    BY DEF SentIsOld
  <2> QED BY <2>1 DEF Frame
<1> QED BY <1>2, <1>3, <1>4, <1>5

\* Every step keeps the invariant.
LEMMA Step == IInv /\ [Next]_vars => IInv'
<1> SUFFICES ASSUME IInv, [Next]_vars PROVE IInv'
  OBVIOUS
<1> USE DEF IInv
<1>1. CASE OnEvent
  <2>1. onComplete \in Cycles
    BY <1>1 DEF OnEvent, ArmedIsNew, TypeOK
  <2>2. TypeOK'
    BY <1>1, <2>1 DEF OnEvent, TypeOK, routerVars
  <2> QED BY <1>1, <2>2 DEF OnEvent, ArmedIsNew, FiringIsNew, SentIsOld, SentOnce, NotTold,
               routerVars
<1>2. ASSUME NEW r \in Reasons, Expire(r) PROVE IInv'
  <2>1. TypeOK'
    BY <1>2 DEF Expire, TypeOK, cycleVars, routerVars
  <2> QED BY <1>2, <2>1 DEF Expire, ArmedIsNew, FiringIsNew, SentIsOld, SentOnce, NotTold,
               cycleVars, routerVars
<1>3. ASSUME NEW r \in Reasons, FireIfReady(r) PROVE IInv'
  <2>1. expired' \in [Reasons -> Nat]
    BY <1>3 DEF FireIfReady, TypeOK
  <2>2. CASE Fires(r)
    <3> DEFINE c == [of |-> onComplete, reason |-> r, mode |-> mode]
    <3>1. armed /\ onComplete \in Cycles
      BY <2>2 DEF Fires, ArmedIsNew, TypeOK
    <3>2. firing' = firing \cup {c} /\ Disarm
      BY <1>3, <2>2 DEF FireIfReady
    <3>3. TypeOK'
      <4>1. c \in Completion
        BY <3>1 DEF TypeOK, Completion
      <4>2. firing' \in SUBSET Completion
        BY <3>2, <4>1 DEF TypeOK
      <4> QED BY <1>3, <2>1, <3>2, <4>2, Disarmed DEF FireIfReady, TypeOK, routerVars
    <3>4. ArmedIsNew' /\ SentIsOld' /\ SentOnce'
      BY <1>3, <3>2 DEF FireIfReady, Disarm, ArmedIsNew, SentIsOld, SentOnce, routerVars
    <3>5. FiringIsNew'
      BY <1>3, <3>1, <3>2 DEF FireIfReady, FiringIsNew, ArmedIsNew, NotTold, routerVars
    <3> QED BY <3>3, <3>4, <3>5
  <2>3. CASE ~Fires(r)
    <3>1. TypeOK'
      BY <1>3, <2>1, <2>3 DEF FireIfReady, TypeOK, cycleVars, routerVars
    <3> QED BY <1>3, <2>3, <3>1 DEF FireIfReady, ArmedIsNew, FiringIsNew, SentIsOld, SentOnce,
                 NotTold, cycleVars, routerVars
  <2> QED BY <2>2, <2>3
<1>4. ASSUME NEW c \in firing, Invoke(c) PROVE IInv'
  <2> DEFINE w == IF kind[c.of] = "act" THEN "settled" ELSE "res"
  <2>1. c.of \in Cycles /\ c.of <= arms /\ NotTold(c.of) /\ Tell(c.of, w)
        /\ w \in {"settled", "res", "canceled"} /\ arms' = arms
    BY <1>4 DEF Invoke, TypeOK, Completion, FiringIsNew, routerVars
  <2>2. SentIsOld' /\ SentOnce' /\ \A j \in Cycles : j # c.of /\ NotTold(j) => NotTold(j)'
    <3> HIDE DEF w, IInv
    <3> QED BY <2>1, Reported
  <2>3. TypeOK'
    <3>1. sent' \in Seq(Frame)
      <4> HIDE DEF w
      <4> QED BY <2>1, Appended
    <3> QED BY <1>4, <3>1 DEF Invoke, TypeOK, cycleVars, routerVars
  <2>4. ArmedIsNew'
    BY <1>4, <2>2 DEF Invoke, ArmedIsNew, TypeOK, cycleVars, routerVars
  <2>5. FiringIsNew'
    <3>1. \A d \in firing' : d \in firing /\ d.of \in Cycles /\ d.of # c.of
      BY <1>4 DEF Invoke, FiringIsNew, TypeOK, Completion
    <3> QED BY <1>4, <2>1, <2>2, <3>1 DEF FiringIsNew
  <2> QED BY <2>2, <2>3, <2>4, <2>5
<1>5. ASSUME NEW k \in Cycles, Act(k) PROVE IInv'
  <2>1. TypeOK'
    <3>1. Arm(k, None) /\ arms' = k /\ kind' = [kind EXCEPT ![k] = "act"]
      BY <1>5 DEF Act, Begin
    <3>2. dropped' \in SUBSET Cycles
      BY <3>1 DEF Arm, TypeOK, ArmedIsNew
    <3>3. delaying' \in SUBSET Reasons /\ qualifyingCount' \in 0..MaxEvents
      BY <3>1 DEF Arm, Fresh, TypeOK
    <3>4. kind' \in [Cycles -> {"none", "act", "wait"}]
      BY <3>1 DEF TypeOK
    <3> QED BY <1>5, <3>1, <3>2, <3>3, <3>4 DEF Act, Arm, TypeOK
  <2>2. ArmedIsNew' /\ FiringIsNew' /\ SentIsOld' /\ SentOnce'
    <3>1. k = arms + 1 /\ arms' = k /\ Arm(k, None) /\ UNCHANGED <<firing, sent>>
      BY <1>5 DEF Act, Begin
    <3> QED BY <3>1, Arming
  <2> QED BY <2>1, <2>2
<1>6. ASSUME NEW k \in Cycles, WaitForSettle(k) PROVE IInv'
  <2>1. TypeOK'
    <3>1. Arm(k, k) /\ arms' = k /\ kind' = [kind EXCEPT ![k] = "wait"]
      BY <1>6 DEF WaitForSettle, Begin
    <3>2. dropped' \in SUBSET Cycles
      BY <3>1 DEF Arm, TypeOK, ArmedIsNew
    <3>3. delaying' \in SUBSET Reasons /\ qualifyingCount' \in 0..MaxEvents
      BY <3>1 DEF Arm, Fresh, TypeOK
    <3>4. kind' \in [Cycles -> {"none", "act", "wait"}]
      BY <3>1 DEF TypeOK
    <3> QED BY <1>6, <3>1, <3>2, <3>3, <3>4 DEF WaitForSettle, Arm, TypeOK
  <2>2. ArmedIsNew' /\ FiringIsNew' /\ SentIsOld' /\ SentOnce'
    <3>1. k = arms + 1 /\ arms' = k /\ Arm(k, k) /\ UNCHANGED <<firing, sent>>
      BY <1>6 DEF WaitForSettle, Begin
    <3> QED BY <3>1, Arming
  <2> QED BY <2>1, <2>2
<1>7. ASSUME NEW k \in Cycles, Cancel(k) PROVE IInv'
  <2>1. armed /\ onComplete = k /\ k <= arms /\ NotTold(k) /\ Tell(k, "canceled")
        /\ arms' = arms
    BY <1>7 DEF Cancel, ArmedBy, ArmedIsNew, routerVars
  <2>2. SentIsOld' /\ SentOnce' /\ \A j \in Cycles : j # k /\ NotTold(j) => NotTold(j)'
    <3> HIDE DEF IInv
    <3> QED BY <2>1, Reported
  <2>3. TypeOK'
    <3>1. sent' \in Seq(Frame)
      BY <2>1, Appended
    <3> QED BY <1>7, <3>1, Disarmed DEF Cancel, TypeOK, routerVars
  <2>4. ArmedIsNew'
    BY <1>7 DEF Cancel, Disarm, ArmedIsNew
  <2>5. FiringIsNew'
    <3>1. firing' = firing /\ \A d \in firing : d.of \in Cycles /\ d.of # k
      BY <1>7, <2>1 DEF Cancel, ArmedIsNew, TypeOK, Completion
    <3> QED BY <2>1, <2>2, <3>1 DEF FiringIsNew
  <2> QED BY <2>2, <2>3, <2>4, <2>5
<1>8. CASE Performed
  BY <1>8 DEF Performed, TypeOK, ArmedIsNew, FiringIsNew, SentIsOld, SentOnce, NotTold,
       cycleVars, timerVars
<1>9. ASSUME Disarm, Drop, UNCHANGED <<mode, expired, firing, arms, kind, sent, events>>,
             performing' \in BOOLEAN
      PROVE  IInv'
  <2>1. TypeOK'
    <3>1. dropped' \in SUBSET Cycles
      BY <1>9 DEF Drop, TypeOK, ArmedIsNew
    <3> QED BY <1>9, <3>1, Disarmed DEF TypeOK
  <2> QED BY <1>9, <2>1 DEF Disarm, ArmedIsNew, FiringIsNew, SentIsOld, SentOnce, NotTold
<1>10. CASE Failed
  BY <1>9, <1>10 DEF Failed
<1>11. CASE Reset
  BY <1>9, <1>11 DEF Reset, routerVars, TypeOK
<1>12. CASE UNCHANGED vars
  BY <1>12 DEF vars, TypeOK, ArmedIsNew, FiringIsNew, SentIsOld, SentOnce, NotTold,
       cycleVars, timerVars, routerVars
<1> QED
  BY <1>1, <1>2, <1>3, <1>4, <1>5, <1>6, <1>7, <1>8, <1>10, <1>11, <1>12
     DEF Next, Timers, Router

\* The detector's types hold for every bound.
THEOREM TypeCorrect == Spec => []TypeOK
<1>1. IInv => TypeOK
  BY DEF IInv
<1> QED BY Start, Step, <1>1, PTL DEF Spec

\* "the callback fires exactly once", at most: for any number of cycles and events, no
\* cycle is reported to the daemon twice, whichever timers, cancels and resets race.
THEOREM CycleToldOnce == Spec => []ToldOnce
<1>1. IInv => ToldOnce
  BY DEF IInv, SentOnce, ToldOnce, ToldOf
<1> QED BY Start, Step, <1>1, PTL DEF Spec

\* Counting: the count starts at 0 with its cycle, and both grow together.
LEMMA Counting ==
    IInv /\ CountIsOwn /\ QuietHeardEnough /\ [Next]_vars => CountIsOwn' /\ QuietHeardEnough'
<1> SUFFICES ASSUME IInv, CountIsOwn, QuietHeardEnough, [Next]_vars
             PROVE  CountIsOwn' /\ QuietHeardEnough'
  OBVIOUS
<1> USE DEF IInv, CountIsOwn, QuietHeardEnough
<1>1. CASE OnEvent
  <2>1. onComplete \in Cycles /\ onComplete' = onComplete /\ firing' = firing
    BY <1>1 DEF OnEvent, ArmedIsNew, TypeOK
  <2>2. events' = [events EXCEPT ![onComplete] = @ + 1] /\ events \in [Cycles -> Nat]
    BY <1>1 DEF OnEvent, TypeOK
  <2>3. CountIsOwn'
    BY <1>1, <2>1, <2>2 DEF OnEvent, TypeOK
  <2>4. \A c \in firing : c.of \in Cycles /\ events'[c.of] >= events[c.of]
    BY <2>1, <2>2 DEF TypeOK, Completion
  <2>5. QuietHeardEnough'
    <3> SUFFICES ASSUME NEW c \in firing, c.reason = "quiet", c.mode = "minEventsThenQuiet"
                 PROVE  events'[c.of] >= MinEvents
      BY <2>1
    <3> QED BY <2>2, <2>4 DEF TypeOK, Completion
  <2> QED BY <2>3, <2>5
<1>2. ASSUME NEW r \in Reasons, Expire(r) PROVE CountIsOwn' /\ QuietHeardEnough'
  BY <1>2 DEF Expire, cycleVars
<1>3. ASSUME NEW r \in Reasons, FireIfReady(r) PROVE CountIsOwn' /\ QuietHeardEnough'
  <2>1. CASE Fires(r)
    <3> DEFINE c == [of |-> onComplete, reason |-> r, mode |-> mode]
    <3>1. armed /\ onComplete \in Cycles /\ qualifyingCount <= events[onComplete]
      BY <2>1 DEF Fires, ArmedIsNew, TypeOK
    <3>2. firing' = firing \cup {c} /\ armed' = FALSE /\ events' = events
      BY <1>3, <2>1 DEF FireIfReady, Disarm
    <3>3. r = "quiet" /\ mode = "minEventsThenQuiet" => events[onComplete] >= MinEvents
      BY <2>1, <3>1 DEF Fires, TypeOK
    <3>4. c.reason = "quiet" /\ c.mode = "minEventsThenQuiet" => events[c.of] >= MinEvents
      BY <3>3
    <3>5. QuietHeardEnough'
      <4> HIDE DEF c
      <4> QED BY <3>2, <3>4
    <3> QED BY <3>2, <3>5
  <2>2. CASE ~Fires(r)
    BY <1>3, <2>2 DEF FireIfReady, cycleVars
  <2> QED BY <2>1, <2>2
<1>4. ASSUME NEW c \in firing, Invoke(c) PROVE CountIsOwn' /\ QuietHeardEnough'
  BY <1>4 DEF Invoke, cycleVars
<1>5. ASSUME NEW k \in Cycles, Act(k) \/ WaitForSettle(k)
      PROVE  CountIsOwn' /\ QuietHeardEnough'
  BY <1>5 DEF Act, WaitForSettle, Arm, Fresh, TypeOK
<1>6. ASSUME NEW k \in Cycles, Cancel(k) PROVE CountIsOwn' /\ QuietHeardEnough'
  BY <1>6 DEF Cancel, Disarm
<1>7. CASE Performed
  BY <1>7 DEF Performed, cycleVars, timerVars
<1>8. CASE Failed \/ Reset
  BY <1>8 DEF Failed, Reset, Disarm
<1>9. CASE UNCHANGED vars
  BY <1>9 DEF vars, cycleVars, timerVars
<1> QED
  BY <1>1, <1>2, <1>3, <1>4, <1>5, <1>6, <1>7, <1>8, <1>9 DEF Next, Timers, Router

\* For any threshold and any interleaving of re-arms with running timers, a cycle that ends
\* as quiet in minEventsThenQuiet has heard that many events itself.
THEOREM QuietIsEarned == Spec => []QuietHeardEnough
<1>1. Init => IInv /\ CountIsOwn /\ QuietHeardEnough
  BY Start
<1> QED BY <1>1, Step, Counting, PTL DEF Spec

-----------------------------------------------------------------------------
(* Settle implements SettleCycle *)

\* A cycle that was taken off is in no other place.
DroppedIsOver ==
    \A k \in dropped : /\ k <= arms /\ NotTold(k)
                       /\ armed => onComplete # k
                       /\ \A c \in firing : c.of # k

PhaseInv == IInv /\ DroppedIsOver

\* What its place says of a cycle's phase: no cycle is in two.
Placed(k) ==
    /\ Phase(k) = "armed" <=> armed /\ onComplete = k
    /\ Phase(k) = "settling" <=> \E c \in firing : c.of = k
    /\ Phase(k) = "told" <=> ~ NotTold(k)
    /\ Phase(k) = "dropped" <=> k \in dropped
    /\ Phase(k) \in {"armed", "settling", "told", "dropped", "new"}

LEMMA Places == PhaseInv => \A k \in Cycles : Placed(k)
<1> SUFFICES ASSUME PhaseInv, NEW k \in Cycles PROVE Placed(k)
  OBVIOUS
<1>1. ToldOf(k) # {} <=> ~ NotTold(k)
  BY DEF ToldOf, NotTold
<1>2. /\ armed /\ onComplete = k => NotTold(k) /\ (\A c \in firing : c.of # k)
      /\ \A c \in firing : c.of = k => NotTold(k)
      /\ k \in dropped => /\ NotTold(k) /\ ~(armed /\ onComplete = k)
                          /\ \A c \in firing : c.of # k
  BY DEF PhaseInv, IInv, ArmedIsNew, FiringIsNew, DroppedIsOver
<1> HIDE DEF PhaseInv
<1> QED BY <1>1, <1>2 DEF Phase, Placed

LEMMA PlacesNext == (PhaseInv => \A k \in Cycles : Placed(k))'
BY Places, PTL

LEMMA DroppedStep == PhaseInv /\ [Next]_vars => DroppedIsOver'
<1> SUFFICES ASSUME PhaseInv, [Next]_vars PROVE DroppedIsOver'
  OBVIOUS
<1> USE DEF PhaseInv, DroppedIsOver
<1>0. dropped \in SUBSET Cycles /\ arms \in 0..MaxArms /\ firing \in SUBSET Completion
      /\ onComplete \in Cycles \cup {None}
  BY DEF IInv, TypeOK
<1>1. CASE OnEvent \/ Performed \/ (\E r \in Reasons : Expire(r)) \/ UNCHANGED vars
  BY <1>1 DEF OnEvent, Performed, Expire, vars, cycleVars, routerVars, timerVars, NotTold
<1>2. ASSUME NEW r \in Reasons, FireIfReady(r) PROVE DroppedIsOver'
  <2>1. UNCHANGED <<dropped, arms, sent>>
    BY <1>2 DEF FireIfReady, routerVars
  <2>2. CASE Fires(r)
    <3>1. /\ armed' = FALSE /\ armed
          /\ firing' = firing \cup {[of |-> onComplete, reason |-> r, mode |-> mode]}
      BY <1>2, <2>2 DEF FireIfReady, Disarm, Fires
    <3> QED BY <2>1, <3>1 DEF NotTold
  <2>3. CASE ~ Fires(r)
    BY <1>2, <2>1, <2>3 DEF FireIfReady, cycleVars, NotTold
  <2> QED BY <2>2, <2>3
<1>3. ASSUME NEW c \in firing, Invoke(c) PROVE DroppedIsOver'
  <2> DEFINE w == IF kind[c.of] = "act" THEN "settled" ELSE "res"
  <2>1. /\ c.of \in Cycles /\ Tell(c.of, w) /\ w \in {"settled", "res", "canceled"}
        /\ c.of <= arms /\ NotTold(c.of) /\ arms' = arms
    BY <1>3 DEF Invoke, IInv, TypeOK, Completion, FiringIsNew, routerVars
  <2> HIDE DEF w
  <2>2. \A j \in Cycles : j # c.of /\ NotTold(j) => NotTold(j)'
    BY <2>1, Reported
  <2> QED BY <1>0, <1>3, <2>2 DEF Invoke, cycleVars, routerVars
<1>4. ASSUME NEW k \in Cycles, Act(k) \/ WaitForSettle(k) PROVE DroppedIsOver'
  <2>1. /\ k = arms + 1 /\ arms' = k /\ onComplete' = k /\ UNCHANGED <<firing, sent>>
        /\ dropped' = IF armed THEN dropped \cup {onComplete} ELSE dropped
    BY <1>4 DEF Act, WaitForSettle, Begin, Arm
  <2>2. armed => onComplete <= arms /\ NotTold(onComplete)
                 /\ \A c \in firing : c.of # onComplete
    BY DEF IInv, ArmedIsNew
  <2>3. ASSUME NEW j \in dropped'
        PROVE  j \in Nat /\ j <= arms /\ NotTold(j) /\ \A c \in firing : c.of # j
    BY <1>0, <2>1, <2>2 DEF IInv, ArmedIsNew
  <2> QED BY <1>0, <2>1, <2>3 DEF NotTold
<1>5. ASSUME NEW k \in Cycles, Cancel(k) PROVE DroppedIsOver'
  <2>1. /\ armed /\ onComplete = k /\ k <= arms /\ NotTold(k) /\ Tell(k, "canceled")
        /\ arms' = arms
    BY <1>5 DEF Cancel, ArmedBy, IInv, ArmedIsNew, routerVars
  <2>2. \A j \in Cycles : j # k /\ NotTold(j) => NotTold(j)'
    BY <2>1, Reported
  <2> QED BY <1>0, <1>5, <2>1, <2>2 DEF Cancel, Disarm
<1>6. CASE Failed \/ Reset
  <2>1. /\ armed' = FALSE /\ UNCHANGED <<arms, firing, sent>>
        /\ dropped' = IF armed THEN dropped \cup {onComplete} ELSE dropped
    BY <1>6 DEF Failed, Reset, Disarm, Drop, routerVars
  <2>2. armed => onComplete <= arms /\ NotTold(onComplete)
                 /\ \A c \in firing : c.of # onComplete
    BY DEF IInv, ArmedIsNew
  <2> QED BY <2>1, <2>2 DEF NotTold
<1> QED BY <1>1, <1>2, <1>3, <1>4, <1>5, <1>6 DEF Next, Timers, Router

LEMMA PhaseStep == PhaseInv /\ [Next]_vars => PhaseInv'
BY Step, DroppedStep DEF PhaseInv

\* One cycle moves on, the others stay.
LEMMA OneMoves ==
    ASSUME NEW k \in Cycles, NEW p, Phase(k)' = p,
           \A j \in Cycles : j # k => Phase(j)' = Phase(j)
    PROVE  CyclePhase' = [CyclePhase EXCEPT ![k] = p]
BY DEF CyclePhase

\* A report changes nothing of the other cycles.
LEMMA ReportMoves ==
    ASSUME PhaseInv, PhaseInv', NEW k \in Cycles, NEW w \in {"settled", "res", "canceled"},
           Tell(k, w), k <= arms, NotTold(k), arms' = arms, dropped' = dropped,
           \A j \in Cycles : j # k => /\ (armed' /\ onComplete' = j) <=> (armed /\ onComplete = j)
                                      /\ (\E c \in firing' : c.of = j) <=> (\E c \in firing : c.of = j)
    PROVE  CyclePhase' = [CyclePhase EXCEPT ![k] = "told"]
<1>1. ~ NotTold(k)'
  BY Appended DEF PhaseInv, IInv, NotTold
<1>2. Phase(k)' = "told"
  BY <1>1, PlacesNext DEF Placed
<1>3. ASSUME NEW j \in Cycles, j # k PROVE Phase(j)' = Phase(j)
  <2>1. ToldOf(j)' # {} <=> ToldOf(j) # {}
    BY <1>3, Appended DEF PhaseInv, IInv, ToldOf
  <2> QED BY <1>3, <2>1 DEF Phase
<1> QED BY <1>2, <1>3, OneMoves

\* Every step is a step of SettleCycle or leaves the phases as they are.
LEMMA StepSimulates ==
    ASSUME PhaseInv, PhaseInv', [Next]_vars
    PROVE  [Cycle!Next]_CyclePhase
<1>0. /\ onComplete \in Cycles \cup {None} /\ (armed <=> onComplete # None)
      /\ firing \in SUBSET Completion
  BY DEF PhaseInv, IInv, ArmedIsNew, TypeOK
<1>1. ASSUME UNCHANGED <<armed, onComplete, firing, sent, dropped>>
      PROVE  UNCHANGED CyclePhase
  BY <1>1 DEF CyclePhase, Phase, ToldOf
<1>2. CASE OnEvent \/ Performed \/ (\E r \in Reasons : Expire(r)) \/ UNCHANGED vars
  BY <1>1, <1>2 DEF OnEvent, Performed, Expire, vars, cycleVars, routerVars, timerVars
<1>3. ASSUME NEW r \in Reasons, FireIfReady(r) PROVE [Cycle!Next]_CyclePhase
  <2>1. UNCHANGED <<dropped, sent>>
    BY <1>3 DEF FireIfReady
  <2>2. CASE Fires(r)
    <3> DEFINE c == [of |-> onComplete, reason |-> r, mode |-> mode]
    <3>0. PICK k \in Cycles : k = onComplete
      BY <1>0, <2>2 DEF Fires
    <3>1. armed /\ armed' = FALSE /\ firing' = firing \cup {c} /\ c.of = k
      BY <1>3, <2>2, <3>0 DEF FireIfReady, Disarm, Fires
    <3> HIDE DEF c
    <3>2. CyclePhase[k] = "armed"
      BY <3>0, <3>1 DEF CyclePhase, Phase
    <3>3. Phase(k)' = "settling"
      BY <3>1 DEF Phase
    <3>4. \A j \in Cycles : j # k => Phase(j)' = Phase(j)
      BY <2>1, <3>0, <3>1 DEF Phase, ToldOf
    <3>5. CyclePhase' = [CyclePhase EXCEPT ![k] = "settling"]
      BY <3>1, <3>3, <3>4, OneMoves
    <3> QED BY <3>1, <3>2, <3>5 DEF Cycle!Next, Cycle!Complete, Cycle!Move
  <2>3. CASE ~ Fires(r)
    BY <1>1, <1>3, <2>1, <2>3 DEF FireIfReady, cycleVars
  <2> QED BY <2>2, <2>3
<1>4. ASSUME NEW c \in firing, Invoke(c) PROVE [Cycle!Next]_CyclePhase
  <2> DEFINE w == IF kind[c.of] = "act" THEN "settled" ELSE "res"
             k == c.of
  <2>1. /\ k \in Cycles /\ Tell(k, w) /\ w \in {"settled", "res", "canceled"}
        /\ k <= arms /\ NotTold(k) /\ UNCHANGED <<arms, dropped, armed, onComplete>>
        /\ firing' = firing \ {c}
    BY <1>0, <1>4 DEF Invoke, PhaseInv, IInv, Completion, FiringIsNew, routerVars, cycleVars
  <2>2. CyclePhase[k] = "settling"
    BY <2>1, Places DEF CyclePhase, Placed
  <2>3. \A j \in Cycles : j # k =>
           ((\E d \in firing' : d.of = j) <=> (\E d \in firing : d.of = j))
    BY <2>1
  <2> HIDE DEF w, k
  <2>4. CyclePhase' = [CyclePhase EXCEPT ![k] = "told"]
    BY <2>1, <2>3, ReportMoves
  <2> QED BY <2>1, <2>2, <2>4 DEF Cycle!Next, Cycle!Report, Cycle!Move
<1>5. ASSUME NEW k \in Cycles, Act(k) \/ WaitForSettle(k) PROVE [Cycle!Next]_CyclePhase
  <2>1. /\ k = arms + 1 /\ onComplete' = k /\ armed' /\ UNCHANGED <<firing, sent>>
        /\ dropped' = IF armed THEN dropped \cup {onComplete} ELSE dropped
    BY <1>5 DEF Act, WaitForSettle, Begin, Arm
  <2>2. /\ NotTold(k) /\ k \notin dropped /\ (armed => onComplete # k)
        /\ \A c \in firing : c.of # k
    BY <2>1 DEF PhaseInv, IInv, SentIsOld, FiringIsNew, ArmedIsNew, DroppedIsOver, NotTold,
                TypeOK, Completion, Frame
  <2>3. CyclePhase[k] = "new"
    BY <2>2, Places DEF CyclePhase, Placed
  <2>4. Phase(k)' = "armed"
    BY <2>1 DEF Phase
  <2>5. ASSUME NEW j \in Cycles, j # k, Phase(j) = "armed" PROVE Phase(j)' = "dropped"
    <3>1. armed /\ onComplete = j
      BY <2>5, Places DEF Placed
    <3> QED BY <2>1, <2>5, <3>1, PlacesNext DEF Placed
  <2>6. ASSUME NEW j \in Cycles, j # k, Phase(j) # "armed" PROVE Phase(j)' = Phase(j)
    BY <2>1, <2>6 DEF Phase, ToldOf
  <2>7. CyclePhase' = [j \in Cycles |-> CASE j = k -> "armed"
                                          [] j # k /\ CyclePhase[j] = "armed" -> "dropped"
                                          [] OTHER -> CyclePhase[j]]
    BY <2>4, <2>5, <2>6 DEF CyclePhase
  <2> QED BY <2>3, <2>7 DEF Cycle!Next, Cycle!Arm
<1>6. ASSUME NEW k \in Cycles, Cancel(k) PROVE [Cycle!Next]_CyclePhase
  <2>1. /\ armed /\ onComplete = k /\ k <= arms /\ NotTold(k) /\ Tell(k, "canceled")
        /\ armed' = FALSE /\ UNCHANGED <<arms, dropped, firing>>
    BY <1>6 DEF Cancel, ArmedBy, PhaseInv, IInv, ArmedIsNew, routerVars, Disarm
  <2>2. CyclePhase[k] = "armed"
    BY <2>1, Places DEF CyclePhase, Placed
  <2>3. CyclePhase' = [CyclePhase EXCEPT ![k] = "told"]
    BY <2>1, ReportMoves
  <2> QED BY <2>2, <2>3 DEF Cycle!Next, Cycle!Cancel, Cycle!Move
<1>7. CASE Failed \/ Reset
  <2>1. /\ armed' = FALSE /\ UNCHANGED <<firing, sent>>
        /\ dropped' = IF armed THEN dropped \cup {onComplete} ELSE dropped
    BY <1>7 DEF Failed, Reset, Disarm, Drop
  <2>2. CASE armed
    <3>0. PICK k \in Cycles : k = onComplete
      BY <1>0, <2>2
    <3>1. CyclePhase[k] = "armed" /\ k \in dropped'
      BY <2>1, <2>2, <3>0 DEF CyclePhase, Phase
    <3>2. Phase(k)' = "dropped"
      BY <3>1, PlacesNext DEF Placed
    <3>3. \A j \in Cycles : j # k => Phase(j)' = Phase(j)
      BY <2>1, <2>2, <3>0 DEF Phase, ToldOf
    <3>4. CyclePhase' = [CyclePhase EXCEPT ![k] = "dropped"]
      BY <3>1, <3>2, <3>3, OneMoves
    <3> QED BY <3>1, <3>4 DEF Cycle!Next, Cycle!Drop, Cycle!Move
  <2>3. CASE ~ armed
    BY <2>1, <2>3 DEF CyclePhase, Phase, ToldOf
  <2> QED BY <2>2, <2>3
<1> QED BY <1>2, <1>3, <1>4, <1>5, <1>6, <1>7 DEF Next, Timers, Router

\* Settle implements SettleCycle: however re-arms, running timers, cancels, failed acts and
\* resets interleave, one cycle is armed at a time, each has one end, and that end is final.
THEOREM CyclesEndOnce == Spec => ImplementsSettleCycle
<1>1. Init => PhaseInv
  BY Start DEF PhaseInv, DroppedIsOver, Init
<1>2. Init => Cycle!Init
  BY DEF Init, Cycle!Init, CyclePhase, Phase, ToldOf
<1>3. PhaseInv /\ PhaseInv' /\ [Next]_vars => [Cycle!Next]_CyclePhase
  BY StepSimulates
<1> QED BY <1>1, <1>2, <1>3, PhaseStep, PTL DEF Spec, ImplementsSettleCycle, Cycle!Spec
=============================================================================

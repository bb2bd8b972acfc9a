-------------------------- MODULE ControllerProofs --------------------------
(***************************************************************************)
(* Proofs about Controller, for any tool calls, packages and number of     *)
(* lost connections: its types, the order of what is performed, the order  *)
(* of the trail and the configuration the device is asked to run.          *)
(***************************************************************************)
EXTENDS Controller, SequenceTheorems, FiniteSetTheorems, TLAPS

-----------------------------------------------------------------------------
(* The inductive invariant *)

Performs(e) == e.verb \in {"act", "retry"}

\* Only an act takes the lock, goes through the act cycle and is recorded.
LockSteps == {"queued", "act", "retry", "settle", "widen"}
OnlyActs ==
    /\ \A t \in Tasks : task[t].pc \in LockSteps \/ task[t].after = "record" => t \in Acts
    /\ \A k \in 1..Len(inbox) : Performs(inbox[k]) => inbox[k].act \in Acts

\* A connection is lost only while the bound leaves another.
MayRedial == link # "up" => epoch <= MaxDrops

\* Whoever an answer goes to still awaits it, and awaits no other.
Addressed ==
    /\ \A t \in Tasks : task[t].pc \notin Requests => task[t].reply = "none"
    /\ \A k \in 1..Len(inbox) : inbox[k].task # NoTask =>
          /\ link = "up"
          /\ task[inbox[k].task].pc = inbox[k].verb
          /\ task[inbox[k].task].reply = "none"
          /\ inbox[k].task \in Acts => inbox[k].act = inbox[k].task
    /\ \A j, k \in 1..Len(inbox) :
          inbox[j].task # NoTask /\ inbox[j].task = inbox[k].task => j = k

TypeInv == TypeOK /\ OnlyActs /\ MayRedial /\ Addressed

\* The acts under way are those in the lock's queue, and all but the holder wait.
LockHeld ==
    /\ \A t \in Acts : task[t].pc \notin {"idle", "done"} =>
          \E k \in 1..Len(lockQueue) : lockQueue[k] = t
    /\ \A t \in Acts : task[t].pc \notin {"idle", "done", "queued"} => lockQueue[1] = t
    /\ \A k \in 1..Len(lockQueue) : task[lockQueue[k]].pc \notin {"idle", "done"}

\* The lock is FIFO: its queue is what is left of the model's order.
Before == Len(order) - Len(lockQueue)
QueueIsOrder ==
    /\ Len(lockQueue) <= Len(order)
    /\ \A k \in 1..Len(lockQueue) : lockQueue[k] = order[Before + k]
    /\ \A j, k \in 1..Len(order) : order[j] = order[k] => j = k
    /\ \A k \in 1..Len(order) : task[order[k]].pc # "idle"

\* a is one of the first n of o; a comes before b in it.
Within(o, n, a) == \E i \in 1..Len(o) : i <= n /\ o[i] = a
Follows(o, a, b) == \E i, j \in 1..Len(o) : o[i] = a /\ o[j] = b /\ i < j

\* What was performed, and then what the inbox will have performed, follows the order, up
\* to the holder of the lock.
SentInOrder ==
    /\ \A k \in 1..Len(inbox) :
          Performs(inbox[k]) => Within(order, Before + 1, inbox[k].act)
    /\ \A k \in 1..Len(performed) : Within(order, Before + 1, performed[k])
    /\ \A j, k \in 1..Len(performed) : j < k => Follows(order, performed[j], performed[k])
    /\ \A j, k \in 1..Len(inbox) :
          j < k /\ Performs(inbox[j]) /\ Performs(inbox[k]) =>
              Follows(order, inbox[j].act, inbox[k].act)
    /\ \A j \in 1..Len(performed), k \in 1..Len(inbox) :
          Performs(inbox[k]) => Follows(order, performed[j], inbox[k].act)

\* An act that is to be sent, for the first time or again, is neither performed nor on
\* its way.
ToSend(t) ==
    \/ task[t].pc = "queued"
    \/ task[t].pc = "act" /\ task[t].reply \in {"stale", "refused"}
SentOnce ==
    \A t \in Acts : ToSend(t) =>
        /\ \A k \in 1..Len(performed) : performed[k] # t
        /\ \A k \in 1..Len(inbox) : Performs(inbox[k]) => inbox[k].act # t

\* An act that is to be recorded was performed.
Succeeded(t) ==
    \/ task[t].after = "record"
    \/ task[t].pc = "settle"
    \/ task[t].pc \in {"act", "retry"} /\ task[t].reply \notin Failures \cup {"none"}
RecordsPerformed ==
    \A t \in Tasks : Succeeded(t) =>
        t \in Acts /\ \E k \in 1..Len(performed) : performed[k] = t

\* What is recorded has left the lock, was performed, and follows the order.
AuditInOrder ==
    /\ \A k \in 1..Len(audit) :
          /\ Within(order, Before, audit[k])
          /\ \E i \in 1..Len(performed) : performed[i] = audit[k]
    /\ \A j, k \in 1..Len(audit) : j < k => Follows(order, audit[j], audit[k])

\* The controller's configuration is the last one sent on the newest connection, or the one
\* the device handled last.
ConfigSent ==
    LET sent == {k \in 1..Len(inbox) : inbox[k].verb \in Configures} IN
    /\ held <= epoch
    /\ held = epoch /\ link = "up" =>
        /\ ~refused /\ sent = {} => asked = {cfg}
        /\ \A k \in sent : (\A j \in sent : j <= k) => inbox[k].cfg = cfg

OrderInv ==
    /\ LockHeld /\ QueueIsOrder
    /\ SentInOrder /\ SentOnce /\ RecordsPerformed /\ AuditInOrder

-----------------------------------------------------------------------------
(* Types *)

Frame == [task : Tasks \cup {NoTask}, act : Acts \cup {NoTask}, verb : Requests,
          cfg : Config]

\* What a step of a call may change in what the calls share.
CallTypes == task \in [Tasks -> Local] /\ lockQueue \in Seq(Acts) /\ inbox \in Seq(Frame)

LEMMA InitTypes == Init => TypeOK
<1> SUFFICES ASSUME Init PROVE TypeOK
  OBVIOUS
<1>1. cfg \in Config
  BY DEF Init, Config
<1>2. asked \in SUBSET Config /\ Cardinality(asked) <= 1
  <2>1. Cardinality({cfg}) = 1
    BY FS_Singleton
  <2> QED
    BY <1>1, <2>1 DEF Init
<1>3. held \in Epochs /\ epoch \in Epochs /\ Idle \in Local
  BY ControllerAssumption DEF Init, Epochs, Idle, Local, Requests
<1>4. task \in [Tasks -> Local]
  BY <1>3 DEF Init
<1>5. /\ lockQueue \in Seq(Acts) /\ audit \in Seq(Acts)
      /\ performed \in Seq(Acts) /\ order \in Seq(Acts)
      /\ inbox \in Seq([task : Tasks \cup {NoTask}, act : Acts \cup {NoTask},
                        verb : Requests, cfg : Config])
  BY DEF Init
<1>6. settledQueue \in [Epochs -> Seq(Acts)]
  BY DEF Init
<1>7. timeouts \in 0..2 /\ link = "up" /\ settling = {} /\ refused = FALSE
  BY DEF Init
<1> QED
  BY <1>1, <1>2, <1>3, <1>4, <1>5, <1>6, <1>7 DEF TypeOK

LEMMA EndTypes ==
  ASSUME TypeOK, NEW t \in Tasks, End(t), UNCHANGED inbox
  PROVE  CallTypes'
<1>1. [Idle EXCEPT !.pc = "done"] \in Local
  <2>1. 1 \in Epochs
    BY ControllerAssumption DEF Epochs
  <2> QED
    BY <2>1 DEF Idle, Local
<1>2. lockQueue' \in Seq(Acts)
  BY HeadTailProperties DEF End, Ended, TypeOK
<1> QED
  BY <1>1, <1>2 DEF End, Step, CallTypes, TypeOK, Frame

LEMMA MessageType ==
  ASSUME NEW t \in Tasks, NEW verb \in Requests, NEW c \in Config
  PROVE  Message(t, verb, c) \in Frame
BY DEF Message, Frame

LEMMA RequestTypes ==
  ASSUME TypeOK, NEW t \in Tasks, NEW r \in Local, NEW verb \in Requests,
         NEW c \in Config, Request(t, r, verb, c)
  PROVE  CallTypes'
<1>1. CASE task' = [task EXCEPT ![t] = [r EXCEPT !.pc = verb, !.reply = "none"]]
           /\ inbox' = Append(inbox, Message(t, verb, c)) /\ UNCHANGED lockQueue
  <2>1. [r EXCEPT !.pc = verb, !.reply = "none"] \in Local
    BY DEF Local
  <2>2. inbox \in Seq(Frame)
    BY DEF TypeOK, Frame
  <2>3. inbox' \in Seq(Frame)
    BY <1>1, <2>2, MessageType, AppendProperties
  <2> QED
    BY <1>1, <2>1, <2>3 DEF CallTypes, TypeOK
<1>2. CASE End(t) /\ UNCHANGED inbox
  BY <1>2, EndTypes
<1>3. CASE Step(t, [r EXCEPT !.pc = "reacquire", !.reply = "none"])
           /\ UNCHANGED <<lockQueue, inbox>>
  <2>1. [r EXCEPT !.pc = "reacquire", !.reply = "none"] \in Local
    BY DEF Local
  <2> QED
    BY <1>3, <2>1 DEF Step, CallTypes, TypeOK, Frame
<1>4. CASE Step(t, [r EXCEPT !.pc = verb, !.reply = "none"])
           /\ UNCHANGED <<lockQueue, inbox>>
  <2>1. [r EXCEPT !.pc = verb, !.reply = "none"] \in Local
    BY DEF Local
  <2> QED
    BY <1>4, <2>1 DEF Step, CallTypes, TypeOK, Frame
<1> QED
  BY <1>1, <1>2, <1>3, <1>4 DEF Request, Step

LEMMA ReobserveTypes ==
  ASSUME TypeOK, NEW t \in Tasks, NEW r \in Local, Reobserve(t, r)
  PROVE  CallTypes'
BY RequestTypes DEF Reobserve, TypeOK, Requests

LEMMA ObserveFailedTypes ==
  ASSUME TypeOK, NEW t \in Tasks, ObserveFailed(t)
  PROVE  CallTypes'
<1>1. [task[t] EXCEPT !.pc = "reacquire", !.reply = "none"] \in Local
  BY DEF TypeOK, Local
<1> QED
  BY <1>1, EndTypes DEF ObserveFailed, Step, CallTypes, TypeOK, Frame

\* The types of what no call shares with the device.
LEMMA PolicyTypes ==
  ASSUME TypeOK, CallTypes', held' \in Epochs, cfg' \in Config, timeouts' \in 0..2,
         audit' \in Seq(Acts), settledQueue' \in [Epochs -> Seq(Acts)],
         UNCHANGED <<epoch, link, settling, asked, performed, order, refused>>
  PROVE  TypeOK'
BY DEF TypeOK, CallTypes, Frame

LEMMA ConfigTypes ==
  ASSUME NEW c \in Config, NEW w \in BOOLEAN
  PROVE  [c EXCEPT !.wide = w] \in Config
BY DEF Config

LEMMA StepTypes ==
  ASSUME TypeOK, NEW t \in Tasks, NEW r \in Local, Step(t, r), UNCHANGED lockQueue,
         inbox' \in Seq(Frame)
  PROVE  CallTypes'
BY DEF Step, CallTypes, TypeOK

LEMMA StartTypes ==
  ASSUME TypeOK, NEW t \in Tasks,
         UngroundedRef(t) \/ QueueAct(t) \/ Look(t) \/ Wait(t)
  PROVE  TypeOK'
<1> USE DEF UnchangedPolicy, UnchangedRest, ghostVars, deviceVars
<1>0. task[t] \in Local /\ cfg \in Config
  BY DEF TypeOK
<1>1. CASE UngroundedRef(t)
  <2>1. [task[t] EXCEPT !.pc = "done"] \in Local
    BY <1>0 DEF Local
  <2>2. CallTypes'
    BY <1>1, <2>1 DEF UngroundedRef, Step, CallTypes, TypeOK, Frame
  <2> QED
    BY <1>1, <2>2, PolicyTypes DEF UngroundedRef, TypeOK
<1>2. CASE QueueAct(t)
  <2>1. [task[t] EXCEPT !.pc = "queued"] \in Local
    BY <1>0 DEF Local
  <2>2. task' \in [Tasks -> Local]
    BY <1>2, <2>1 DEF QueueAct, Step, TypeOK
  <2>3. lockQueue' \in Seq(Acts) /\ order' \in Seq(Acts)
    BY <1>2, AppendProperties DEF QueueAct, TypeOK
  <2> QED
    BY <1>2, <2>2, <2>3 DEF QueueAct, TypeOK
<1>3. CASE Look(t)
  BY <1>0, <1>3, ReobserveTypes, PolicyTypes DEF Look, TypeOK
<1>4. CASE Wait(t)
  BY <1>0, <1>4, RequestTypes, PolicyTypes DEF Wait, TypeOK, Requests
<1> QED
  BY <1>1, <1>2, <1>3, <1>4

LEMMA ActTypes ==
  ASSUME TypeOK, NEW t \in Tasks,
         Act(t) \/ ActReturn(t) \/ RetryReturn(t) \/ WidenReturn(t) \/ WaitReturn(t)
  PROVE  TypeOK'
<1> USE DEF UnchangedPolicy, UnchangedRest, ghostVars
<1>0. task[t] \in Local /\ cfg \in Config /\ held \in Epochs
  BY DEF TypeOK
<1>1. ASSUME Performed(t) PROVE CallTypes'
  <2>1. [task[t] EXCEPT !.pc = "settle", !.reply = "none", !.on = held] \in Local
    BY <1>0 DEF Local
  <2> QED
    BY <1>1, <2>1 DEF Performed, Step, CallTypes, TypeOK, Frame
<1>2. ASSUME End(t), UNCHANGED inbox PROVE CallTypes'
  BY <1>2, EndTypes
<1>3. ASSUME NEW verb \in Requests, Request(t, task[t], verb, cfg) PROVE CallTypes'
  BY <1>0, <1>3, RequestTypes
<1>4. ASSUME Reobserve(t, task[t]) PROVE CallTypes'
  BY <1>0, <1>4, ReobserveTypes
<1>5. "act" \in Requests /\ "retry" \in Requests
  BY DEF Requests
<1>6. CallTypes'
  BY <1>1, <1>2, <1>3, <1>4, <1>5 DEF Act, ActReturn, RetryReturn, WidenReturn, WaitReturn
<1>7. UNCHANGED <<held, cfg, timeouts, audit, epoch, link, settledQueue, settling, asked,
                  performed, order, refused>>
  BY DEF Act, ActReturn, RetryReturn, WidenReturn, WaitReturn
<1> QED
  BY <1>6, <1>7, PolicyTypes DEF TypeOK

LEMMA ObserveTypes ==
  ASSUME TypeInv, NEW t \in Tasks,
         WindowsReturn(t) \/ ConfigureReturn(t) \/ ObserveReturn(t)
  PROVE  TypeOK'
<1> USE DEF UnchangedRest, ghostVars
<1>0. /\ task[t] \in Local /\ cfg \in Config
      /\ "configure" \in Requests /\ "observe" \in Requests
      /\ TypeOK /\ (task[t].after = "record" => t \in Acts)
  BY DEF TypeInv, OnlyActs, TypeOK, Requests
<1>1. CASE WindowsReturn(t)
  <2>1. CASE Failed(t)
    BY <1>0, <1>1, <2>1, ObserveFailedTypes, PolicyTypes DEF WindowsReturn, TypeOK
  <2>2. CASE ~Failed(t) /\ task[t].reply \in Pkgs \ {cfg.scope}
    <3>1. cfg' = [scope |-> task[t].reply, wide |-> FALSE] /\ timeouts' = 0
      BY <1>1, <2>2 DEF WindowsReturn
    <3>2. cfg' \in Config /\ timeouts' \in 0..2
      <4>1. [scope |-> task[t].reply, wide |-> FALSE] \in Config
        BY <2>2 DEF Config
      <4> QED
        BY <3>1, <4>1
    <3>3. Request(t, task[t], "configure", cfg')
      BY <1>1, <2>2 DEF WindowsReturn
    <3>4. CallTypes'
      BY <1>0, <3>2, <3>3, RequestTypes
    <3>5. UNCHANGED <<held, audit, epoch, link, settledQueue, settling, asked, performed,
                      order, refused>>
      BY <1>1 DEF WindowsReturn
    <3> QED
      BY <1>0, <3>2, <3>4, <3>5, PolicyTypes DEF TypeOK
  <2>3. CASE ~Failed(t) /\ task[t].reply \notin Pkgs \ {cfg.scope}
    <3>1. CallTypes'
      BY <1>0, <1>1, <2>3, RequestTypes DEF WindowsReturn
    <3> QED
      BY <1>0, <1>1, <2>3, <3>1, PolicyTypes DEF WindowsReturn, TypeOK
  <2> QED
    BY <2>1, <2>2, <2>3
<1>2. CASE ConfigureReturn(t)
  <2>1. CallTypes'
    BY <1>0, <1>2, ObserveFailedTypes, RequestTypes DEF ConfigureReturn
  <2> QED
    BY <1>0, <1>2, <2>1, PolicyTypes DEF ConfigureReturn, TypeOK
<1>3. CASE ObserveReturn(t)
  <2>1. CallTypes'
    BY <1>0, <1>3, ObserveFailedTypes, EndTypes DEF ObserveReturn
  <2>2. audit' \in Seq(Acts)
    <3>1. audit \in Seq(Acts)
      BY <1>0 DEF TypeOK
    <3>2. \/ audit' = audit
          \/ task[t].after = "record" /\ audit' = Append(audit, t)
      BY <1>3 DEF ObserveReturn, Record
    <3> QED
      BY <1>0, <3>1, <3>2, AppendProperties
  <2> QED
    BY <1>0, <1>3, <2>1, <2>2, PolicyTypes DEF ObserveReturn, TypeOK
<1> QED
  BY <1>1, <1>2, <1>3

LEMMA RecoverTypes ==
  ASSUME TypeOK, NEW t \in Tasks, Reacquire(t) \/ ReconfigureReturn(t)
  PROVE  TypeOK'
<1> USE DEF UnchangedRest, ghostVars
<1> DEFINE r == [task[t] EXCEPT !.pc = "reconfigure", !.recovered = TRUE]
           c == [cfg EXCEPT !.wide = FALSE]
<1>0. /\ task[t] \in Local /\ cfg \in Config /\ epoch \in Epochs
      /\ held \in Epochs /\ timeouts \in 0..2 /\ audit \in Seq(Acts)
      /\ settledQueue \in [Epochs -> Seq(Acts)]
  BY DEF TypeOK
<1>1. CASE Reacquire(t)
  <2>1. r \in Local /\ c \in Config
    BY <1>0, ConfigTypes DEF Local, Requests
  <2>2. \/ /\ held' = epoch /\ cfg' = c /\ timeouts' = 0
           /\ \/ /\ Step(t, r) /\ UNCHANGED lockQueue
                 /\ inbox' = Append(inbox, Message(t, "reconfigure", cfg'))
              \/ End(t) /\ UNCHANGED inbox
        \/ End(t) /\ UNCHANGED <<held, cfg, timeouts, inbox>>
    BY <1>1 DEF Reacquire
  <2>3. UNCHANGED <<audit, epoch, link, settledQueue, settling, asked, performed, order,
                    refused>>
    BY <1>1 DEF Reacquire
  <2> HIDE DEF r, c
  <2>4. held' \in Epochs /\ cfg' \in Config /\ timeouts' \in 0..2
    BY <1>0, <2>1, <2>2
  <2>5. ASSUME Step(t, r), UNCHANGED lockQueue,
               inbox' = Append(inbox, Message(t, "reconfigure", cfg'))
        PROVE  CallTypes'
    <3>1. inbox \in Seq(Frame) /\ Message(t, "reconfigure", cfg') \in Frame
      BY <2>4, MessageType DEF TypeOK, Frame, Requests
    <3>2. inbox' \in Seq(Frame)
      BY <2>5, <3>1, AppendProperties
    <3> QED
      BY <2>1, <2>5, <3>2, StepTypes
  <2>6. CallTypes'
    BY <2>2, <2>5, EndTypes
  <2> QED
    BY <1>0, <2>3, <2>4, <2>6, PolicyTypes
<1>2. CASE ReconfigureReturn(t)
  <2>1. CallTypes'
    BY <1>0, <1>2, EndTypes, ReobserveTypes DEF ReconfigureReturn
  <2> QED
    BY <1>2, <2>1, PolicyTypes DEF ReconfigureReturn, TypeOK
<1> QED
  BY <1>1, <1>2

LEMMA SettledTypes ==
  ASSUME TypeOK, NEW t \in Tasks, SettledReturn(t)
  PROVE  TypeOK'
<1> DEFINE r == [task[t] EXCEPT !.after = "record"]
<1>1. r \in Local /\ task[t].on \in Epochs /\ "widen" \in Requests
  BY DEF TypeOK, Local, Requests
<1>2. PICK reason \in {"quiet", "timeout"} : NextSettled(t, reason) /\ Tune(t, r, reason)
  BY DEF SettledReturn
<1>3. settledQueue' \in [Epochs -> Seq(Acts)]
  <2>1. settledQueue \in [Epochs -> Seq(Acts)] /\ settledQueue[task[t].on] \in Seq(Acts)
    BY <1>1 DEF TypeOK
  <2>2. \/ UNCHANGED settledQueue
        \/ /\ settledQueue[task[t].on] # <<>>
           /\ settledQueue' = [settledQueue EXCEPT ![task[t].on]
                                              = Tail(settledQueue[task[t].on])]
    BY <1>2 DEF NextSettled
  <2>3. settledQueue[task[t].on] # <<>> => Tail(settledQueue[task[t].on]) \in Seq(Acts)
    BY <2>1, HeadTailProperties
  <2> QED
    BY <1>1, <2>1, <2>2, <2>3
<1> HIDE DEF r
<1>4. CASE Widens(t, reason)
  <2>1. cfg' \in Config /\ timeouts' \in 0..2
    <3>1. [cfg EXCEPT !.wide = TRUE] \in Config
      BY ConfigTypes DEF TypeOK
    <3>2. cfg' = [cfg EXCEPT !.wide = TRUE] /\ timeouts' = 0
      BY <1>2, <1>4 DEF Tune
    <3> QED
      BY <3>1, <3>2
  <2>2. CallTypes'
    BY <1>1, <1>2, <1>4, <2>1, RequestTypes DEF Tune
  <2> QED
    BY <1>3, <2>1, <2>2, PolicyTypes DEF SettledReturn, ghostVars, TypeOK
<1>5. CASE ~Widens(t, reason)
  <2>1. timeouts' \in 0..2
    <3>1. timeouts' = IF t \in GlobalActs THEN timeouts
                      ELSE IF reason = "timeout" THEN timeouts + 1 ELSE 0
      BY <1>2, <1>5 DEF Tune
    <3>2. timeouts \in 0..2 /\ (t \in GlobalActs \/ reason # "timeout" \/ timeouts # 2)
      BY <1>5 DEF Widens, TypeOK
    <3> QED
      BY <3>1, <3>2
  <2>2. CallTypes' /\ cfg' = cfg
    BY <1>1, <1>2, <1>5, ReobserveTypes DEF Tune
  <2> QED
    BY <1>3, <2>1, <2>2, PolicyTypes DEF SettledReturn, ghostVars, TypeOK
<1> QED
  BY <1>4, <1>5

LEMMA SeqOfFunction ==
  ASSUME NEW S, NEW n \in Nat, NEW f \in [1..n -> S]
  PROVE  f \in Seq(S) /\ Len(f) = n
OBVIOUS

LEMMA FrameOfNobody ==
  ASSUME NEW m \in Frame
  PROVE  LET n == [m EXCEPT !.task = NoTask] IN
         /\ n \in Frame /\ n.task = NoTask
         /\ n.act = m.act /\ n.verb = m.verb /\ n.cfg = m.cfg
BY DEF Frame

\* Requests whose caller gave up are the same requests for nobody.
LEMMA OrphanProperties ==
  ASSUME NEW q \in Seq(Frame), NEW t \in Tasks
  PROVE  /\ Orphan(q, t) \in Seq(Frame) /\ Len(Orphan(q, t)) = Len(q)
         /\ \A k \in 1..Len(q) :
               /\ Orphan(q, t)[k].task = IF q[k].task = t THEN NoTask ELSE q[k].task
               /\ Orphan(q, t)[k].act = q[k].act
               /\ Orphan(q, t)[k].verb = q[k].verb
               /\ Orphan(q, t)[k].cfg = q[k].cfg
<1>1. DOMAIN q = 1..Len(q) /\ Len(q) \in Nat
  OBVIOUS
<1> DEFINE e(k) == [q[k] EXCEPT !.task = NoTask]
           o(k) == IF q[k].task = t THEN e(k) ELSE q[k]
<1>3. Orphan(q, t) = [k \in 1..Len(q) |-> o(k)]
  BY <1>1 DEF Orphan
<1> HIDE DEF e
<1>2. \A k \in 1..Len(q) : /\ q[k] \in Frame /\ e(k) \in Frame
                           /\ e(k).task = NoTask /\ e(k).act = q[k].act
                           /\ e(k).verb = q[k].verb /\ e(k).cfg = q[k].cfg
  <2> TAKE k \in 1..Len(q)
  <2>1. q[k] \in Frame
    BY ElementOfSeq
  <2> QED
    BY <2>1, FrameOfNobody DEF e
<1>4. \A k \in 1..Len(q) : o(k) \in Frame
  BY <1>2
<1>5. Orphan(q, t) \in [1..Len(q) -> Frame]
  BY <1>3, <1>4
<1>6. Orphan(q, t) \in Seq(Frame) /\ Len(Orphan(q, t)) = Len(q)
  BY <1>1, <1>5, SeqOfFunction
<1>7. \A k \in 1..Len(q) : Orphan(q, t)[k] = IF q[k].task = t THEN e(k) ELSE q[k]
  BY <1>3
<1> QED
  BY <1>2, <1>6, <1>7

\* The first n requests, for nobody.
Severed(q, n) == [k \in 1..n |-> [q[k] EXCEPT !.task = NoTask]]

LEMMA SeveredProperties ==
  ASSUME NEW q \in Seq(Frame), NEW n \in 0..Len(q)
  PROVE  /\ Severed(q, n) \in Seq(Frame) /\ Len(Severed(q, n)) = n
         /\ \A k \in 1..n :
               LET d == Severed(q, n)[k] IN
               d.task = NoTask /\ d.act = q[k].act /\ d.verb = q[k].verb /\ d.cfg = q[k].cfg
<1> DEFINE e(k) == [q[k] EXCEPT !.task = NoTask]
<1>2. Severed(q, n) = [k \in 1..n |-> e(k)] /\ n \in Nat
  BY DEF Severed
<1> HIDE DEF e
<1>3. \A k \in 1..n : /\ e(k) \in Frame /\ e(k).task = NoTask /\ e(k).act = q[k].act
                    /\ e(k).verb = q[k].verb /\ e(k).cfg = q[k].cfg
  <2> TAKE k \in 1..n
  <2>1. q[k] \in Frame
    BY ElementOfSeq
  <2> QED
    BY <2>1, FrameOfNobody DEF e
<1>4. Severed(q, n) \in [1..n -> Frame]
  BY <1>2, <1>3
<1> QED
  BY <1>2, <1>3, <1>4, SeqOfFunction

LEMMA TimeoutTypes ==
  ASSUME TypeOK, NEW t \in Tasks, Timeout(t)
  PROVE  TypeOK'
<1>1. inbox \in Seq(Frame) /\ task[t] \in Local
  BY DEF TypeOK, Frame
<1>2. [task[t] EXCEPT !.reply = "timeout"] \in Local
  BY <1>1 DEF Local, Failures
<1>3. inbox' \in Seq(Frame)
  BY <1>1, OrphanProperties DEF Timeout
<1>4. CallTypes'
  BY <1>2, <1>3, StepTypes DEF Timeout
<1> QED
  BY <1>4, PolicyTypes DEF Timeout, UnchangedPolicy, UnchangedRest, ghostVars, TypeOK

LEMMA AnswerTypes ==
  ASSUME TypeOK, NEW e \in Frame, NEW reply \in Failures \cup Pkgs \cup {"ok"},
         Answer(e, reply)
  PROVE  task' \in [Tasks -> Local]
<1>1. CASE e.task = NoTask \/ link # "up"
  BY <1>1 DEF Answer, TypeOK
<1>2. CASE e.task # NoTask /\ link = "up"
  <2>1. e.task \in Tasks /\ task[e.task] \in Local
    BY <1>2 DEF Frame, TypeOK
  <2>2. [task[e.task] EXCEPT !.reply = reply] \in Local
    BY <2>1 DEF Local
  <2>3. task' = [task EXCEPT ![e.task] = [task[e.task] EXCEPT !.reply = reply]]
    BY <1>2, <2>1 DEF Answer, TypeOK
  <2> QED
    BY <2>2, <2>3 DEF TypeOK
<1> QED
  BY <1>1, <1>2

\* What the device answers, and to what.
LEMMA HandleTypes ==
  ASSUME TypeInv, DeviceHandle
  PROVE  TypeOK'
<1> DEFINE e == Head(inbox)
<1>1. inbox \in Seq(Frame) /\ inbox # <<>>
  BY DEF TypeInv, TypeOK, Frame, DeviceHandle
<1>2. e \in Frame /\ inbox' \in Seq(Frame) /\ e = inbox[1] /\ 1 \in 1..Len(inbox)
  BY <1>1, HeadTailProperties DEF DeviceHandle
<1>3. Performs(e) => e.act \in Acts
  BY <1>2 DEF TypeInv, OnlyActs
<1>4. \/ DevicePerform(e) \/ DeviceConfigure(e) \/ DeviceReport(e) \/ DeviceRefuse(e)
  BY DEF DeviceHandle
<1> HIDE DEF e
<1>5. TypeOK
  BY DEF TypeInv
<1>6. task' \in [Tasks -> Local]
  <2>1. \A reply \in Failures \cup Pkgs \cup {"ok"} :
          Answer(e, reply) => task' \in [Tasks -> Local]
    BY <1>2, <1>5, AnswerTypes
  <2>2. {"stale", "refused", "other"} \subseteq Failures
    BY DEF Failures
  <2> QED
    BY <1>4, <1>5, <2>1, <2>2
    DEF DevicePerform, DeviceConfigure, DeviceReport, DeviceRefuse, TypeOK
<1>7. performed' \in Seq(Acts) /\ settling' \in SUBSET Acts
  <2>1. \/ UNCHANGED performed
        \/ Performs(e) /\ performed' = Append(performed, e.act)
    BY <1>4 DEF DevicePerform, DeviceConfigure, DeviceReport, DeviceRefuse, Performs
  <2>2. performed \in Seq(Acts) /\ settling \in SUBSET Acts
    BY <1>5 DEF TypeOK
  <2>3. \/ settling' \in {settling, {}}
        \/ Performs(e) /\ settling' \in {{e.act}, settling \cup {e.act}}
    BY <1>4 DEF DevicePerform, DeviceConfigure, DeviceReport, DeviceRefuse, Performs
  <2>4. settling' \in SUBSET Acts
    BY <1>3, <2>2, <2>3
  <2> QED
    BY <1>3, <2>1, <2>2, <2>4, AppendProperties
<1>8. refused' \in BOOLEAN
  BY <1>4, <1>5
  DEF DevicePerform, DeviceConfigure, DeviceReport, DeviceRefuse, TypeOK
<1>9. asked' \in SUBSET Config /\ Cardinality(asked') <= 1
  <2>1. Cardinality({e.cfg}) = 1 /\ e.cfg \in Config
    BY <1>2, FS_Singleton DEF Frame
  <2>2. asked' = asked \/ asked' = {e.cfg}
    BY <1>4 DEF DevicePerform, DeviceConfigure, DeviceReport, DeviceRefuse
  <2>3. asked \in SUBSET Config /\ Cardinality(asked) <= 1
    BY <1>5 DEF TypeOK
  <2>4. CASE asked' = {e.cfg}
    BY <2>1, <2>4
  <2> QED
    BY <2>2, <2>3, <2>4
<1> QED
  BY <1>2, <1>5, <1>6, <1>7, <1>8, <1>9 DEF DeviceHandle, TypeOK, Frame

LEMMA LinkTypes ==
  ASSUME TypeOK, MayRedial, Link \/ \E a \in Acts : DeviceSettled(a)
  PROVE  TypeOK'
<1> USE DEF controllerVars, ghostVars
<1>0. inbox \in Seq(Frame)
  BY DEF TypeOK, Frame
<1>1. CASE Drop
  <2>1. PICK n \in 0..Len(inbox) : inbox' = Severed(inbox, n)
    BY <1>1 DEF Drop, Severed
  <2>2. inbox' \in Seq(Frame)
    BY <1>0, <2>1, SeveredProperties
  <2> QED
    BY <1>1, <2>2 DEF Drop, TypeOK, Frame
<1>2. CASE PumpEnd
  <2>1. \A t \in Tasks : [task[t] EXCEPT !.reply = "offline"] \in Local
    BY DEF TypeOK, Local, Failures
  <2>2. task' \in [Tasks -> Local]
    BY <1>2, <2>1 DEF PumpEnd, TypeOK
  <2> QED
    BY <1>2, <2>2 DEF PumpEnd, TypeOK
<1>3. CASE Reconnect
  <2>1. Cardinality({}) = 0
    BY FS_EmptySet
  <2>2. asked' \in SUBSET Config /\ Cardinality(asked') <= 1
    <3>1. CASE asked' = {}
      BY <2>1, <3>1
    <3>2. CASE asked' = asked
      BY <3>2 DEF TypeOK
    <3> QED
      BY <1>3, <3>1, <3>2 DEF Reconnect
  <2>3. epoch' \in Epochs
    BY <1>3, ControllerAssumption DEF Reconnect, MayRedial, TypeOK, Epochs
  <2> QED
    BY <1>3, <2>2, <2>3 DEF Reconnect, TypeOK
<1>4. ASSUME NEW a \in Acts, DeviceSettled(a) PROVE TypeOK'
  <2>1. settledQueue' \in [Epochs -> Seq(Acts)]
    <3>1. settledQueue[epoch] \in Seq(Acts) /\ Append(settledQueue[epoch], a) \in Seq(Acts)
      BY AppendProperties DEF TypeOK
    <3> QED
      BY <1>4, <3>1 DEF DeviceSettled, TypeOK
  <2> QED
    BY <1>4, <2>1 DEF DeviceSettled, TypeOK
<1> QED
  BY <1>1, <1>2, <1>3, <1>4 DEF Link

-----------------------------------------------------------------------------
(* What a step of a call does *)

\* A call that may go on: its request is over, or it has the lock it queued for.
Ready(t) ==
    /\ task[t].pc # "done"
    /\ t \in Acts => task[t].pc # "idle"
    /\ task[t].pc = "queued" => HoldsLock(t)
    /\ task[t].pc \in Requests => task[t].reply # "none"

\* Where it goes on to, unless it ends.
Goes(t, r) ==
    /\ r \in Local
    /\ r.reply = "none"
    /\ r.pc \in Requests \cup {"settle", "reacquire"}
    /\ r.pc \in LockSteps => t \in Acts
    /\ r.pc \in {"act", "retry"} => ToSend(t)
    /\ r.pc = "settle" => Succeeded(t)
    /\ r.after = "record" => Succeeded(t)

Sends(t, r) ==
    /\ link = "up"
    /\ r.pc \in Requests
    /\ \E c \in Config : inbox' = Append(inbox, Message(t, r.pc, c))

Moves(t) ==
    \/ End(t) /\ UNCHANGED inbox
    \/ \E r \in Local :
          /\ Goes(t, r) /\ Step(t, r) /\ UNCHANGED lockQueue
          /\ \/ Sends(t, r)
             \/ UNCHANGED inbox

Records(t) ==
    \/ UNCHANGED audit
    \/ task[t].after = "record" /\ End(t) /\ audit' = Append(audit, t)

Runs(t) ==
    /\ Ready(t) /\ Moves(t) /\ Records(t)
    /\ UNCHANGED <<epoch, link, performed, order>>

LEMMA RequestMoves ==
  ASSUME TypeOK, NEW t \in Tasks, NEW r \in Local, NEW verb \in Requests,
         NEW c \in Config, Request(t, r, verb, c),
         r.after = "record" => Succeeded(t),
         verb \in {"act", "retry"} => ToSend(t),
         verb \in LockSteps => t \in Acts
  PROVE  Moves(t)
<1> DEFINE s == [r EXCEPT !.pc = verb, !.reply = "none"]
           p == [r EXCEPT !.pc = "reacquire", !.reply = "none"]
<1>1. /\ s \in Local /\ s.pc = verb /\ s.reply = "none" /\ s.after = r.after
      /\ p \in Local /\ p.pc = "reacquire" /\ p.reply = "none" /\ p.after = r.after
  BY DEF Local
<1>2. \/ /\ link = "up" /\ Step(t, s) /\ UNCHANGED lockQueue
         /\ inbox' = Append(inbox, Message(t, verb, c))
      \/ End(t) /\ UNCHANGED inbox
      \/ (Step(t, p) \/ Step(t, s)) /\ UNCHANGED <<lockQueue, inbox>>
  BY DEF Request
<1>3. "reacquire" \notin LockSteps \cup Requests /\ "settle" \notin Requests
  BY DEF LockSteps, Requests
<1> HIDE DEF s, p
<1>4. Goes(t, s)
  BY <1>1, <1>3 DEF Goes
<1>5. Goes(t, p)
  BY <1>1, <1>3 DEF Goes
<1>6. CASE link = "up" /\ Step(t, s) /\ UNCHANGED lockQueue
           /\ inbox' = Append(inbox, Message(t, verb, c))
  BY <1>1, <1>4, <1>6 DEF Moves, Sends
<1>7. CASE Step(t, p) /\ UNCHANGED <<lockQueue, inbox>>
  BY <1>1, <1>5, <1>7 DEF Moves
<1>8. CASE Step(t, s) /\ UNCHANGED <<lockQueue, inbox>>
  BY <1>1, <1>4, <1>8 DEF Moves
<1> QED
  BY <1>2, <1>6, <1>7, <1>8 DEF Moves

LEMMA ReobserveMoves ==
  ASSUME TypeOK, NEW t \in Tasks, NEW r \in Local, Reobserve(t, r),
         r.after = "record" => Succeeded(t)
  PROVE  Moves(t)
<1>1. {"windows", "observe"} \subseteq Requests \ (LockSteps \cup {"act", "retry"})
  BY DEF Requests, LockSteps
<1>2. cfg \in Config
  BY DEF TypeOK
<1> QED
  BY <1>1, <1>2, RequestMoves DEF Reobserve

LEMMA ObserveFailedMoves ==
  ASSUME TypeOK, NEW t \in Tasks, ObserveFailed(t)
  PROVE  Moves(t)
<1> DEFINE p == [task[t] EXCEPT !.pc = "reacquire", !.reply = "none"]
<1>1. p \in Local /\ p.pc = "reacquire" /\ p.reply = "none" /\ p.after = task[t].after
  BY DEF TypeOK, Local
<1>2. \/ End(t) /\ UNCHANGED inbox
      \/ Step(t, p) /\ UNCHANGED <<lockQueue, inbox>>
  BY DEF ObserveFailed
<1>3. "reacquire" \notin LockSteps \cup Requests
  BY DEF LockSteps, Requests
<1> HIDE DEF p
<1>4. Goes(t, p)
  BY <1>1, <1>3 DEF Goes, Succeeded
<1> QED
  BY <1>1, <1>2, <1>3, <1>4 DEF Moves

\* Look, Wait, and every step of a call but its start in the queue and its timeout.
Resumes(t) ==
    \/ Look(t) \/ Wait(t)
    \/ Act(t) \/ ActReturn(t) \/ RetryReturn(t) \/ SettledReturn(t) \/ WidenReturn(t)
    \/ WaitReturn(t) \/ WindowsReturn(t) \/ ConfigureReturn(t) \/ ObserveReturn(t)
    \/ Reacquire(t) \/ ReconfigureReturn(t)

LEMMA PerformedMoves ==
  ASSUME TypeInv, NEW t \in Tasks, Performed(t), Succeeded(t)
  PROVE  Moves(t)
<1> DEFINE r == [task[t] EXCEPT !.pc = "settle", !.reply = "none", !.on = held]
<1>1. r \in Local /\ r.pc = "settle" /\ r.reply = "none"
  BY DEF TypeInv, TypeOK, Local
<1>2. Step(t, r) /\ UNCHANGED <<lockQueue, inbox>>
  BY DEF Performed
<1>3. "settle" \in LockSteps \ Requests
  BY DEF LockSteps, Requests
<1>4. t \in Acts
  <2>1. task[t].pc \in {"act", "retry", "settle"} \/ task[t].after = "record"
    BY DEF Succeeded
  <2> QED
    BY <2>1 DEF TypeInv, OnlyActs, LockSteps
<1> HIDE DEF r
<1>5. Goes(t, r)
  BY <1>1, <1>3, <1>4 DEF Goes
<1> QED
  BY <1>1, <1>2, <1>3, <1>5 DEF Moves

LEMMA ResumesReady ==
  ASSUME TypeOK, NEW t \in Tasks, Resumes(t)
  PROVE  Ready(t)
<1>1. Acts \cap Looks = {}
  BY ControllerAssumption
<1>2. CASE Look(t) \/ Wait(t)
  BY <1>1, <1>2 DEF Look, Wait, Ready, Requests
<1>3. CASE Act(t) \/ SettledReturn(t) \/ Reacquire(t)
  BY <1>3 DEF Act, SettledReturn, Reacquire, Ready, Requests
<1>4. CASE \/ ActReturn(t) \/ RetryReturn(t) \/ WidenReturn(t) \/ WaitReturn(t)
           \/ WindowsReturn(t) \/ ConfigureReturn(t) \/ ObserveReturn(t)
           \/ ReconfigureReturn(t)
  <2>1. \E verb \in Requests : Awaiting(t, verb)
    BY <1>4 DEF ActReturn, RetryReturn, WidenReturn, WaitReturn, WindowsReturn,
                ConfigureReturn, ObserveReturn, ReconfigureReturn, Requests
  <2> QED
    BY <2>1 DEF Awaiting, Ready, Requests
<1> QED
  BY <1>2, <1>3, <1>4 DEF Resumes

LEMMA ResumesMoves ==
  ASSUME TypeInv, NEW t \in Tasks, Resumes(t)
  PROVE  Moves(t)
<1>1. /\ TypeOK /\ task[t] \in Local /\ cfg \in Config
      /\ (task[t].pc \in LockSteps => t \in Acts)
      /\ (task[t].after = "record" => Succeeded(t))
  BY DEF TypeInv, TypeOK, OnlyActs, Succeeded
<1>2. ASSUME NEW verb \in {"wait", "windows", "configure", "observe"}, NEW c \in Config,
             Request(t, task[t], verb, c)
      PROVE  Moves(t)
  <2>1. verb \in Requests /\ verb \notin LockSteps \cup {"act", "retry"}
    BY DEF Requests, LockSteps
  <2> QED
    BY <1>1, <1>2, <2>1, RequestMoves
<1>3. ASSUME Reobserve(t, task[t]) PROVE Moves(t)
  BY <1>1, <1>3, ReobserveMoves
<1>4. CASE Look(t) \/ Wait(t) \/ WaitReturn(t)
  BY <1>1, <1>2, <1>3, <1>4 DEF Look, Wait, WaitReturn
<1>5. CASE Act(t)
  <2>1. ToSend(t) /\ t \in Acts /\ "act" \in Requests
    BY <1>1, <1>5 DEF Act, ToSend, LockSteps, Requests
  <2> QED
    BY <1>1, <1>5, <2>1, RequestMoves DEF Act
<1>6. CASE ActReturn(t)
  <2>1. t \in Acts /\ "retry" \in Requests /\ task[t].pc = "act"
    BY <1>1, <1>6 DEF ActReturn, Awaiting, LockSteps, Requests
  <2>2. CASE task[t].reply = "ok" /\ Performed(t)
    BY <2>1, <2>2, PerformedMoves DEF Succeeded, Failures
  <2>3. CASE Retried(t) /\ Request(t, task[t], "retry", cfg)
    <3>1. ToSend(t)
      BY <2>1, <2>3 DEF Retried, ToSend
    <3> QED
      BY <1>1, <2>1, <2>3, <3>1, RequestMoves
  <2> QED
    BY <1>3, <1>6, <2>2, <2>3 DEF ActReturn
<1>7. CASE RetryReturn(t)
  <2>1. ~Failed(t) => Succeeded(t)
    BY <1>7 DEF RetryReturn, Awaiting, Failed, Succeeded
  <2> QED
    BY <1>3, <1>7, <2>1, PerformedMoves DEF RetryReturn
<1>8. CASE SettledReturn(t)
  <2> DEFINE r == [task[t] EXCEPT !.after = "record"]
  <2>1. r \in Local /\ "widen" \in Requests /\ "widen" \notin {"act", "retry"}
    BY <1>1 DEF Local, Requests
  <2>2. Succeeded(t) /\ t \in Acts
    BY <1>1, <1>8 DEF SettledReturn, Succeeded, LockSteps
  <2>3. PICK reason \in {"quiet", "timeout"} : Tune(t, r, reason)
    BY <1>8 DEF SettledReturn
  <2> HIDE DEF r
  <2>4. CASE Widens(t, reason)
    <3>1. cfg' = [cfg EXCEPT !.wide = TRUE] /\ Request(t, r, "widen", cfg')
      BY <2>3, <2>4 DEF Tune
    <3>2. cfg' \in Config
      BY <1>1, <3>1, ConfigTypes
    <3> QED
      BY <1>1, <2>1, <2>2, <3>1, <3>2, RequestMoves
  <2>5. CASE ~Widens(t, reason)
    BY <1>1, <2>1, <2>2, <2>3, <2>5, ReobserveMoves DEF Tune
  <2> QED
    BY <2>4, <2>5
<1>9. CASE WidenReturn(t) \/ ReconfigureReturn(t)
  BY <1>3, <1>9 DEF WidenReturn, ReconfigureReturn, Moves
<1>10. CASE WindowsReturn(t)
  <2>1. CASE ~Failed(t) /\ task[t].reply \in Pkgs \ {cfg.scope}
    <3>1. /\ cfg' = [scope |-> task[t].reply, wide |-> FALSE]
          /\ Request(t, task[t], "configure", cfg')
      BY <1>10, <2>1 DEF WindowsReturn
    <3>2. cfg' \in Config
      <4>1. [scope |-> task[t].reply, wide |-> FALSE] \in Config
        BY <2>1 DEF Config
      <4> QED
        BY <3>1, <4>1
    <3> QED
      BY <1>2, <3>1, <3>2
  <2> QED
    BY <1>1, <1>2, <1>10, <2>1, ObserveFailedMoves DEF WindowsReturn
<1>11. CASE ConfigureReturn(t)
  BY <1>1, <1>2, <1>11, ObserveFailedMoves DEF ConfigureReturn
<1>12. CASE ObserveReturn(t)
  BY <1>1, <1>12, ObserveFailedMoves DEF ObserveReturn, Moves
<1>13. CASE Reacquire(t)
  <2> DEFINE r == [task[t] EXCEPT !.pc = "reconfigure", !.recovered = TRUE]
  <2>1. task[t].reply = "none" /\ cfg' \in Config
    <3>1. cfg' = [cfg EXCEPT !.wide = FALSE] \/ cfg' = cfg
      BY <1>13 DEF Reacquire
    <3>2. task[t].reply = "none"
      BY <1>13 DEF Reacquire, TypeInv, Addressed, Requests
    <3> QED
      BY <1>1, <3>1, <3>2, ConfigTypes
  <2>2. /\ r \in Local /\ r.pc = "reconfigure" /\ r.reply = "none"
        /\ r.after = task[t].after
    BY <1>1, <2>1 DEF Local, Requests
  <2>3. \/ /\ link = "up" /\ Step(t, r) /\ UNCHANGED lockQueue
           /\ inbox' = Append(inbox, Message(t, "reconfigure", cfg'))
        \/ End(t) /\ UNCHANGED inbox
    BY <1>13 DEF Reacquire
  <2>4. "reconfigure" \in Requests \ LockSteps
    BY DEF LockSteps, Requests
  <2> HIDE DEF r
  <2>5. Goes(t, r)
    BY <1>1, <2>2, <2>4 DEF Goes
  <2> QED
    BY <2>1, <2>2, <2>3, <2>4, <2>5 DEF Moves, Sends
<1> QED
  BY <1>4, <1>5, <1>6, <1>7, <1>8, <1>9, <1>10, <1>11, <1>12, <1>13 DEF Resumes

LEMMA ResumesRuns ==
  ASSUME TypeInv, NEW t \in Tasks, Resumes(t)
  PROVE  Runs(t)
<1>1. UNCHANGED <<epoch, link, performed, order>>
  BY DEF Resumes, Look, Wait, Act, ActReturn, RetryReturn, SettledReturn, WidenReturn,
         WaitReturn, WindowsReturn, ConfigureReturn, ObserveReturn, Reacquire,
         ReconfigureReturn, UnchangedRest, ghostVars
<1>2. ASSUME ObserveReturn(t) PROVE Records(t)
  BY <1>2 DEF ObserveReturn, Record, Records
<1>3. ASSUME ~ObserveReturn(t) PROVE Records(t)
  BY <1>3
  DEF Resumes, Look, Wait, Act, ActReturn, RetryReturn, SettledReturn, WidenReturn,
      WaitReturn, WindowsReturn, ConfigureReturn, Reacquire, ReconfigureReturn,
      UnchangedRest, Records
<1> QED
  BY <1>1, <1>2, <1>3, ResumesReady, ResumesMoves DEF Runs, TypeInv

LEMMA ResumesTypes ==
  ASSUME TypeInv, NEW t \in Tasks, Resumes(t)
  PROVE  TypeOK'
BY StartTypes, ActTypes, ObserveTypes, RecoverTypes, SettledTypes
DEF Resumes, TypeInv

LEMMA StepOfTask ==
  ASSUME TypeOK, NEW t \in Tasks, NEW r, Step(t, r)
  PROVE  \A s \in Tasks : task'[s] = IF s = t THEN r ELSE task[s]
BY DEF Step, TypeOK

\* The calls before and after: t has ended, or has gone on to r.
LEMMA MovesOfTask ==
  ASSUME TypeOK, NEW t \in Tasks, Moves(t)
  PROVE  /\ \A s \in Tasks \ {t} : task'[s] = task[s]
         /\ \/ /\ End(t) /\ UNCHANGED inbox
               /\ task'[t].pc = "done" /\ task'[t].reply = "none"
               /\ task'[t].after = "return"
            \/ /\ Goes(t, task'[t]) /\ UNCHANGED lockQueue
               /\ \/ Sends(t, task'[t])
                  \/ UNCHANGED inbox
<1>1. CASE End(t) /\ UNCHANGED inbox
  <2> DEFINE d == [Idle EXCEPT !.pc = "done"]
  <2>1. d.pc = "done" /\ d.reply = "none" /\ d.after = "return"
    BY DEF Idle
  <2>2. Step(t, d)
    BY <1>1 DEF End
  <2> HIDE DEF d
  <2> QED
    BY <1>1, <2>1, <2>2, StepOfTask
<1>2. ASSUME NEW r \in Local, Goes(t, r), Step(t, r), UNCHANGED lockQueue,
             Sends(t, r) \/ UNCHANGED inbox
      PROVE  /\ \A s \in Tasks \ {t} : task'[s] = task[s]
             /\ Goes(t, task'[t])
             /\ \/ Sends(t, task'[t])
                \/ UNCHANGED inbox
  <2>1. \A s \in Tasks : task'[s] = IF s = t THEN r ELSE task[s]
    BY <1>2, StepOfTask
  <2>2. task'[t] = r
    BY <2>1
  <2> QED
    BY <1>2, <2>1, <2>2
<1> QED
  BY <1>1, <1>2 DEF Moves

LEMMA SendsOfInbox ==
  ASSUME TypeOK, NEW t \in Tasks, NEW r \in Local, Sends(t, r)
  PROVE  /\ Len(inbox') = Len(inbox) + 1 /\ Len(inbox) \in Nat
         /\ \A k \in 1..Len(inbox) : inbox'[k] = inbox[k]
         /\ inbox'[Len(inbox) + 1].task = t
         /\ inbox'[Len(inbox) + 1].verb = r.pc
         /\ inbox'[Len(inbox) + 1].act = IF t \in Acts THEN t ELSE NoTask
<1>1. PICK c \in Config : inbox' = Append(inbox, Message(t, r.pc, c))
  BY DEF Sends
<1>2. inbox \in Seq(Frame) /\ r.pc \in Requests
  BY DEF TypeOK, Frame, Sends
<1> DEFINE m == Message(t, r.pc, c)
<1>3. m \in Frame /\ m.task = t /\ m.verb = r.pc /\ m.act = IF t \in Acts THEN t ELSE NoTask
  BY <1>2, MessageType DEF Message
<1> HIDE DEF m
<1>4. inbox' = Append(inbox, m)
  BY <1>1 DEF m
<1> QED
  BY <1>2, <1>3, <1>4, AppendProperties

-----------------------------------------------------------------------------
(* The types, and who awaits what, are invariant *)

LEMMA InboxTyped ==
  ASSUME TypeOK
  PROVE  /\ inbox \in Seq(Frame) /\ Len(inbox) \in Nat
         /\ \A k \in 1..Len(inbox) : 
               inbox[k] \in Frame /\ inbox[k].task \in Tasks \cup {NoTask}
<1>1. inbox \in Seq(Frame)
  BY DEF TypeOK, Frame
<1>2. \A k \in 1..Len(inbox) : inbox[k] \in Frame
  BY <1>1, ElementOfSeq
<1> QED
  BY <1>1, <1>2, LenProperties DEF Frame

\* No answer is on its way to a call that may go on.
LEMMA ReadyNotAddressed ==
  ASSUME TypeInv, NEW t \in Tasks, Ready(t)
  PROVE  \A k \in 1..Len(inbox) : inbox[k].task # t
<1> SUFFICES ASSUME NEW k \in 1..Len(inbox), inbox[k].task = t PROVE FALSE
  OBVIOUS
<1>1. NoTask \notin Tasks
  BY ControllerAssumption
<1>2. task[t].pc = inbox[k].verb /\ task[t].reply = "none"
  BY <1>1 DEF TypeInv, Addressed
<1>3. inbox[k].verb \in Requests
  BY InboxTyped DEF TypeInv, Frame
<1> QED
  BY <1>2, <1>3 DEF Ready

LEMMA RunsKeepTypes ==
  ASSUME TypeInv, TypeOK', NEW t \in Tasks, Runs(t)
  PROVE  TypeInv'
<1> USE DEF TypeInv
<1>0. /\ NoTask \notin Tasks
      /\ \A k \in 1..Len(inbox) : inbox[k].task \in Tasks \cup {NoTask}
  BY ControllerAssumption, InboxTyped
<1>1. MayRedial'
  BY DEF MayRedial, Runs
<1>2. \A k \in 1..Len(inbox) : inbox[k].task # t
  BY ReadyNotAddressed DEF Runs
<1>3. /\ \A s \in Tasks \ {t} : task'[s] = task[s]
      /\ \/ /\ UNCHANGED inbox
            /\ task'[t].pc = "done" /\ task'[t].reply = "none"
            /\ task'[t].after = "return"
         \/ /\ Goes(t, task'[t])
            /\ \/ Sends(t, task'[t])
               \/ UNCHANGED inbox
  BY MovesOfTask DEF Runs
<1>4. CASE UNCHANGED inbox /\ task'[t].pc = "done" /\ task'[t].reply = "none"
           /\ task'[t].after = "return"
  <2>1. OnlyActs'
    BY <1>3, <1>4 DEF OnlyActs, LockSteps
  <2>2. Addressed'
    BY <1>0, <1>2, <1>3, <1>4 DEF Addressed, Runs
  <2> QED
    BY <1>1, <2>1, <2>2
<1>5. ASSUME Goes(t, task'[t]),
             Sends(t, task'[t]) \/ UNCHANGED inbox
      PROVE  TypeInv'
  <2>1. \A s \in Tasks : task'[s].pc \in LockSteps \/ task'[s].after = "record" => s \in Acts
    <3>1. Succeeded(t) => t \in Acts
      BY DEF Succeeded, OnlyActs, LockSteps
    <3> QED
      BY <1>3, <1>5, <3>1 DEF OnlyActs, Goes
  <2>2. \A s \in Tasks : task'[s].pc \notin Requests => task'[s].reply = "none"
    BY <1>3, <1>5 DEF Addressed, Goes
  <2>3. CASE UNCHANGED inbox
    <3>1. OnlyActs'
      BY <2>1, <2>3 DEF OnlyActs
    <3>2. Addressed'
      BY <1>0, <1>2, <1>3, <2>2, <2>3 DEF Addressed, Runs
    <3> QED
      BY <1>1, <3>1, <3>2
  <2>4. CASE Sends(t, task'[t])
    <3>0. task'[t] \in Local
      BY DEF TypeOK
    <3>1. /\ Len(inbox') = Len(inbox) + 1 /\ Len(inbox) \in Nat
          /\ \A k \in 1..Len(inbox) : inbox'[k] = inbox[k]
          /\ inbox'[Len(inbox) + 1].task = t
          /\ inbox'[Len(inbox) + 1].verb = task'[t].pc
          /\ inbox'[Len(inbox) + 1].act = IF t \in Acts THEN t ELSE NoTask
      BY <2>4, <3>0, SendsOfInbox
    <3>2. Performs(inbox'[Len(inbox) + 1]) => t \in Acts
      BY <1>5, <3>1 DEF Performs, Goes, LockSteps
    <3>3. OnlyActs'
      BY <2>1, <3>1, <3>2 DEF OnlyActs
    <3>4. \A k \in 1..Len(inbox)' : inbox'[k].task # NoTask =>
             /\ link' = "up"
             /\ task'[inbox'[k].task].pc = inbox'[k].verb
             /\ task'[inbox'[k].task].reply = "none"
             /\ inbox'[k].task \in Acts => inbox'[k].act = inbox'[k].task
      <4>1. ASSUME NEW k \in 1..Len(inbox), inbox[k].task # NoTask
            PROVE  inbox[k].task \in Tasks \ {t}
        BY <1>2, <4>1, InboxTyped DEF Frame
      <4>2. link' = "up" /\ task'[t].reply = "none"
        BY <1>5, <2>4 DEF Sends, Runs, Goes
      <4> QED
        BY <1>3, <3>1, <4>1, <4>2 DEF Addressed
    <3>5. \A j, k \in 1..Len(inbox)' :
             inbox'[j].task # NoTask /\ inbox'[j].task = inbox'[k].task => j = k
      BY <1>2, <3>1 DEF Addressed
    <3>6. Addressed'
      BY <2>2, <3>4, <3>5 DEF Addressed
    <3> QED
      BY <1>1, <3>3, <3>6
  <2> QED
    BY <1>5, <2>3, <2>4
<1> QED
  BY <1>3, <1>4, <1>5

\* UngroundedRef, QueueAct and Timeout.
LEMMA OtherStepsKeepTypes ==
  ASSUME TypeInv, NEW t \in Tasks, UngroundedRef(t) \/ QueueAct(t) \/ Timeout(t)
  PROVE  TypeInv'
<1> USE DEF TypeInv
<1>1. TypeOK'
  BY StartTypes, TimeoutTypes
<1>2. MayRedial'
  BY DEF MayRedial, UngroundedRef, QueueAct, Timeout, UnchangedRest, deviceVars
<1>3. CASE UngroundedRef(t) \/ QueueAct(t)
  <2>1. \E pc \in {"done", "queued"} : Step(t, [task[t] EXCEPT !.pc = pc])
                                      /\ (pc = "queued" => t \in Acts)
    BY <1>3 DEF UngroundedRef, QueueAct
  <2>2. /\ task'[t].pc \in {"done", "queued"} /\ task'[t].reply = task[t].reply
        /\ task'[t].after = task[t].after /\ (task'[t].pc = "queued" => t \in Acts)
        /\ \A s \in Tasks \ {t} : task'[s] = task[s]
    BY <2>1, StepOfTask DEF TypeOK, Local
  <2>3. task[t].pc = "idle" /\ "idle" \notin Requests /\ UNCHANGED <<inbox, link>>
    BY <1>3 DEF UngroundedRef, QueueAct, Requests, UnchangedRest, deviceVars
  <2>4. \A k \in 1..Len(inbox) : inbox[k].task # t
    <3>1. \A k \in 1..Len(inbox) : inbox[k].verb \in Requests
      BY InboxTyped DEF Frame
    <3>2. t # NoTask
      BY ControllerAssumption
    <3> QED
      BY <2>3, <3>1, <3>2 DEF Addressed
  <2>5. OnlyActs'
    BY <2>2, <2>3 DEF OnlyActs, LockSteps
  <2>6. Addressed'
    BY <2>2, <2>3, <2>4, InboxTyped DEF Addressed
  <2> QED
    BY <1>1, <1>2, <2>5, <2>6
<1>4. CASE Timeout(t)
  <2>1. /\ task'[t].pc = task[t].pc /\ task'[t].after = task[t].after
        /\ task'[t].reply = "timeout" /\ task[t].pc \in Requests
        /\ \A s \in Tasks \ {t} : task'[s] = task[s]
    <3>1. Step(t, [task[t] EXCEPT !.reply = "timeout"]) /\ task[t].pc \in Requests
      BY <1>4 DEF Timeout, Timed
    <3> QED
      BY <3>1, StepOfTask DEF TypeOK, Local
  <2>2. /\ Len(inbox') = Len(inbox)
        /\ \A k \in 1..Len(inbox) :
              /\ inbox'[k].task = IF inbox[k].task = t THEN NoTask ELSE inbox[k].task
              /\ inbox'[k].act = inbox[k].act
              /\ inbox'[k].verb = inbox[k].verb
    BY <1>4, InboxTyped, OrphanProperties DEF Timeout
  <2>3. UNCHANGED link
    BY <1>4 DEF Timeout, UnchangedRest
  <2>4. OnlyActs'
    BY <2>1, <2>2 DEF OnlyActs, Performs
  <2>5. \A k \in 1..Len(inbox) : inbox[k].task # NoTask => inbox[k].task \in Tasks
    BY InboxTyped DEF Frame
  <2>6. Addressed'
    BY <2>1, <2>2, <2>3, <2>5 DEF Addressed
  <2> QED
    BY <1>1, <1>2, <2>4, <2>6
<1> QED
  BY <1>3, <1>4

\* The first request leaves the inbox, and at most its caller is answered.
LEMMA HandleOfInbox ==
  ASSUME TypeInv, DeviceHandle
  PROVE  LET e == inbox[1] IN
         /\ 1 \in 1..Len(inbox) /\ Len(inbox) \in Nat /\ e \in Frame
         /\ Len(inbox') = Len(inbox) - 1
         /\ \A k \in 1..(Len(inbox) - 1) : inbox'[k] = inbox[k + 1]
         /\ DevicePerform(e) \/ DeviceConfigure(e) \/ DeviceReport(e) \/ DeviceRefuse(e)
<1>1. inbox \in Seq(Frame) /\ Len(inbox) \in Nat /\ inbox # <<>>
  BY InboxTyped DEF TypeInv, DeviceHandle
<1>2. Head(inbox) = inbox[1] /\ inbox' = Tail(inbox) /\ 1 \in 1..Len(inbox)
  BY <1>1 DEF DeviceHandle
<1>3. inbox[1] \in Frame
  BY <1>1, <1>2, ElementOfSeq
<1>4. /\ Len(inbox') = Len(inbox) - 1
      /\ \A k \in 1..(Len(inbox) - 1) : inbox'[k] = inbox[k + 1]
  BY <1>1, <1>2, HeadTailProperties
<1>5. \/ DevicePerform(inbox[1]) \/ DeviceConfigure(inbox[1])
      \/ DeviceReport(inbox[1]) \/ DeviceRefuse(inbox[1])
  BY <1>2 DEF DeviceHandle
<1> QED
  BY <1>1, <1>2, <1>3, <1>4, <1>5

LEMMA AnswerOfTask ==
  ASSUME TypeOK, NEW e \in Frame, NEW reply, Answer(e, reply)
  PROVE  \A s \in Tasks :
            /\ task'[s].pc = task[s].pc /\ task'[s].after = task[s].after
            /\ \/ task'[s].reply = task[s].reply
               \/ s = e.task /\ task'[s].reply = reply
<1>1. CASE e.task = NoTask \/ link # "up"
  BY <1>1 DEF Answer
<1>2. CASE e.task # NoTask /\ link = "up"
  <2>1. e.task \in Tasks
    BY <1>2 DEF Frame
  <2> DEFINE r == [task[e.task] EXCEPT !.reply = reply]
  <2>2. /\ r.pc = task[e.task].pc /\ r.after = task[e.task].after /\ r.reply = reply
    BY <2>1 DEF TypeOK, Local
  <2>3. task' = [task EXCEPT ![e.task] = r]
    BY <1>2, <2>1 DEF Answer, TypeOK
  <2> HIDE DEF r
  <2>4. \A s \in Tasks : task'[s] = IF s = e.task THEN r ELSE task[s]
    BY <2>1, <2>3 DEF TypeOK
  <2> QED
    BY <2>2, <2>4
<1> QED
  BY <1>1, <1>2

LEMMA HandleOfTask ==
  ASSUME TypeInv, DeviceHandle
  PROVE  \A s \in Tasks :
            /\ task'[s].pc = task[s].pc /\ task'[s].after = task[s].after
            /\ task'[s].reply = task[s].reply \/ s = inbox[1].task
<1> DEFINE e == inbox[1]
<1>1. /\ e \in Frame /\ TypeOK
      /\ DevicePerform(e) \/ DeviceConfigure(e) \/ DeviceReport(e) \/ DeviceRefuse(e)
  BY HandleOfInbox DEF TypeInv
<1> HIDE DEF e
<1>2. \/ UNCHANGED task
      \/ \E reply \in Failures \cup Pkgs \cup {"ok"} : Answer(e, reply)
  BY <1>1 DEF DevicePerform, DeviceConfigure, DeviceReport, DeviceRefuse, Failures
<1>3. ASSUME NEW reply, Answer(e, reply)
      PROVE  \A s \in Tasks :
                /\ task'[s].pc = task[s].pc /\ task'[s].after = task[s].after
                /\ task'[s].reply = task[s].reply \/ s = e.task
  BY <1>1, <1>3, AnswerOfTask
<1> QED
  BY <1>2, <1>3 DEF e

LEMMA HandleKeepsTypes ==
  ASSUME TypeInv, DeviceHandle
  PROVE  TypeInv'
<1> USE DEF TypeInv
<1>1. TypeOK' /\ UNCHANGED <<epoch, link>>
  BY HandleTypes DEF DeviceHandle
<1>2. MayRedial'
  BY <1>1 DEF MayRedial
<1>3. \A s \in Tasks :
         /\ task'[s].pc = task[s].pc /\ task'[s].after = task[s].after
         /\ task'[s].reply = task[s].reply \/ s = inbox[1].task
  BY HandleOfTask
<1>4. /\ 1 \in 1..Len(inbox) /\ Len(inbox) \in Nat /\ inbox[1].verb \in Requests
      /\ Len(inbox') = Len(inbox) - 1
      /\ \A k \in 1..(Len(inbox) - 1) : inbox'[k] = inbox[k + 1]
      /\ \A k \in 1..Len(inbox) : inbox[k].task \in Tasks \cup {NoTask}
      /\ NoTask \notin Tasks
  BY HandleOfInbox, InboxTyped, ControllerAssumption DEF Frame
<1>5. OnlyActs'
  BY <1>3, <1>4 DEF OnlyActs
<1>6. Addressed'
  <2>1. \A s \in Tasks : task'[s].pc \notin Requests => task'[s].reply = "none"
    BY <1>3, <1>4 DEF Addressed
  <2>2. \A k \in 1..(Len(inbox) - 1) : inbox[k + 1].task # NoTask =>
           inbox[k + 1].task \in Tasks /\ inbox[k + 1].task # inbox[1].task
    BY <1>4 DEF Addressed
  <2>3. \A k \in 1..(Len(inbox) - 1) : inbox'[k].task # NoTask =>
           /\ link' = "up"
           /\ task'[inbox'[k].task].pc = inbox'[k].verb
           /\ task'[inbox'[k].task].reply = "none"
           /\ inbox'[k].task \in Acts => inbox'[k].act = inbox'[k].task
    BY <1>1, <1>3, <1>4, <2>2 DEF Addressed
  <2>4. \A j, k \in 1..(Len(inbox) - 1) :
           inbox'[j].task # NoTask /\ inbox'[j].task = inbox'[k].task => j = k
    BY <1>4 DEF Addressed
  <2> QED
    BY <1>4, <2>1, <2>3, <2>4 DEF Addressed
<1> QED
  BY <1>1, <1>2, <1>5, <1>6

LEMMA LinkKeepsTypes ==
  ASSUME TypeInv, Link \/ \E a \in Acts : DeviceSettled(a)
  PROVE  TypeInv'
<1> USE DEF TypeInv, controllerVars
<1>1. TypeOK'
  BY LinkTypes
<1>2. CASE Drop
  <2>1. PICK n \in 0..Len(inbox) : inbox' = Severed(inbox, n)
    BY <1>2 DEF Drop, Severed
  <2>2. inbox \in Seq(Frame) /\ Len(inbox) \in Nat
    BY InboxTyped
  <2>3. /\ Len(inbox') = n /\ n <= Len(inbox)
        /\ \A k \in 1..n : /\ inbox'[k].task = NoTask /\ inbox'[k].act = inbox[k].act
                          /\ inbox'[k].verb = inbox[k].verb
    BY <2>1, <2>2, SeveredProperties
  <2>4. UNCHANGED <<task, epoch>> /\ epoch <= MaxDrops
    BY <1>2 DEF Drop
  <2>5. OnlyActs'
    BY <2>2, <2>3, <2>4 DEF OnlyActs, Performs
  <2>6. MayRedial' /\ Addressed'
    BY <2>2, <2>3, <2>4 DEF MayRedial, Addressed
  <2> QED
    BY <1>1, <2>5, <2>6
<1>3. CASE PumpEnd
  <2>1. \A s \in Tasks : /\ task'[s].pc = task[s].pc /\ task'[s].after = task[s].after
                        /\ task[s].pc \notin Requests => task'[s] = task[s]
    BY <1>3 DEF PumpEnd, TypeOK, Local
  <2>2. OnlyActs' /\ MayRedial'
    BY <1>3, <2>1 DEF PumpEnd, OnlyActs, MayRedial
  <2>3. Addressed'
    BY <1>3, <2>1 DEF PumpEnd, Addressed
  <2> QED
    BY <1>1, <2>2, <2>3
<1>4. CASE Reconnect \/ \E a \in Acts : DeviceSettled(a)
  <2>1. /\ UNCHANGED <<task, inbox>>
        /\ \/ UNCHANGED <<link, epoch>>
           \/ link = "down" /\ link' = "up"
    BY <1>4 DEF Reconnect, DeviceSettled
  <2>2. OnlyActs' /\ MayRedial'
    BY <2>1 DEF OnlyActs, MayRedial
  <2>3. Addressed'
    BY <2>1 DEF Addressed
  <2> QED
    BY <1>1, <2>2, <2>3
<1> QED
  BY <1>2, <1>3, <1>4 DEF Link

LEMMA StepCases ==
  ASSUME [Next]_vars
  PROVE  \/ \E t \in Tasks : Resumes(t)
         \/ \E t \in Tasks : UngroundedRef(t) \/ QueueAct(t) \/ Timeout(t)
         \/ DeviceHandle
         \/ Link \/ \E a \in Acts : DeviceSettled(a)
         \/ UNCHANGED vars
BY DEF Next, Start, Continue, Resumes, Device, Finished

LEMMA UnchangedKeepsTypes ==
  ASSUME TypeInv, UNCHANGED vars
  PROVE  TypeInv'
<1> USE DEF TypeInv, vars, controllerVars, deviceVars, ghostVars
<1>1. TypeOK'
  BY DEF TypeOK
<1>2. OnlyActs' /\ MayRedial' /\ Addressed'
  BY DEF OnlyActs, MayRedial, Addressed
<1> QED
  BY <1>1, <1>2

LEMMA NextKeepsTypes ==
  ASSUME TypeInv, [Next]_vars
  PROVE  TypeInv'
<1>1. ASSUME NEW t \in Tasks, Resumes(t) PROVE TypeInv'
  BY <1>1, ResumesRuns, ResumesTypes, RunsKeepTypes
<1> QED
  BY <1>1, StepCases, OtherStepsKeepTypes, HandleKeepsTypes, LinkKeepsTypes,
     UnchangedKeepsTypes

LEMMA TypesInvariant == Spec => []TypeInv
<1>1. Init => TypeInv
  <2> SUFFICES ASSUME Init PROVE TypeInv
    OBVIOUS
  <2>1. OnlyActs /\ Addressed
    BY DEF Init, Idle, OnlyActs, Addressed, LockSteps
  <2>2. MayRedial
    BY DEF Init, MayRedial
  <2> QED
    BY <2>1, <2>2, InitTypes DEF TypeInv
<1> QED
  BY <1>1, NextKeepsTypes, PTL DEF Spec

\* Every variable keeps its type: a settle streak stays within the tuner's three, a record
\* and an event are always of an act, and the device was last asked for one configuration.
THEOREM TypeCorrect == Spec => []TypeOK
BY TypesInvariant, PTL DEF TypeInv

-----------------------------------------------------------------------------
(* The configuration *)

\* What a step of a call may do to it: nothing, unless it is sent along or there is no
\* connection to send it on.
Configuring ==
    /\ UNCHANGED <<epoch, link, asked, refused>>
    /\ held' \in {held, epoch}
    /\ \/ UNCHANGED <<held, cfg, inbox>>
       \/ /\ UNCHANGED <<held, cfg>>
          /\ \E t \in Tasks, verb \in Requests \ Configures :
                inbox' = Append(inbox, Message(t, verb, cfg))
       \/ \E t \in Tasks, verb \in Configures : inbox' = Append(inbox, Message(t, verb, cfg'))
       \/ link # "up" \/ held' # epoch

LEMMA RequestConfigures ==
  ASSUME NEW t \in Tasks, NEW r, NEW verb \in Requests, Request(t, r, verb, cfg'),
         UNCHANGED <<held, epoch, link, asked, refused>>,
         verb \in Configures \/ cfg' = cfg
  PROVE  Configuring
<1>1. \/ inbox' = Append(inbox, Message(t, verb, cfg'))
      \/ UNCHANGED inbox /\ (link # "up" \/ held # epoch)
  BY DEF Request, Alive
<1>2. CASE inbox' = Append(inbox, Message(t, verb, cfg')) /\ verb \in Configures
  BY <1>2 DEF Configuring
<1>3. CASE inbox' = Append(inbox, Message(t, verb, cfg')) /\ verb \notin Configures
  <2>1. inbox' = Append(inbox, Message(t, verb, cfg)) /\ cfg' = cfg
    BY <1>3
  <2> QED
    BY <1>3, <2>1 DEF Configuring
<1>4. CASE link # "up" \/ held # epoch
  BY <1>4 DEF Configuring
<1> QED
  BY <1>1, <1>2, <1>3, <1>4

LEMMA ResumesConfigures ==
  ASSUME TypeInv, NEW t \in Tasks, Resumes(t)
  PROVE  Configuring
<1>1. UNCHANGED <<epoch, link, asked, refused>>
  BY DEF Resumes, Look, Wait, Act, ActReturn, RetryReturn, SettledReturn, WidenReturn,
         WaitReturn, WindowsReturn, ConfigureReturn, ObserveReturn, Reacquire,
         ReconfigureReturn, UnchangedRest, ghostVars
<1>2. ASSUME UNCHANGED <<held, cfg, inbox>> PROVE Configuring
  BY <1>1, <1>2 DEF Configuring
<1>3. ASSUME NEW r, NEW verb \in Requests, Request(t, r, verb, cfg), UNCHANGED <<held, cfg>>
      PROVE  Configuring
  <2>1. Request(t, r, verb, cfg')
    BY <1>3
  <2> QED
    BY <1>1, <1>3, <2>1, RequestConfigures
<1>4. ASSUME NEW r, Reobserve(t, r), UNCHANGED <<held, cfg>> PROVE Configuring
  BY <1>3, <1>4 DEF Reobserve, Requests
<1>5. {"wait", "act", "retry", "observe", "configure", "widen"} \subseteq Requests
      /\ {"configure", "widen", "reconfigure"} \subseteq Configures
  BY DEF Requests, Configures
<1>6. CASE Look(t) \/ Wait(t) \/ Act(t) \/ WaitReturn(t) \/ ActReturn(t) \/ RetryReturn(t)
  BY <1>2, <1>3, <1>4, <1>5, <1>6
  DEF Look, Wait, Act, WaitReturn, ActReturn, RetryReturn, Performed, UnchangedPolicy
<1>7. CASE \/ WidenReturn(t) \/ ConfigureReturn(t) \/ ObserveReturn(t)
           \/ ReconfigureReturn(t)
  BY <1>2, <1>3, <1>4, <1>5, <1>7
  DEF WidenReturn, ConfigureReturn, ObserveReturn, ReconfigureReturn, ObserveFailed
<1>8. CASE WindowsReturn(t)
  <2>1. CASE Request(t, task[t], "configure", cfg')
    <3>1. UNCHANGED held
      BY <1>8 DEF WindowsReturn
    <3> QED
      BY <1>1, <1>5, <2>1, <3>1, RequestConfigures
  <2>2. CASE ~Request(t, task[t], "configure", cfg')
    <3>1. /\ UNCHANGED <<held, cfg>>
          /\ ObserveFailed(t) \/ Request(t, task[t], "observe", cfg)
      BY <1>8, <2>2 DEF WindowsReturn
    <3> QED
      BY <1>2, <1>3, <1>5, <3>1 DEF ObserveFailed
  <2> QED
    BY <2>1, <2>2
<1>9. CASE SettledReturn(t)
  <2> DEFINE r == [task[t] EXCEPT !.after = "record"]
  <2>1. PICK reason \in {"quiet", "timeout"} : Tune(t, r, reason)
    BY <1>9 DEF SettledReturn
  <2>2. UNCHANGED held
    BY <1>9 DEF SettledReturn
  <2> HIDE DEF r
  <2>3. Request(t, r, "widen", cfg') \/ (Reobserve(t, r) /\ UNCHANGED cfg)
    BY <2>1 DEF Tune
  <2> QED
    BY <1>1, <1>4, <1>5, <2>2, <2>3, RequestConfigures
<1>10. CASE Reacquire(t)
  <2>1. \/ UNCHANGED <<held, cfg, inbox>>
        \/ held' = epoch /\ inbox' = Append(inbox, Message(t, "reconfigure", cfg'))
        \/ held' = epoch /\ link # "up"
    BY <1>10 DEF Reacquire
  <2> QED
    BY <1>1, <1>2, <1>5, <2>1 DEF Configuring
<1> QED
  BY <1>6, <1>7, <1>8, <1>9, <1>10 DEF Resumes

LEMMA AppendToInbox ==
  ASSUME TypeOK, NEW t \in Tasks, NEW verb \in Requests, NEW c \in Config,
         inbox' = Append(inbox, Message(t, verb, c))
  PROVE  /\ Len(inbox') = Len(inbox) + 1 /\ Len(inbox) \in Nat
         /\ \A k \in 1..Len(inbox) : inbox'[k] = inbox[k]
         /\ inbox'[Len(inbox) + 1].verb = verb
         /\ inbox'[Len(inbox) + 1].cfg = c
<1> DEFINE m == Message(t, verb, c)
<1>1. m \in Frame /\ m.verb = verb /\ m.cfg = c
  BY MessageType DEF Message
<1> HIDE DEF m
<1>2. inbox' = Append(inbox, m)
  BY DEF m
<1> QED
  BY <1>1, <1>2, InboxTyped, AppendProperties

LEMMA ConfiguringKeeps ==
  ASSUME TypeOK, TypeOK', ConfigSent, Configuring
  PROVE  ConfigSent'
<1>1. cfg \in Config /\ cfg' \in Config /\ held \in Nat /\ epoch \in Nat
  BY DEF TypeOK, Epochs
<1>2. UNCHANGED <<epoch, link, asked, refused>> /\ held' <= epoch
  BY <1>1 DEF Configuring, ConfigSent
<1>3. CASE link # "up" \/ held' # epoch
  BY <1>2, <1>3 DEF ConfigSent
<1>4. CASE UNCHANGED <<held, cfg, inbox>>
  BY <1>2, <1>4 DEF ConfigSent
<1>5. ASSUME UNCHANGED <<held, cfg>>, NEW t \in Tasks, NEW verb \in Requests \ Configures,
             inbox' = Append(inbox, Message(t, verb, cfg))
      PROVE  ConfigSent'
  <2>1. /\ Len(inbox') = Len(inbox) + 1 /\ Len(inbox) \in Nat
        /\ \A k \in 1..Len(inbox) : inbox'[k] = inbox[k]
        /\ inbox'[Len(inbox) + 1].verb \notin Configures
    BY <1>1, <1>5, AppendToInbox
  <2>2. {k \in 1..Len(inbox') : inbox'[k].verb \in Configures}
          = {k \in 1..Len(inbox) : inbox[k].verb \in Configures}
    BY <2>1
  <2> QED
    BY <1>2, <1>5, <2>1, <2>2 DEF ConfigSent
<1>6. ASSUME NEW t \in Tasks, NEW verb \in Configures,
             inbox' = Append(inbox, Message(t, verb, cfg'))
      PROVE  ConfigSent'
  <2>1. verb \in Requests
    BY DEF Configures, Requests
  <2>2. /\ Len(inbox') = Len(inbox) + 1 /\ Len(inbox) \in Nat
        /\ inbox'[Len(inbox) + 1].verb \in Configures
        /\ inbox'[Len(inbox) + 1].cfg = cfg'
    BY <1>1, <1>6, <2>1, AppendToInbox
  <2> DEFINE sent == {k \in 1..Len(inbox') : inbox'[k].verb \in Configures}
  <2>3. Len(inbox) + 1 \in sent /\ sent \subseteq 1..(Len(inbox) + 1)
    BY <2>2
  <2>4. \A k \in sent : (\A j \in sent : j <= k) => inbox'[k].cfg = cfg'
    BY <2>2, <2>3
  <2> HIDE DEF sent
  <2>5. sent # {}
    BY <2>3
  <2> QED
    BY <1>2, <2>4, <2>5 DEF ConfigSent, sent
<1> QED
  BY <1>3, <1>4, <1>5, <1>6 DEF Configuring

LEMMA HandleKeepsConfig ==
  ASSUME TypeInv, ConfigSent, DeviceHandle
  PROVE  ConfigSent'
<1> DEFINE e == inbox[1]
           sent == {k \in 1..Len(inbox) : inbox[k].verb \in Configures}
           left == {k \in 1..Len(inbox') : inbox'[k].verb \in Configures}
<1>1. /\ 1 \in 1..Len(inbox) /\ Len(inbox) \in Nat
      /\ Len(inbox') = Len(inbox) - 1
      /\ \A k \in 1..(Len(inbox) - 1) : inbox'[k] = inbox[k + 1]
      /\ DevicePerform(e) \/ DeviceConfigure(e) \/ DeviceReport(e) \/ DeviceRefuse(e)
  BY HandleOfInbox
<1>2. UNCHANGED <<held, cfg, epoch, link>>
  BY DEF DeviceHandle
<1>3. \A k \in left : k + 1 \in sent /\ inbox'[k] = inbox[k + 1]
  BY <1>1
<1>4. \A k \in sent : k = 1 \/ (k - 1 \in left /\ k - 1 \in Nat)
  BY <1>1
<1>5. left \subseteq Nat /\ sent \subseteq Nat \ {0}
  BY <1>1
<1>6. 1 \in sent <=> e.verb \in Configures
  BY <1>1
<1>7. \/ e.verb \in Configures /\ asked' = {e.cfg} /\ ~refused'
      \/ e.verb \in Configures /\ refused'
      \/ e.verb \notin Configures /\ UNCHANGED <<asked, refused>>
  <2>1. CASE DeviceRefuse(e)
    <3>1. UNCHANGED asked /\ refused' = (e.verb \in Configures \/ refused)
      BY <2>1 DEF DeviceRefuse
    <3>2. refused \in BOOLEAN
      BY DEF TypeInv, TypeOK
    <3>3. CASE e.verb \in Configures
      BY <3>1, <3>3
    <3>4. CASE e.verb \notin Configures
      BY <3>1, <3>2, <3>4
    <3> QED
      BY <3>3, <3>4
  <2>2. CASE DevicePerform(e) \/ DeviceConfigure(e) \/ DeviceReport(e)
    BY <2>2 DEF DevicePerform, DeviceConfigure, DeviceReport, Configures
  <2> QED
    BY <1>1, <2>1, <2>2
<1> HIDE DEF sent, left
<1>8. SUFFICES ASSUME held = epoch, link = "up"
               PROVE  /\ ~refused' /\ left = {} => asked' = {cfg}
                      /\ \A k \in left : (\A j \in left : j <= k) => inbox'[k].cfg = cfg
  BY <1>2 DEF ConfigSent, left
<1>9. /\ ~refused /\ sent = {} => asked = {cfg}
      /\ \A k \in sent : (\A j \in sent : j <= k) => inbox[k].cfg = cfg
  BY <1>8 DEF ConfigSent, sent
<1>10. ASSUME NEW k \in left, \A j \in left : j <= k PROVE inbox'[k].cfg = cfg
  <2>1. \A j \in sent : j <= k + 1
    BY <1>4, <1>5, <1>10
  <2> QED
    BY <1>3, <1>9, <2>1
<1>11. ASSUME ~refused', left = {} PROVE asked' = {cfg}
  <2>1. sent \subseteq {1}
    BY <1>4, <1>11
  <2>2. CASE e.verb \in Configures
    <3>1. e.cfg = cfg
      BY <1>6, <1>9, <2>1, <2>2
    <3> QED
      BY <1>7, <1>11, <2>2, <3>1
  <2>3. CASE e.verb \notin Configures
    <3>1. sent = {}
      BY <1>6, <2>1, <2>3
    <3> QED
      BY <1>7, <1>9, <1>11, <2>3, <3>1
  <2> QED
    BY <2>2, <2>3
<1> QED
  BY <1>10, <1>11

LEMMA NextKeepsConfig ==
  ASSUME TypeInv, TypeInv', ConfigSent, [Next]_vars
  PROVE  ConfigSent'
<1>0. TypeOK /\ TypeOK' /\ held \in Nat /\ epoch \in Nat
  BY DEF TypeInv, TypeOK, Epochs
<1>1. ASSUME NEW t \in Tasks, Resumes(t) PROVE ConfigSent'
  BY <1>0, <1>1, ResumesConfigures, ConfiguringKeeps
<1>2. ASSUME NEW t \in Tasks, UngroundedRef(t) \/ QueueAct(t) PROVE ConfigSent'
  <2>1. UNCHANGED <<held, cfg, epoch, link, inbox, asked, refused>>
    BY <1>2 DEF UngroundedRef, QueueAct, UnchangedPolicy, UnchangedRest, deviceVars, ghostVars
  <2> QED
    BY <2>1 DEF ConfigSent
<1>3. ASSUME NEW t \in Tasks, Timeout(t) PROVE ConfigSent'
  <2>1. UNCHANGED <<held, cfg, epoch, link, asked, refused>>
    BY <1>3 DEF Timeout, UnchangedPolicy, UnchangedRest, ghostVars
  <2>2. /\ Len(inbox') = Len(inbox)
        /\ \A k \in 1..Len(inbox) : inbox'[k].verb = inbox[k].verb /\ inbox'[k].cfg = inbox[k].cfg
    BY <1>0, <1>3, InboxTyped, OrphanProperties DEF Timeout
  <2>3. {k \in 1..Len(inbox') : inbox'[k].verb \in Configures}
          = {k \in 1..Len(inbox) : inbox[k].verb \in Configures}
    BY <2>2
  <2> QED
    BY <2>1, <2>2, <2>3 DEF ConfigSent
<1>4. CASE Link
  <2>1. held' = held /\ held' <= epoch' /\ (link' # "up" \/ held' # epoch')
    BY <1>0, <1>4 DEF Link, Drop, PumpEnd, Reconnect, controllerVars, ConfigSent
  <2> QED
    BY <2>1 DEF ConfigSent
<1>5. ASSUME NEW a \in Acts, DeviceSettled(a) PROVE ConfigSent'
  BY <1>5 DEF DeviceSettled, controllerVars, ghostVars, ConfigSent
<1>6. CASE UNCHANGED vars
  BY <1>6 DEF vars, controllerVars, deviceVars, ghostVars, ConfigSent
<1> QED
  BY <1>1, <1>2, <1>3, <1>4, <1>5, <1>6, StepCases, HandleKeepsConfig

\* The configuration the device was last asked to run is the one the controller holds, once
\* it is through what it was sent: every replacement of _scope and _settle is sent on the
\* connection it is made on, and the device takes them in the order they were sent
\* (controller.py:156-160, 209-213, 355-360).  What it then runs of the scope is the
\* operator's consent, module Consent.
THEOREM ConfigCorrect == Spec => []ConfigureIsCurrent
<1>1. Init => ConfigSent
  BY DEF Init, ConfigSent
<1>2. TypeInv /\ TypeInv' /\ ConfigSent /\ [Next]_vars => ConfigSent'
  BY NextKeepsConfig
<1>3. TypeInv /\ ConfigSent => ConfigureIsCurrent
  <2>1. TypeInv => DOMAIN inbox = 1..Len(inbox)
    BY InboxTyped DEF TypeInv
  <2> QED
    BY <2>1 DEF ConfigSent, ConfigureIsCurrent
<1> QED
  BY <1>1, <1>2, <1>3, TypesInvariant, PTL DEF Spec

-----------------------------------------------------------------------------
(* The order *)

LEMMA FollowsDistinct ==
  ASSUME NEW o, \A j, k \in 1..Len(o) : o[j] = o[k] => j = k, NEW a, NEW b, Follows(o, a, b)
  PROVE  a # b /\ \A i, j \in 1..Len(o) : o[i] = a /\ o[j] = b => i < j
BY DEF Follows

LEMMA WithinFollows ==
  ASSUME NEW o \in Seq(Acts), NEW n \in Nat, n + 1 <= Len(o), NEW a,
         Within(o, n + 1, a), a # o[n + 1]
  PROVE  Follows(o, a, o[n + 1])
BY DEF Within, Follows

LEMMA OrderGrows ==
  ASSUME NEW o \in Seq(Acts), NEW x \in Acts
  PROVE  /\ \A n \in Int : \A a : Within(o, n, a) => Within(Append(o, x), n, a)
         /\ \A a, b : Follows(o, a, b) => Follows(Append(o, x), a, b)
<1>1. Len(Append(o, x)) = Len(o) + 1 /\ \A k \in 1..Len(o) : Append(o, x)[k] = o[k]
  BY AppendProperties
<1> QED
  BY <1>1 DEF Within, Follows

LEMMA Lengths ==
  ASSUME TypeOK
  PROVE  /\ Len(lockQueue) \in Nat /\ Len(order) \in Nat /\ Len(performed) \in Nat
         /\ Len(audit) \in Nat /\ Len(inbox) \in Nat
         /\ \A k \in 1..Len(lockQueue) : lockQueue[k] \in Acts
         /\ \A k \in 1..Len(order) : order[k] \in Acts
BY DEF TypeOK

\* A call that may go on holds the lock, if it is an act.
LEMMA ReadyHolds ==
  ASSUME TypeInv, LockHeld, NEW t \in Tasks, Ready(t)
  PROVE  /\ t \in Acts => /\ lockQueue # <<>> /\ Len(lockQueue) >= 1
                         /\ lockQueue[1] = t /\ Ended(t) = Tail(lockQueue)
         /\ t \notin Acts => Ended(t) = lockQueue
<1>1. lockQueue \in Seq(Acts)
  BY DEF TypeInv, TypeOK
<1>2. CASE t \in Acts
  <2>1. task[t].pc \notin {"idle", "done"}
    BY <1>2 DEF Ready
  <2>2. Len(lockQueue) >= 1
    BY <1>1, <1>2, <2>1 DEF LockHeld
  <2>3. lockQueue # <<>> /\ Head(lockQueue) = lockQueue[1]
    BY <1>1, <2>2
  <2>4. lockQueue[1] = t
    BY <1>2, <2>1, <2>3 DEF LockHeld, Ready, HoldsLock
  <2> QED
    BY <1>2, <2>2, <2>3, <2>4 DEF Ended, HoldsLock
<1>3. CASE t \notin Acts
  <2>1. lockQueue # <<>> => Head(lockQueue) \in Acts
    BY <1>1, HeadTailProperties
  <2> QED
    BY <1>3, <2>1 DEF Ended, HoldsLock
<1> QED
  BY <1>2, <1>3

\* The lock goes to the next act in line when its holder ends.
LEMMA EndKeepsLock ==
  ASSUME TypeInv, LockHeld, QueueIsOrder, NEW t \in Tasks, Ready(t), End(t),
         UNCHANGED order
  PROVE  /\ LockHeld' /\ QueueIsOrder'
         /\ t \in Acts => /\ Before' = Before + 1 /\ Before \in Nat
                         /\ Before + 1 <= Len(order) /\ order[Before + 1] = t
         /\ t \notin Acts => Before' = Before
<1> USE DEF TypeInv
<1>1. /\ \A s \in Tasks \ {t} : task'[s] = task[s]
      /\ task'[t].pc = "done"
  <2> DEFINE d == [Idle EXCEPT !.pc = "done"]
  <2>1. d.pc = "done" /\ Step(t, d)
    BY DEF End, Idle
  <2> HIDE DEF d
  <2> QED
    BY <2>1, StepOfTask
<1>2. /\ Len(lockQueue) \in Nat /\ Len(order) \in Nat /\ lockQueue \in Seq(Acts)
      /\ \A k \in 1..Len(lockQueue) : lockQueue[k] \in Acts
      /\ \A k \in 1..Len(order) : order[k] \in Acts
      /\ Acts \subseteq Tasks
  BY Lengths DEF TypeOK, Tasks
<1>3. lockQueue' = Ended(t)
  BY DEF End
<1>4. CASE t \in Acts
  <2>1. /\ lockQueue # <<>> /\ Len(lockQueue) >= 1 /\ lockQueue[1] = t
        /\ lockQueue' = Tail(lockQueue)
    BY <1>3, <1>4, ReadyHolds
  <2>2. /\ Len(lockQueue') = Len(lockQueue) - 1
        /\ \A k \in 1..(Len(lockQueue) - 1) : lockQueue'[k] = lockQueue[k + 1]
    BY <1>2, <2>1, HeadTailProperties
  <2>3. /\ Before' = Before + 1 /\ Before \in Nat /\ Before + 1 <= Len(order)
        /\ order[Before + 1] = t
    BY <1>2, <2>1, <2>2 DEF Before, QueueIsOrder
  <2>4. \A k \in 1..(Len(lockQueue) - 1) : lockQueue[k + 1] # t
    BY <1>2, <2>1, <2>3 DEF QueueIsOrder, Before
  <2>5. QueueIsOrder'
    <3>1. \A k \in 1..Len(lockQueue') : lockQueue'[k] = order[Before + 1 + k]
      <4> TAKE k \in 1..Len(lockQueue')
      <4>1. k + 1 \in 1..Len(lockQueue) /\ lockQueue'[k] = lockQueue[k + 1]
        BY <1>2, <2>2
      <4>2. lockQueue[k + 1] = order[Before + (k + 1)]
        BY <4>1 DEF QueueIsOrder
      <4> QED
        BY <2>3, <4>1, <4>2
    <3>2. \A k \in 1..Len(order) : task'[order[k]].pc # "idle"
      BY <1>1, <1>2 DEF QueueIsOrder
    <3>3. Len(lockQueue') <= Len(order)
      BY <1>2, <2>2 DEF QueueIsOrder
    <3> QED
      BY <2>3, <3>1, <3>2, <3>3 DEF QueueIsOrder
  <2>6. \A s \in Acts : task'[s].pc \notin {"idle", "done"} =>
           \E k \in 1..Len(lockQueue') : lockQueue'[k] = s
    <3> SUFFICES ASSUME NEW s \in Acts, task'[s].pc \notin {"idle", "done"}
                 PROVE  \E k \in 1..Len(lockQueue') : lockQueue'[k] = s
      OBVIOUS
    <3>1. s # t /\ task'[s] = task[s]
      BY <1>1, <1>2
    <3>2. PICK k \in 1..Len(lockQueue) : lockQueue[k] = s
      BY <3>1 DEF LockHeld
    <3>3. k - 1 \in 1..Len(lockQueue') /\ lockQueue'[k - 1] = s
      BY <1>2, <2>1, <2>2, <3>1, <3>2
    <3> QED
      BY <3>3
  <2>7. LockHeld'
    <3>1. \A s \in Acts : task'[s].pc \in {"idle", "done", "queued"}
      BY <1>1, <1>2, <2>1 DEF LockHeld
    <3>2. \A k \in 1..Len(lockQueue') : task'[lockQueue'[k]].pc \notin {"idle", "done"}
      <4> TAKE k \in 1..Len(lockQueue')
      <4>1. k + 1 \in 1..Len(lockQueue) /\ lockQueue'[k] = lockQueue[k + 1] /\ k + 1 \in Int
            /\ lockQueue[k + 1] # t
        BY <1>2, <2>2, <2>4
      <4> QED
        BY <1>1, <1>2, <4>1 DEF LockHeld
    <3> QED
      BY <2>6, <3>1, <3>2 DEF LockHeld
  <2> QED
    BY <1>4, <2>3, <2>5, <2>7
<1>5. CASE t \notin Acts
  <2>1. lockQueue' = lockQueue
    BY <1>3, <1>5, ReadyHolds
  <2>2. \A s \in Acts : task'[s] = task[s]
    BY <1>1, <1>2, <1>5
  <2>3. LockHeld' /\ QueueIsOrder' /\ Before' = Before
    BY <1>2, <2>1, <2>2 DEF LockHeld, QueueIsOrder, Before
  <2> QED
    BY <1>5, <2>3
<1> QED
  BY <1>4, <1>5

LEMMA WithinMore ==
  ASSUME NEW o, NEW n \in Int, NEW m \in Int, n <= m, NEW a, Within(o, n, a),
         Len(o) \in Nat
  PROVE  Within(o, m, a)
BY DEF Within

\* A call that ends leaves what was performed in order, and may add itself to the trail.
LEMMA EndKeepsOrder ==
  ASSUME TypeInv, TypeInv', OrderInv, NEW t \in Tasks, Ready(t), End(t), Records(t),
         UNCHANGED <<inbox, link, performed, order>>
  PROVE  OrderInv'
<1> USE DEF TypeInv, OrderInv
<1>0. /\ Len(order) \in Nat /\ Len(performed) \in Nat /\ Len(audit) \in Nat
      /\ Len(lockQueue) \in Nat /\ audit \in Seq(Acts)
      /\ Before \in Int
  BY Lengths DEF TypeOK, Before
<1>1. /\ LockHeld' /\ QueueIsOrder'
      /\ t \in Acts => /\ Before' = Before + 1 /\ Before \in Nat
                      /\ Before + 1 <= Len(order) /\ order[Before + 1] = t
      /\ t \notin Acts => Before' = Before
  BY EndKeepsLock
<1>2. /\ \A s \in Tasks \ {t} : task'[s] = task[s]
      /\ task'[t].pc = "done" /\ task'[t].reply = "none" /\ task'[t].after = "return"
  <2> DEFINE d == [Idle EXCEPT !.pc = "done"]
  <2>1. d.pc = "done" /\ d.reply = "none" /\ d.after = "return" /\ Step(t, d)
    BY DEF End, Idle
  <2> HIDE DEF d
  <2> QED
    BY <2>1, StepOfTask
<1>3. \A a : /\ Within(order, Before + 1, a) => Within(order, Before' + 1, a)
             /\ Within(order, Before, a) => Within(order, Before', a)
  BY <1>0, <1>1, WithinMore
<1>4. SentInOrder'
  BY <1>3 DEF SentInOrder
<1>5. \A s \in Tasks : (ToSend(s)' => ToSend(s)) /\ (Succeeded(s)' => Succeeded(s))
  BY <1>2 DEF ToSend, Succeeded
<1>6. SentOnce'
  BY <1>5 DEF SentOnce, Tasks
<1>7. RecordsPerformed'
  BY <1>5 DEF RecordsPerformed
<1>8. AuditInOrder'
  <2>1. CASE UNCHANGED audit
    BY <1>3, <2>1 DEF AuditInOrder
  <2>2. CASE task[t].after = "record" /\ audit' = Append(audit, t)
    <3>1. t \in Acts /\ \E k \in 1..Len(performed) : performed[k] = t
      BY <2>2 DEF RecordsPerformed, Succeeded
    <3>2. /\ Len(audit') = Len(audit) + 1 /\ audit'[Len(audit) + 1] = t
          /\ \A k \in 1..Len(audit) : audit'[k] = audit[k]
      BY <1>0, <2>2, <3>1, AppendProperties
    <3>3. Within(order, Before', t)
      BY <1>0, <1>1, <3>1 DEF Within
    <3>4. \A k \in 1..Len(audit) : Follows(order, audit[k], t)
      BY <1>0, <1>1, <3>1 DEF AuditInOrder, Within, Follows
    <3>5. \A k \in 1..Len(audit') : /\ Within(order, Before', audit'[k])
                                  /\ \E i \in 1..Len(performed) : performed[i] = audit'[k]
      <4> TAKE k \in 1..Len(audit')
      <4>1. CASE k \in 1..Len(audit)
        BY <1>3, <3>2, <4>1 DEF AuditInOrder
      <4>2. CASE k = Len(audit) + 1
        BY <3>1, <3>2, <3>3, <4>2
      <4> QED
        BY <1>0, <3>2, <4>1, <4>2
    <3>6. \A j, k \in 1..Len(audit') : j < k => Follows(order, audit'[j], audit'[k])
      <4> TAKE j, k \in 1..Len(audit')
      <4>1. CASE k \in 1..Len(audit)
        <5>1. j < k => j \in 1..Len(audit)
          BY <1>0, <3>2, <4>1
        <5>2. j < k => Follows(order, audit[j], audit[k])
          BY <4>1, <5>1 DEF AuditInOrder
        <5> QED
          BY <3>2, <4>1, <5>1, <5>2
      <4>2. CASE k = Len(audit) + 1
        BY <1>0, <3>2, <3>4, <4>2
      <4> QED
        BY <1>0, <3>2, <4>1, <4>2
    <3> QED
      BY <3>5, <3>6 DEF AuditInOrder
  <2> QED
    BY <2>1, <2>2 DEF Records
<1> QED
  BY <1>1, <1>4, <1>6, <1>7, <1>8

\* A call that goes on to an act sends the holder of the lock, which was not sent before.
LEMMA GoKeepsOrder ==
  ASSUME TypeInv, TypeInv', OrderInv, NEW t \in Tasks, Ready(t),
         \A s \in Tasks \ {t} : task'[s] = task[s], Goes(t, task'[t]),
         \/ Sends(t, task'[t])
         \/ UNCHANGED inbox,
         UNCHANGED <<lockQueue, link, performed, order, audit>>
  PROVE  OrderInv'
<1> USE DEF TypeInv, OrderInv
<1> DEFINE r == task'[t]
           n == Len(inbox)
<1>0. /\ Len(order) \in Nat /\ Len(performed) \in Nat /\ Len(lockQueue) \in Nat
      /\ n \in Nat /\ order \in Seq(Acts) /\ r \in Local
      /\ Acts \subseteq Tasks /\ Before \in Int /\ Before' = Before
      /\ \A k \in 1..Len(lockQueue) : lockQueue[k] \in Acts
      /\ \A k \in 1..Len(order) : order[k] \in Acts
  BY Lengths DEF TypeOK, Before, Tasks
<1>1. r.pc \notin {"idle", "done", "queued"} /\ r.reply = "none"
  BY DEF Goes, Requests
<1>2. t \in Acts => Len(lockQueue) >= 1 /\ lockQueue[1] = t
  BY ReadyHolds
<1> HIDE DEF r
<1>3. \A s \in Tasks : task'[s] = IF s = t THEN r ELSE task[s]
  BY DEF r
<1>4. LockHeld'
  <2>1. \A s \in Acts : task'[s].pc \notin {"idle", "done"} =>
           \E k \in 1..Len(lockQueue) : lockQueue[k] = s
    BY <1>0, <1>2, <1>3 DEF LockHeld
  <2>2. \A s \in Acts : task'[s].pc \notin {"idle", "done", "queued"} => lockQueue[1] = s
    BY <1>0, <1>2, <1>3 DEF LockHeld
  <2>3. \A k \in 1..Len(lockQueue) : task'[lockQueue[k]].pc \notin {"idle", "done"}
    BY <1>0, <1>1, <1>3 DEF LockHeld
  <2> QED
    BY <2>1, <2>2, <2>3 DEF LockHeld
<1>5. QueueIsOrder'
  <2>1. \A k \in 1..Len(order) : task'[order[k]].pc # "idle"
    BY <1>0, <1>1, <1>3 DEF QueueIsOrder
  <2> QED
    BY <1>0, <2>1 DEF QueueIsOrder
<1>6. \A s \in Tasks : (ToSend(s)' => ToSend(s) /\ s # t) /\ (Succeeded(s)' => Succeeded(s))
  <2>1. ~ToSend(t)' /\ (Succeeded(t)' => Succeeded(t))
    BY <1>1, <1>3 DEF ToSend, Succeeded, Goes, r
  <2>2. \A s \in Tasks \ {t} : (ToSend(s)' => ToSend(s)) /\ (Succeeded(s)' => Succeeded(s))
    BY DEF ToSend, Succeeded
  <2> QED
    BY <2>1, <2>2
<1>7. RecordsPerformed'
  BY <1>6 DEF RecordsPerformed
<1>8. AuditInOrder'
  BY <1>0 DEF AuditInOrder
<1>9. CASE UNCHANGED inbox
  BY <1>0, <1>4, <1>5, <1>6, <1>7, <1>8, <1>9 DEF SentInOrder, SentOnce
<1>10. CASE Sends(t, r)
  <2>1. /\ Len(inbox') = n + 1 /\ \A k \in 1..n : inbox'[k] = inbox[k]
        /\ inbox'[n + 1].verb = r.pc
        /\ inbox'[n + 1].act = IF t \in Acts THEN t ELSE NoTask
    BY <1>0, <1>10, SendsOfInbox
  <2>2. Performs(inbox'[n + 1]) =>
          /\ t \in Acts /\ inbox'[n + 1].act = t /\ ToSend(t)
          /\ Before \in Nat /\ Before + 1 <= Len(order) /\ order[Before + 1] = t
    <3>1. ASSUME Performs(inbox'[n + 1]) PROVE t \in Acts /\ ToSend(t)
      BY <2>1, <3>1 DEF Performs, Goes, LockSteps, r
    <3>2. t \in Acts => Before \in Nat /\ Before + 1 <= Len(order) /\ order[Before + 1] = t
      BY <1>0, <1>2 DEF QueueIsOrder, Before
    <3> QED
      BY <2>1, <3>1, <3>2
  <2>3. Performs(inbox'[n + 1]) =>
          /\ Within(order, Before + 1, t)
          /\ \A k \in 1..Len(performed) : Follows(order, performed[k], t)
          /\ \A k \in 1..n : Performs(inbox[k]) => Follows(order, inbox[k].act, t)
    <3> SUFFICES ASSUME Performs(inbox'[n + 1])
                 PROVE  /\ Within(order, Before + 1, t)
                        /\ \A k \in 1..Len(performed) : Follows(order, performed[k], t)
                        /\ \A k \in 1..n : Performs(inbox[k]) => Follows(order, inbox[k].act, t)
      OBVIOUS
    <3>1. Within(order, Before + 1, t)
      BY <1>0, <2>2 DEF Within
    <3>2. /\ \A k \in 1..Len(performed) : performed[k] # t
          /\ \A k \in 1..n : Performs(inbox[k]) => inbox[k].act # t
      BY <2>2 DEF SentOnce
    <3>3. \A a : Within(order, Before + 1, a) /\ a # t => Follows(order, a, t)
      BY <1>0, <2>2, WithinFollows
    <3> QED
      BY <3>1, <3>2, <3>3 DEF SentInOrder
  <2>4. SentInOrder'
    <3>0. /\ n \in Nat /\ Len(inbox') = n + 1
          /\ \A k \in 1..Len(inbox') : (k \in 1..n /\ inbox'[k] = inbox[k]) \/ k = n + 1
          /\ Performs(inbox'[n + 1]) => inbox'[n + 1].act = t
      BY <1>0, <2>1, <2>2
    <3>1. \A k \in 1..Len(inbox') : Performs(inbox'[k]) => Within(order, Before + 1, inbox'[k].act)
      BY <1>0, <2>3, <3>0 DEF SentInOrder
    <3>2. ASSUME NEW j \in 1..Len(inbox'), NEW k \in 1..Len(inbox'), j < k,
                 Performs(inbox'[j]), Performs(inbox'[k])
          PROVE  Follows(order, inbox'[j].act, inbox'[k].act)
      <4>1. j \in 1..n /\ inbox'[j] = inbox[j]
        BY <3>0, <3>2
      <4>2. CASE k \in 1..n /\ inbox'[k] = inbox[k]
        BY <1>0, <3>2, <4>1, <4>2 DEF SentInOrder
      <4>3. CASE k = n + 1
        BY <2>3, <3>0, <3>2, <4>1, <4>3
      <4> QED
        BY <3>0, <4>2, <4>3
    <3>3. \A j \in 1..Len(performed), k \in 1..Len(inbox') :
             Performs(inbox'[k]) => Follows(order, performed[j], inbox'[k].act)
      BY <1>0, <2>3, <3>0 DEF SentInOrder
    <3> QED
      BY <1>0, <3>1, <3>2, <3>3 DEF SentInOrder
  <2>5. SentOnce'
    <3> SUFFICES ASSUME NEW s \in Acts, ToSend(s)'
                 PROVE  /\ \A k \in 1..Len(performed) : performed[k] # s
                        /\ \A k \in 1..Len(inbox') : Performs(inbox'[k]) => inbox'[k].act # s
      BY DEF SentOnce
    <3>1. ToSend(s) /\ s # t
      BY <1>0, <1>6
    <3>2. /\ \A k \in 1..Len(performed) : performed[k] # s
          /\ \A k \in 1..n : Performs(inbox[k]) => inbox[k].act # s
      BY <3>1 DEF SentOnce
    <3>3. \A k \in 1..Len(inbox') : Performs(inbox'[k]) => inbox'[k].act # s
      <4> TAKE k \in 1..Len(inbox')
      <4>1. CASE k \in 1..n
        BY <2>1, <3>2, <4>1
      <4>2. CASE k = n + 1
        BY <2>2, <3>1, <4>2
      <4> QED
        BY <1>0, <2>1, <4>1, <4>2
    <3> QED
      BY <3>2, <3>3
  <2> QED
    BY <1>4, <1>5, <1>7, <1>8, <2>4, <2>5
<1> QED
  BY <1>9, <1>10 DEF r

LEMMA RunsKeepOrder ==
  ASSUME TypeInv, TypeInv', OrderInv, NEW t \in Tasks, Runs(t)
  PROVE  OrderInv'
<1>1. /\ Ready(t) /\ Records(t) /\ UNCHANGED <<link, performed, order>> /\ TypeOK
  BY DEF Runs, TypeInv
<1>2. /\ \A s \in Tasks \ {t} : task'[s] = task[s]
      /\ \/ End(t) /\ UNCHANGED inbox
         \/ /\ Goes(t, task'[t]) /\ UNCHANGED lockQueue
            /\ \/ Sends(t, task'[t])
               \/ UNCHANGED inbox
  BY <1>1, MovesOfTask DEF Runs
<1>3. CASE End(t) /\ UNCHANGED inbox
  BY <1>1, <1>3, EndKeepsOrder
<1>4. CASE ~(End(t) /\ UNCHANGED inbox)
  <2>1. Goes(t, task'[t])
    BY <1>2, <1>4
  <2>2. UNCHANGED audit
    <3>1. ASSUME End(t) PROVE FALSE
      <4> DEFINE d == [Idle EXCEPT !.pc = "done"]
      <4>1. d.pc = "done" /\ Step(t, d)
        BY <3>1 DEF End, Idle
      <4> HIDE DEF d
      <4>2. task'[t].pc = "done"
        BY <1>1, <4>1, StepOfTask
      <4> QED
        BY <2>1, <4>2 DEF Goes, Requests
    <3> QED
      BY <1>1, <3>1 DEF Records
  <2> QED
    BY <1>1, <1>2, <1>4, <2>1, <2>2, GoKeepsOrder
<1> QED
  BY <1>3, <1>4

\* A step that queues nothing, sends nothing and lets no more of the calls send or record.
LEMMA QuietKeepsOrder ==
  ASSUME TypeInv, OrderInv, UNCHANGED <<lockQueue, performed, order, audit>>,
         \A s \in Tasks : \/ task'[s].pc = task[s].pc
                          \/ task[s].pc = "idle" /\ task'[s].pc = "done",
         \A s \in Tasks : (ToSend(s)' => ToSend(s)) /\ (Succeeded(s)' => Succeeded(s)),
         Len(inbox') \in Nat, Len(inbox') <= Len(inbox),
         \A k \in 1..Len(inbox') : inbox'[k].verb = inbox[k].verb /\ inbox'[k].act = inbox[k].act
  PROVE  OrderInv'
<1> USE DEF TypeInv, OrderInv
<1>0. /\ Len(order) \in Nat /\ Len(lockQueue) \in Nat /\ Len(inbox) \in Nat
      /\ Acts \subseteq Tasks /\ Before' = Before
      /\ \A k \in 1..Len(lockQueue) : lockQueue[k] \in Acts
      /\ \A k \in 1..Len(order) : order[k] \in Acts
      /\ \A k \in 1..Len(inbox') : Performs(inbox'[k]) => Performs(inbox[k])
  BY Lengths DEF Before, Tasks, Performs
<1>1. LockHeld'
  BY <1>0 DEF LockHeld
<1>2. QueueIsOrder'
  <2>1. \A k \in 1..Len(order) : task'[order[k]].pc # "idle"
    BY <1>0 DEF QueueIsOrder
  <2> QED
    BY <1>0, <2>1 DEF QueueIsOrder
<1>3. SentInOrder'
  BY <1>0 DEF SentInOrder
<1>4. SentOnce'
  <2> SUFFICES ASSUME NEW s \in Acts, ToSend(s)'
               PROVE  /\ \A k \in 1..Len(performed) : performed[k] # s
                      /\ \A k \in 1..Len(inbox') : Performs(inbox'[k]) => inbox'[k].act # s
    BY DEF SentOnce
  <2>1. ToSend(s)
    BY <1>0
  <2>2. /\ \A k \in 1..Len(performed) : performed[k] # s
        /\ \A k \in 1..Len(inbox) : Performs(inbox[k]) => inbox[k].act # s
    BY <2>1 DEF SentOnce
  <2> QED
    BY <1>0, <2>2
<1>5. RecordsPerformed' /\ AuditInOrder'
  BY <1>0 DEF RecordsPerformed, AuditInOrder
<1> QED
  BY <1>1, <1>2, <1>3, <1>4, <1>5

LEMMA UngroundedRefKeepsOrder ==
  ASSUME TypeInv, OrderInv, NEW t \in Tasks, UngroundedRef(t)
  PROVE  OrderInv'
<1>1. TypeOK /\ task[t] \in Local /\ task[t].pc = "idle"
  BY DEF TypeInv, TypeOK, UngroundedRef
<1> DEFINE r == [task[t] EXCEPT !.pc = "done"]
<1>2. r.pc = "done" /\ r.after = task[t].after /\ Step(t, r)
  BY <1>1 DEF UngroundedRef, Local
<1> HIDE DEF r
<1>3. \A s \in Tasks : task'[s] = IF s = t THEN r ELSE task[s]
  BY <1>1, <1>2, StepOfTask
<1>4. \A s \in Tasks : (ToSend(s)' => ToSend(s)) /\ (Succeeded(s)' => Succeeded(s))
  BY <1>2, <1>3 DEF ToSend, Succeeded
<1>5. UNCHANGED <<lockQueue, performed, order, audit, inbox>>
  BY DEF UngroundedRef, UnchangedPolicy, UnchangedRest, ghostVars
<1>6. Len(inbox) \in Nat
  BY <1>1, Lengths
<1> QED
  BY <1>1, <1>2, <1>3, <1>4, <1>5, <1>6, QuietKeepsOrder

LEMMA TimeoutKeepsOrder ==
  ASSUME TypeInv, OrderInv, NEW t \in Tasks, Timeout(t)
  PROVE  OrderInv'
<1>1. TypeOK /\ task[t] \in Local /\ task[t].pc \in Requests
  BY DEF TypeInv, TypeOK, Timeout, Timed
<1> DEFINE r == [task[t] EXCEPT !.reply = "timeout"]
<1>2. r.pc = task[t].pc /\ r.after = task[t].after /\ r.reply = "timeout" /\ Step(t, r)
  BY <1>1 DEF Timeout, Local
<1> HIDE DEF r
<1>3. \A s \in Tasks : task'[s] = IF s = t THEN r ELSE task[s]
  BY <1>1, <1>2, StepOfTask
<1>4. \A s \in Tasks : (ToSend(s)' => ToSend(s)) /\ (Succeeded(s)' => Succeeded(s))
  BY <1>1, <1>2, <1>3 DEF ToSend, Succeeded, Requests, Failures
<1>5. UNCHANGED <<lockQueue, performed, order, audit>>
  BY DEF Timeout, UnchangedPolicy, UnchangedRest, ghostVars
<1>6. /\ Len(inbox') = Len(inbox) /\ Len(inbox) \in Nat
      /\ \A k \in 1..Len(inbox) : inbox'[k].verb = inbox[k].verb /\ inbox'[k].act = inbox[k].act
  BY <1>1, InboxTyped, OrphanProperties DEF Timeout
<1> QED
  BY <1>2, <1>3, <1>4, <1>5, <1>6, QuietKeepsOrder

LEMMA LinkKeepsOrder ==
  ASSUME TypeInv, OrderInv, Link \/ \E a \in Acts : DeviceSettled(a)
  PROVE  OrderInv'
<1>0. TypeOK /\ Len(inbox) \in Nat
  BY Lengths DEF TypeInv
<1>1. UNCHANGED <<lockQueue, performed, order, audit>>
  BY DEF Link, Drop, PumpEnd, Reconnect, DeviceSettled, controllerVars, ghostVars
<1>2. \A s \in Tasks : /\ task'[s].pc = task[s].pc /\ task'[s].after = task[s].after
                      /\ task'[s].reply \in {task[s].reply, "offline"}
  <2>1. CASE PumpEnd
    BY <1>0, <2>1 DEF PumpEnd, TypeOK, Local
  <2>2. CASE Drop \/ Reconnect \/ \E a \in Acts : DeviceSettled(a)
    BY <2>2 DEF Drop, Reconnect, DeviceSettled, controllerVars
  <2> QED
    BY <2>1, <2>2 DEF Link
<1>3. \A s \in Tasks : (ToSend(s)' => ToSend(s)) /\ (Succeeded(s)' => Succeeded(s))
  BY <1>2 DEF ToSend, Succeeded, Failures
<1>4. /\ Len(inbox') \in Nat /\ Len(inbox') <= Len(inbox)
      /\ \A k \in 1..Len(inbox') : inbox'[k].verb = inbox[k].verb /\ inbox'[k].act = inbox[k].act
  <2>1. CASE Drop
    <3>1. PICK n \in 0..Len(inbox) : inbox' = Severed(inbox, n)
      BY <2>1 DEF Drop, Severed
    <3>2. inbox \in Seq(Frame)
      BY <1>0, InboxTyped
    <3> QED
      BY <1>0, <3>1, <3>2, SeveredProperties
  <2>2. CASE ~Drop
    <3>1. UNCHANGED inbox
      BY <2>2 DEF Link, PumpEnd, Reconnect, DeviceSettled
    <3> QED
      BY <1>0, <3>1
  <2> QED
    BY <2>1, <2>2
<1> QED
  BY <1>1, <1>2, <1>3, <1>4, QuietKeepsOrder

\* An act that joins the queue is last in the order too, and new to it.
LEMMA QueueActKeepsOrder ==
  ASSUME TypeInv, OrderInv, NEW t \in Tasks, QueueAct(t)
  PROVE  OrderInv'
<1> USE DEF TypeInv, OrderInv
<1> DEFINE n == Len(order)
           l == Len(lockQueue)
<1>0. /\ n \in Nat /\ l \in Nat /\ Len(performed) \in Nat /\ Len(audit) \in Nat
      /\ Len(inbox) \in Nat /\ order \in Seq(Acts) /\ lockQueue \in Seq(Acts)
      /\ Acts \subseteq Tasks /\ t \in Acts /\ Before \in Int
      /\ \A k \in 1..l : lockQueue[k] \in Acts
      /\ \A k \in 1..n : order[k] \in Acts
  BY Lengths DEF TypeOK, Before, Tasks, QueueAct
<1>1. /\ lockQueue' = Append(lockQueue, t) /\ order' = Append(order, t)
      /\ UNCHANGED <<performed, inbox, audit>>
  BY DEF QueueAct, deviceVars
<1>2. /\ Len(lockQueue') = l + 1 /\ lockQueue'[l + 1] = t
      /\ \A k \in 1..l : lockQueue'[k] = lockQueue[k]
      /\ Len(order') = n + 1 /\ order'[n + 1] = t
      /\ \A k \in 1..n : order'[k] = order[k]
  BY <1>0, <1>1, AppendProperties
<1>3. Before' = Before /\ Before >= 0
  BY <1>0, <1>2 DEF Before, QueueIsOrder
<1>4. /\ task'[t].pc = "queued" /\ task[t].pc = "idle" /\ task'[t].after = task[t].after
      /\ \A s \in Tasks \ {t} : task'[s] = task[s]
  <2> DEFINE r == [task[t] EXCEPT !.pc = "queued"]
  <2>1. r.pc = "queued" /\ r.after = task[t].after /\ Step(t, r) /\ task[t].pc = "idle"
    BY DEF QueueAct, TypeOK, Local
  <2> HIDE DEF r
  <2> QED
    BY <2>1, StepOfTask
<1>5. /\ \A k \in 1..n : order[k] # t
      /\ \A k \in 1..l : lockQueue[k] # t
  BY <1>4 DEF QueueIsOrder, LockHeld
<1>6. /\ \A m \in Int : \A a : Within(order, m, a) => Within(order', m, a)
      /\ \A a, b : Follows(order, a, b) => Follows(order', a, b)
  BY <1>0, <1>1, OrderGrows
<1> HIDE DEF n, l
<1>7. LockHeld'
  <2>1. \A s \in Acts : task'[s].pc \notin {"idle", "done"} =>
           \E k \in 1..(l + 1) : lockQueue'[k] = s
    <3> SUFFICES ASSUME NEW s \in Acts, task'[s].pc \notin {"idle", "done"}
                 PROVE  \E k \in 1..(l + 1) : lockQueue'[k] = s
      OBVIOUS
    <3>1. CASE s = t
      BY <1>0, <1>2, <3>1
    <3>2. CASE s # t
      <4>1. PICK k \in 1..l : lockQueue[k] = s
        BY <1>0, <1>4, <3>2 DEF LockHeld, l
      <4> QED
        BY <1>0, <1>2, <4>1
    <3> QED
      BY <3>1, <3>2
  <2>2. \A s \in Acts : task'[s].pc \notin {"idle", "done", "queued"} => lockQueue'[1] = s
    <3> SUFFICES ASSUME NEW s \in Acts, task'[s].pc \notin {"idle", "done", "queued"}
                 PROVE  lockQueue'[1] = s
      OBVIOUS
    <3>1. s # t /\ task'[s] = task[s]
      BY <1>0, <1>4
    <3>2. lockQueue[1] = s /\ \E k \in 1..l : lockQueue[k] = s
      BY <3>1 DEF LockHeld, l
    <3>3. 1 \in 1..l
      BY <1>0, <3>2
    <3> QED
      BY <1>2, <3>2, <3>3
  <2>3. \A k \in 1..(l + 1) : task'[lockQueue'[k]].pc \notin {"idle", "done"}
    <3> TAKE k \in 1..(l + 1)
    <3>1. CASE k \in 1..l
      BY <1>0, <1>2, <1>4, <1>5, <3>1 DEF LockHeld, l
    <3>2. CASE k = l + 1
      BY <1>2, <1>4, <3>2
    <3> QED
      BY <1>0, <3>1, <3>2
  <2> QED
    BY <1>2, <2>1, <2>2, <2>3 DEF LockHeld
<1>8. QueueIsOrder'
  <2>1. \A k \in 1..(l + 1) : lockQueue'[k] = order'[Before + k]
    <3> TAKE k \in 1..(l + 1)
    <3>1. CASE k \in 1..l
      <4>1. lockQueue[k] = order[Before + k] /\ Before + k \in 1..n
        BY <1>0, <1>3, <3>1 DEF QueueIsOrder, Before, n, l
      <4> QED
        BY <1>2, <3>1, <4>1
    <3>2. CASE k = l + 1
      BY <1>0, <1>2, <3>2 DEF Before, n, l
    <3> QED
      BY <1>0, <3>1, <3>2
  <2>2. \A j, k \in 1..(n + 1) : order'[j] = order'[k] => j = k
    BY <1>0, <1>2, <1>5 DEF QueueIsOrder, n
  <2>3. \A k \in 1..(n + 1) : task'[order'[k]].pc # "idle"
    <3> TAKE k \in 1..(n + 1)
    <3>1. CASE k \in 1..n
      BY <1>0, <1>2, <1>4, <1>5, <3>1 DEF QueueIsOrder, n
    <3>2. CASE k = n + 1
      BY <1>2, <1>4, <3>2
    <3> QED
      BY <1>0, <3>1, <3>2
  <2>4. l + 1 <= n + 1
    BY <1>0 DEF QueueIsOrder, n, l
  <2> QED
    BY <1>2, <1>3, <2>1, <2>2, <2>3, <2>4 DEF QueueIsOrder
<1>9. SentInOrder'
  BY <1>0, <1>1, <1>3, <1>6 DEF SentInOrder
<1>10. SentOnce'
  <2> SUFFICES ASSUME NEW s \in Acts, ToSend(s)'
               PROVE  /\ \A k \in 1..Len(performed) : performed[k] # s
                      /\ \A k \in 1..Len(inbox) : Performs(inbox[k]) => inbox[k].act # s
    BY <1>1 DEF SentOnce
  <2>1. CASE s = t
    <3>1. \A a, m : Within(order, m, a) => a # t
      BY <1>5 DEF Within, n
    <3> QED
      BY <2>1, <3>1 DEF SentInOrder
  <2>2. CASE s # t
    <3>1. ToSend(s)
      BY <1>0, <1>4, <2>2 DEF ToSend
    <3> QED
      BY <3>1 DEF SentOnce
  <2> QED
    BY <2>1, <2>2
<1>11. RecordsPerformed'
  <2>1. \A s \in Tasks : Succeeded(s)' => Succeeded(s)
    BY <1>4 DEF Succeeded
  <2> QED
    BY <1>1, <2>1 DEF RecordsPerformed
<1>12. AuditInOrder'
  BY <1>0, <1>1, <1>3, <1>6 DEF AuditInOrder
<1> QED
  BY <1>7, <1>8, <1>9, <1>10, <1>11, <1>12

\* What the device performs is the next in the order; what it refuses it has not performed.
LEMMA HandleKeepsOrder ==
  ASSUME TypeInv, OrderInv, DeviceHandle
  PROVE  OrderInv'
<1> USE DEF TypeInv, OrderInv
<1> DEFINE e == inbox[1]
           n == Len(inbox)
           p == Len(performed)
<1>0. /\ Len(order) \in Nat /\ p \in Nat /\ Len(lockQueue) \in Nat
      /\ Acts \subseteq Tasks /\ performed \in Seq(Acts)
      /\ \A k \in 1..Len(lockQueue) : lockQueue[k] \in Acts
      /\ \A k \in 1..Len(order) : order[k] \in Acts
  BY Lengths DEF TypeOK, Tasks
<1>1. /\ 1 \in 1..n /\ n \in Nat /\ e \in Frame /\ Len(inbox') = n - 1
      /\ \A k \in 1..(n - 1) : inbox'[k] = inbox[k + 1]
      /\ DevicePerform(e) \/ DeviceConfigure(e) \/ DeviceReport(e) \/ DeviceRefuse(e)
  BY HandleOfInbox
<1>2. UNCHANGED <<lockQueue, order, audit, link>> /\ Before' = Before
  BY DEF DeviceHandle, Before
<1>3. \A s \in Tasks :
         /\ task'[s].pc = task[s].pc /\ task'[s].after = task[s].after
         /\ task'[s].reply = task[s].reply \/ s = e.task
  BY HandleOfTask
<1>4. /\ e.task \in Tasks => task[e.task].pc = e.verb
      /\ e.task \in Tasks /\ e.task \in Acts => e.act = e.task
      /\ Performs(e) => e.act \in Acts
      /\ Performs(e) /\ e.task \in Tasks => e.task \in Acts
  <2>1. NoTask \notin Tasks
    BY ControllerAssumption
  <2> QED
    BY <1>1, <2>1 DEF Addressed, OnlyActs, Performs, LockSteps
<1> HIDE DEF e, n, p
<1>5. LockHeld' /\ QueueIsOrder'
  <2>1. LockHeld'
    BY <1>0, <1>2, <1>3 DEF LockHeld
  <2>2. \A k \in 1..Len(order) : task'[order[k]].pc # "idle"
    BY <1>0, <1>3 DEF QueueIsOrder
  <2> QED
    BY <1>2, <2>1, <2>2 DEF QueueIsOrder
\* What is left to perform was behind what is handled.
<1>6. /\ \A k \in 1..(n - 1) : Performs(inbox'[k]) =>
            /\ Within(order, Before + 1, inbox'[k].act)
            /\ \A j \in 1..p : Follows(order, performed[j], inbox'[k].act)
            /\ Performs(e) => Follows(order, e.act, inbox'[k].act)
      /\ \A j, k \in 1..(n - 1) : j < k /\ Performs(inbox'[j]) /\ Performs(inbox'[k]) =>
            Follows(order, inbox'[j].act, inbox'[k].act)
      /\ Performs(e) => /\ Within(order, Before + 1, e.act)
                        /\ \A j \in 1..p : Follows(order, performed[j], e.act)
  <2>1. \A k \in 1..(n - 1) : k + 1 \in 1..n /\ 1 < k + 1 /\ inbox'[k] = inbox[k + 1]
    BY <1>1
  <2>2. \A k \in 1..(n - 1) : Performs(inbox'[k]) =>
           /\ Within(order, Before + 1, inbox'[k].act)
           /\ \A j \in 1..p : Follows(order, performed[j], inbox'[k].act)
    BY <2>1 DEF SentInOrder, n, p
  <2>3. \A k \in 1..(n - 1) : Performs(inbox'[k]) /\ Performs(e) =>
           Follows(order, e.act, inbox'[k].act)
    BY <1>1, <2>1 DEF SentInOrder, e, n
  <2>4. \A j, k \in 1..(n - 1) : j < k /\ Performs(inbox'[j]) /\ Performs(inbox'[k]) =>
           Follows(order, inbox'[j].act, inbox'[k].act)
    <3> TAKE j, k \in 1..(n - 1)
    <3>1. j < k => j + 1 < k + 1
      OBVIOUS
    <3> QED
      BY <2>1, <3>1 DEF SentInOrder, n
  <2>5. Performs(e) => /\ Within(order, Before + 1, e.act)
                       /\ \A j \in 1..p : Follows(order, performed[j], e.act)
    BY <1>1 DEF SentInOrder, e, n, p
  <2> QED
    BY <2>2, <2>3, <2>4, <2>5
<1>7. \A a, b : Follows(order, a, b) => a # b
  BY FollowsDistinct DEF QueueIsOrder
\* An answer makes a call send again only if its act was refused.
<1>8. \A s \in Acts : ToSend(s)' =>
         \/ ToSend(s)
         \/ /\ s = e.task /\ Performs(e) /\ e.act = s
            /\ UNCHANGED performed
  <2> SUFFICES ASSUME NEW s \in Acts, ToSend(s)', ~ToSend(s)
               PROVE  s = e.task /\ Performs(e) /\ e.act = s /\ UNCHANGED performed
    OBVIOUS
  <2>1. s \in Tasks
    BY <1>0
  <2>2. /\ s = e.task /\ task[s].pc = "act" /\ task'[s].reply \in {"stale", "refused"}
        /\ task'[s].reply # task[s].reply
    BY <1>3, <2>1 DEF ToSend
  <2>3. Performs(e) /\ e.act = s
    BY <1>4, <2>1, <2>2 DEF Performs
  <2>4. ~DevicePerform(e)
    <3>1. ASSUME DevicePerform(e) PROVE FALSE
      <4>1. Answer(e, "ok")
        BY <2>2, <3>1 DEF DevicePerform
      <4>2. task'[s].reply = "ok"
        BY <1>1, <2>1, <2>2, <4>1, AnswerOfTask
      <4> QED
        BY <2>2, <4>2
    <3> QED
      BY <3>1
  <2>5. UNCHANGED performed
    BY <1>1, <2>4 DEF DeviceConfigure, DeviceReport, DeviceRefuse
  <2> QED
    BY <2>2, <2>3, <2>5
\* An answer lets a call record only if its act is performed.
<1>9. \A s \in Tasks : Succeeded(s)' =>
         \/ Succeeded(s)
         \/ s \in Acts /\ DevicePerform(e) /\ e.act = s
  <2> SUFFICES ASSUME NEW s \in Tasks, Succeeded(s)', ~Succeeded(s)
               PROVE  s \in Acts /\ DevicePerform(e) /\ e.act = s
    OBVIOUS
  <2>1. /\ s = e.task /\ task[s].pc \in {"act", "retry"}
        /\ task'[s].reply \notin Failures \cup {"none"} /\ task'[s].reply # task[s].reply
    BY <1>3 DEF Succeeded
  <2>2. s \in Acts /\ Performs(e) /\ e.act = s
    BY <1>4, <2>1 DEF Performs
  <2>3. ~DeviceConfigure(e) /\ ~DeviceReport(e)
    BY <2>2 DEF Performs, DeviceConfigure, DeviceReport, Configures
  <2>4. ~DeviceRefuse(e)
    <3>1. ASSUME DeviceRefuse(e) PROVE FALSE
      <4>1. \E reply \in {"stale", "refused", "other"} : Answer(e, reply)
        BY <3>1 DEF DeviceRefuse
      <4>2. task'[s].reply \in {"stale", "refused", "other"}
        BY <1>1, <2>1, <4>1, AnswerOfTask
      <4> QED
        BY <2>1, <4>2 DEF Failures
    <3> QED
      BY <3>1
  <2> QED
    BY <1>1, <2>2, <2>3, <2>4
<1>10. CASE UNCHANGED performed
  <2>1. SentInOrder'
    BY <1>0, <1>1, <1>2, <1>6, <1>10 DEF SentInOrder, n, p
  <2>2. SentOnce'
    <3> SUFFICES ASSUME NEW s \in Acts, ToSend(s)'
                 PROVE  /\ \A k \in 1..p : performed[k] # s
                        /\ \A k \in 1..(n - 1) : Performs(inbox'[k]) => inbox'[k].act # s
      BY <1>1, <1>10 DEF SentOnce, p
    <3>1. CASE ToSend(s)
      BY <1>1, <3>1 DEF SentOnce, n, p
    <3>2. CASE Performs(e) /\ e.act = s
      BY <1>6, <1>7, <3>2
    <3> QED
      BY <1>8, <3>1, <3>2
  <2>3. RecordsPerformed'
    <3>1. \A s \in Tasks : Succeeded(s)' => Succeeded(s) \/ DevicePerform(e)
      BY <1>9
    <3>2. ~DevicePerform(e)
      <4>1. ASSUME DevicePerform(e) PROVE FALSE
        <5>1. performed' = Append(performed, e.act) /\ e.act \in Acts
          BY <1>4, <4>1 DEF DevicePerform, Performs
        <5>2. Len(performed') = Len(performed) + 1
          BY <1>0, <5>1, AppendProperties
        <5> QED
          BY <1>0, <1>10, <5>2 DEF p
      <4> QED
        BY <4>1
    <3>3. \A s \in Tasks : Succeeded(s)' => Succeeded(s)
      BY <3>1, <3>2
    <3> QED
      BY <1>10, <3>3 DEF RecordsPerformed
  <2>4. AuditInOrder'
    BY <1>2, <1>10 DEF AuditInOrder
  <2> QED
    BY <1>5, <2>1, <2>2, <2>3, <2>4
<1>11. CASE DevicePerform(e)
  <2>1. performed' = Append(performed, e.act) /\ Performs(e) /\ e.act \in Acts
    BY <1>4, <1>11 DEF DevicePerform, Performs
  <2>2. /\ Len(performed') = p + 1 /\ performed'[p + 1] = e.act
        /\ \A k \in 1..p : performed'[k] = performed[k]
    BY <1>0, <2>1, AppendProperties DEF p
  <2>3. SentInOrder'
    <3>1. \A k \in 1..(p + 1) : Within(order, Before + 1, performed'[k])
      BY <1>0, <1>6, <2>1, <2>2 DEF SentInOrder, p
    <3>2. \A j, k \in 1..(p + 1) : j < k => Follows(order, performed'[j], performed'[k])
      <4> TAKE j, k \in 1..(p + 1)
      <4>1. CASE k \in 1..p
        BY <1>0, <2>2, <4>1 DEF SentInOrder, p
      <4>2. CASE k = p + 1
        BY <1>0, <1>6, <2>1, <2>2, <4>2
      <4> QED
        BY <1>0, <4>1, <4>2
    <3>3. \A j \in 1..(p + 1), k \in 1..(n - 1) :
             Performs(inbox'[k]) => Follows(order, performed'[j], inbox'[k].act)
      BY <1>0, <1>6, <2>1, <2>2
    <3> QED
      BY <1>1, <1>2, <1>6, <2>2, <3>1, <3>2, <3>3 DEF SentInOrder
  <2>4. SentOnce'
    <3> SUFFICES ASSUME NEW s \in Acts, ToSend(s)'
                 PROVE  /\ \A k \in 1..(p + 1) : performed'[k] # s
                        /\ \A k \in 1..(n - 1) : Performs(inbox'[k]) => inbox'[k].act # s
      BY <1>1, <2>2 DEF SentOnce
    <3>1. ToSend(s)
      <4>1. performed' # performed
        BY <1>0, <2>2 DEF p
      <4> QED
        BY <1>8, <4>1
    <3>2. /\ \A k \in 1..p : performed[k] # s
          /\ \A k \in 1..n : Performs(inbox[k]) => inbox[k].act # s
      BY <3>1 DEF SentOnce, n, p
    <3>3. e.act # s
      BY <1>1, <2>1, <3>2 DEF e
    <3>4. \A k \in 1..(n - 1) : k + 1 \in 1..n /\ inbox'[k] = inbox[k + 1]
      BY <1>1
    <3>5. \A k \in 1..(p + 1) : performed'[k] # s
      <4> TAKE k \in 1..(p + 1)
      <4>1. k \in 1..p \/ k = p + 1
        BY <1>0
      <4> QED
        BY <2>2, <3>2, <3>3, <4>1
    <3> QED
      BY <3>2, <3>4, <3>5
  <2>5. RecordsPerformed'
    <3> SUFFICES ASSUME NEW s \in Tasks, Succeeded(s)'
                 PROVE  s \in Acts /\ \E k \in 1..(p + 1) : performed'[k] = s
      BY <2>2 DEF RecordsPerformed
    <3>1. CASE Succeeded(s)
      BY <1>0, <2>2, <3>1 DEF RecordsPerformed, p
    <3>2. CASE s \in Acts /\ e.act = s
      BY <1>0, <2>2, <3>2
    <3> QED
      BY <1>9, <3>1, <3>2
  <2>6. AuditInOrder'
    <3>1. \A a : (\E i \in 1..p : performed[i] = a) => \E i \in 1..(p + 1) : performed'[i] = a
      BY <1>0, <2>2
    <3> QED
      BY <1>2, <2>2, <3>1 DEF AuditInOrder, p
  <2> QED
    BY <1>5, <2>3, <2>4, <2>5, <2>6
<1>12. DevicePerform(e) \/ UNCHANGED performed
  BY <1>1 DEF DeviceConfigure, DeviceReport, DeviceRefuse
<1> QED
  BY <1>10, <1>11, <1>12

LEMMA OrderInvariant == Spec => []OrderInv
<1>1. Init => OrderInv
  <2> SUFFICES ASSUME Init PROVE OrderInv
    OBVIOUS
  <2>1. /\ lockQueue = <<>> /\ order = <<>> /\ inbox = <<>> /\ performed = <<>> /\ audit = <<>>
        /\ \A t \in Tasks : /\ task[t].pc = "idle" /\ task[t].reply = "none"
                           /\ task[t].after = "return"
    BY DEF Init, Idle
  <2>2. Acts \subseteq Tasks
    BY DEF Tasks
  <2>3. LockHeld /\ QueueIsOrder
    BY <2>1, <2>2 DEF LockHeld, QueueIsOrder
  <2>4. SentInOrder /\ SentOnce
    BY <2>1 DEF SentInOrder, SentOnce
  <2>5. RecordsPerformed /\ AuditInOrder
    BY <2>1 DEF RecordsPerformed, Succeeded, AuditInOrder
  <2> QED
    BY <2>3, <2>4, <2>5 DEF OrderInv
<1>2. TypeInv /\ TypeInv' /\ OrderInv /\ [Next]_vars => OrderInv'
  <2> SUFFICES ASSUME TypeInv, TypeInv', OrderInv, [Next]_vars PROVE OrderInv'
    OBVIOUS
  <2>1. ASSUME NEW t \in Tasks, Resumes(t) PROVE OrderInv'
    BY <2>1, ResumesRuns, RunsKeepOrder
  <2>2. CASE UNCHANGED vars
    <3>1. \A s \in Tasks : (ToSend(s)' => ToSend(s)) /\ (Succeeded(s)' => Succeeded(s))
      BY <2>2 DEF vars, controllerVars, ToSend, Succeeded
    <3>2. UNCHANGED <<lockQueue, performed, order, audit, inbox, task>> /\ Len(inbox) \in Nat
      BY <2>2, Lengths DEF vars, controllerVars, deviceVars, ghostVars, TypeInv
    <3> QED
      BY <3>1, <3>2, QuietKeepsOrder
  <2> QED
    BY <2>1, <2>2, StepCases, UngroundedRefKeepsOrder, QueueActKeepsOrder,
       TimeoutKeepsOrder, HandleKeepsOrder, LinkKeepsOrder
<1> QED
  BY <1>1, <1>2, TypesInvariant, PTL DEF Spec

LEMMA SubsequenceByPlace ==
  ASSUME NEW p, NEW q, \A k \in DOMAIN p : \E i \in DOMAIN q : q[i] = p[k],
         \A j, k \in DOMAIN p : \A a, b \in DOMAIN q :
            j < k /\ q[a] = p[j] /\ q[b] = p[k] => a < b
  PROVE  IsSubsequence(p, q)
<1> DEFINE at == [k \in DOMAIN p |-> CHOOSE i \in DOMAIN q : q[i] = p[k]]
<1>1. \A k \in DOMAIN p : at[k] \in DOMAIN q /\ q[at[k]] = p[k]
  OBVIOUS
<1>2. at \in [DOMAIN p -> DOMAIN q]
  BY <1>1
<1> HIDE DEF at
<1> QED
  BY <1>1, <1>2 DEF IsSubsequence

\* For any batch, on any device and link: acts are performed in the order the model
\* emitted them and none twice, whatever is retried, times out, is refused or reconnects.
THEOREM OncePerformedInOrder == Spec => []PerformedOnceInOrder
<1>1. TypeInv /\ OrderInv => PerformedOnceInOrder
  <2> SUFFICES ASSUME TypeInv, OrderInv PROVE PerformedOnceInOrder
    OBVIOUS
  <2>1. /\ DOMAIN performed = 1..Len(performed) /\ DOMAIN order = 1..Len(order)
        /\ Len(performed) \in Nat /\ Len(order) \in Nat
    BY DEF TypeInv, TypeOK
  <2>2. \A j, k \in 1..Len(performed) : j < k => Follows(order, performed[j], performed[k])
    BY DEF OrderInv, SentInOrder
  <2>3. \A a, b : Follows(order, a, b) =>
          a # b /\ \A i, j \in 1..Len(order) : order[i] = a /\ order[j] = b => i < j
    BY FollowsDistinct DEF OrderInv, QueueIsOrder
  <2>4. \A j, k \in 1..Len(performed) : performed[j] = performed[k] => j = k
    BY <2>1, <2>2, <2>3
  <2>5. \A k \in 1..Len(performed) : \E i \in 1..Len(order) : order[i] = performed[k]
    BY DEF OrderInv, SentInOrder, Within
  <2>6. \A j, k \in 1..Len(performed) : \A a, b \in 1..Len(order) :
          j < k /\ order[a] = performed[j] /\ order[b] = performed[k] => a < b
    BY <2>2, <2>3
  <2>7. /\ \A k \in DOMAIN performed : \E i \in DOMAIN order : order[i] = performed[k]
        /\ \A j, k \in DOMAIN performed : \A a, b \in DOMAIN order :
              j < k /\ order[a] = performed[j] /\ order[b] = performed[k] => a < b
    BY <2>1, <2>5, <2>6
  <2>8. IsSubsequence(performed, order)
    BY <2>7, SubsequenceByPlace
  <2> QED
    BY <2>1, <2>4, <2>8 DEF PerformedOnceInOrder
<1> QED
  BY <1>1, TypesInvariant, OrderInvariant, PTL

\* The order part of AuditFaithful: the trail is a subsequence of what the device performed.
\* Nothing is recorded that was not done, nothing twice, and the records stand in the order
\* of the acts (controller.py:363).  That nothing is missing is model-checked.
THEOREM AuditCorrect == Spec => []AuditOrdered
<1>1. TypeInv /\ OrderInv => AuditOrdered
  <2> SUFFICES ASSUME TypeInv, OrderInv PROVE AuditOrdered
    OBVIOUS
  <2>1. /\ DOMAIN performed = 1..Len(performed) /\ DOMAIN audit = 1..Len(audit)
        /\ Len(performed) \in Nat /\ Len(audit) \in Nat
    BY DEF TypeInv, TypeOK
  <2>2. /\ \A j, k \in 1..Len(performed) : j < k => Follows(order, performed[j], performed[k])
        /\ \A j, k \in 1..Len(audit) : j < k => Follows(order, audit[j], audit[k])
        /\ \A k \in 1..Len(audit) : \E i \in 1..Len(performed) : performed[i] = audit[k]
    BY DEF OrderInv, SentInOrder, AuditInOrder
  <2>3. \A a, b : Follows(order, a, b) => a # b /\ ~Follows(order, b, a)
    <3>1. \A a, b : Follows(order, a, b) =>
            a # b /\ \A i, j \in 1..Len(order) : order[i] = a /\ order[j] = b => i < j
      BY FollowsDistinct DEF OrderInv, QueueIsOrder
    <3> QED
      BY <3>1 DEF Follows
  <2>4. \A j, k \in 1..Len(audit) : \A a, b \in 1..Len(performed) :
          j < k /\ performed[a] = audit[j] /\ performed[b] = audit[k] => a < b
    BY <2>1, <2>2, <2>3
  <2>5. /\ \A k \in DOMAIN audit : \E i \in DOMAIN performed : performed[i] = audit[k]
        /\ \A j, k \in DOMAIN audit : \A a, b \in DOMAIN performed :
              j < k /\ performed[a] = audit[j] /\ performed[b] = audit[k] => a < b
    BY <2>1, <2>2, <2>4
  <2> QED
    BY <2>5, SubsequenceByPlace DEF AuditOrdered
<1> QED
  BY <1>1, TypesInvariant, OrderInvariant, PTL
=============================================================================

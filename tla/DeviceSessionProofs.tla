------------------------ MODULE DeviceSessionProofs ------------------------
(***************************************************************************)
(* Proofs about DeviceSession, for any number of tasks, requests and       *)
(* snapshot versions: its invariants, and that it implements RequestCycle. *)
(***************************************************************************)
EXTENDS DeviceSession, SequenceTheorems, TLAPS

-----------------------------------------------------------------------------
(* The inductive invariant *)

\* A task that awaits something awaits it for a request this session issued.
CallsIssued == \A t \in Tasks : pc[t] # "idle" => call[t] \in 1..nextId

\* Nothing is known of an id before it is issued.
FreshUntouched == \A i \in Ids : i > nextId => future[i] = "unset" /\ i \notin handled

\* An issued request is parked for as long as its future is not done.
Parked ==
    /\ pending \subseteq 1..nextId
    /\ \A i \in 1..nextId : future[i] = "unset" => i \in pending

\* The pump's finally marks the session dead and empties the dictionary for good.
PumpOver == ~pumping => ~alive /\ pending = {}

\* A request on its way to the device was issued, not handled, and travels once.
InTransit ==
    \A j \in 1..Len(toDevice) :
        /\ toDevice[j] <= nextId
        /\ toDevice[j] \notin handled
        /\ \A k \in 1..Len(toDevice) : toDevice[j] = toDevice[k] => j = k

\* Whatever reports an answer reports one of a request the device took in.
AnswersHandled ==
    /\ \A a \in owed : a.id \in handled
    /\ \A k \in 1..Len(toDaemon) : toDaemon[k].kind = "res" => toDaemon[k].id \in handled
    /\ \A i \in Ids : future[i] \in {"ok", "error"} => i \in handled

IInv ==
    /\ TypeOK
    /\ CallsIssued
    /\ FreshUntouched
    /\ Parked
    /\ PumpOver
    /\ InTransit
    /\ AnswersHandled

-----------------------------------------------------------------------------
(* The initial states, and the steps of the callers *)

\* A new session on an open socket satisfies the invariant.
LEMMA InitEstablishes == Init => IInv
<1> SUFFICES ASSUME Init PROVE IInv
    OBVIOUS
<1>1. TypeOK
    BY SessionAssumption
    DEF Init, TypeOK, Ids, Versions, Verbs, Message
<1>2. CallsIssued /\ FreshUntouched /\ Parked /\ PumpOver /\ InTransit
    BY SessionAssumption
    DEF Init, CallsIssued, FreshUntouched, Parked, PumpOver, InTransit, Ids
<1>3. AnswersHandled
    BY DEF Init, AnswersHandled
<1>4. QED
    BY <1>1, <1>2, <1>3 DEF IInv

\* A request refused by a dead session keeps the invariant.
LEMMA RequestOfflineKeeps ==
    ASSUME IInv, NEW t \in Tasks, RequestOffline(t)
    PROVE  IInv'
<1> USE DEF IInv, RequestOffline, Return, wireVars, deviceVars
<1>1. TypeOK'
    BY SessionAssumption DEF TypeOK
<1>2. CallsIssued'
    BY DEF CallsIssued, TypeOK
<1>3. FreshUntouched' /\ Parked' /\ PumpOver' /\ InTransit' /\ AnswersHandled'
    BY DEF FreshUntouched, Parked, PumpOver, InTransit, AnswersHandled
<1>4. QED
    BY <1>1, <1>2, <1>3

\* A request that parks its future keeps the invariant, whether its frame leaves or not.
LEMMA RequestKeeps ==
    ASSUME IInv, NEW t \in Tasks, NEW w \in Verbs, Request(t, w)
    PROVE  IInv'
<1> USE DEF IInv, deviceVars
<1>1. /\ nextId \in 0..MaxId /\ MaxId \in Nat
      /\ nextId' = nextId + 1
      /\ nextId' \in Ids
    BY SessionAssumption DEF TypeOK, Request, FreshId, Ids
<1>2. TypeOK'
  <2>1. toDevice' \in Seq(Ids)
    <3>1. toDevice \in Seq(Ids)
      BY DEF TypeOK
    <3>2. Append(toDevice, nextId') \in Seq(Ids)
      BY <1>1, <3>1, AppendProperties
    <3>3. QED
      BY <3>1, <3>2 DEF Request
  <2>2. pc' \in [Tasks -> {"idle", "send", "response", "blob"}] /\ call' \in [Tasks -> 0..MaxId]
    <3>1. pc' \in [Tasks -> {"idle", "send", "response", "blob"}]
      BY DEF TypeOK, Request, Return
    <3>2. call' = [call EXCEPT ![t] = nextId'] /\ nextId' \in 0..MaxId
      BY <1>1 DEF Request, Ids
    <3>3. QED
      BY <3>1, <3>2 DEF TypeOK
  <2>3. /\ pending' \in SUBSET Ids
        /\ image' \in [Tasks -> 0..MaxId]
        /\ verb' \in [Ids -> Verbs]
    BY <1>1 DEF TypeOK, Request
  <2>4. QED
    BY <1>1, <2>1, <2>2, <2>3 DEF TypeOK, Request, Ids
<1>3. CallsIssued'
    BY <1>1 DEF CallsIssued, TypeOK, Request, Return
<1>4. FreshUntouched' /\ Parked'
    BY <1>1 DEF FreshUntouched, Parked, TypeOK, Request, Ids
<1>5. PumpOver'
    BY DEF PumpOver, Request, Refused
<1>6. InTransit'
  <2>1. CASE toDevice' = toDevice
    <3>1. \A j \in 1..Len(toDevice) : toDevice[j] <= nextId + 1
      <4>1. \A j \in 1..Len(toDevice) : toDevice[j] \in Ids /\ toDevice[j] <= nextId
        BY DEF InTransit, TypeOK
      <4>2. QED
        BY <1>1, <4>1 DEF Ids
    <3>2. handled' = handled
      BY DEF Request
    <3>3. QED
      BY <1>1, <2>1, <3>1, <3>2 DEF InTransit
  <2>2. CASE toDevice' = Append(toDevice, nextId')
    <3>1. /\ Len(toDevice') = Len(toDevice) + 1
          /\ \A k \in 1..Len(toDevice) : toDevice'[k] = toDevice[k]
          /\ toDevice'[Len(toDevice) + 1] = nextId'
          /\ Len(toDevice) \in Nat
      BY <1>1, <2>2, AppendProperties DEF TypeOK
    <3>2. nextId' \notin handled
      BY <1>1 DEF FreshUntouched
    <3>3. \A k \in 1..Len(toDevice) : toDevice[k] \in Ids
      BY DEF TypeOK
    <3>4. nextId' = nextId + 1 /\ nextId \in Nat /\ handled' = handled
      BY <1>1 DEF Request, Ids
    <3>5. \A k \in 1..Len(toDevice) :
             /\ toDevice[k] \in Nat /\ toDevice[k] <= nextId
             /\ toDevice[k] \notin handled
      BY <3>3 DEF InTransit, Ids
    <3>6. \A j, k \in 1..Len(toDevice) : toDevice[j] = toDevice[k] => j = k
      BY DEF InTransit
    <3> HIDE DEF IInv
    <3>7. \A j \in 1..Len(toDevice') : j \in 1..Len(toDevice) \/ j = Len(toDevice) + 1
      BY <3>1
    <3>8. \A j \in 1..Len(toDevice') :
             toDevice'[j] <= nextId' /\ toDevice'[j] \notin handled'
      BY <3>1, <3>2, <3>4, <3>5, <3>7
    <3>9. ASSUME NEW j \in 1..Len(toDevice'), NEW k \in 1..Len(toDevice'),
                 toDevice'[j] = toDevice'[k]
          PROVE  j = k
      BY <3>1, <3>4, <3>5, <3>6, <3>7, <3>9
    <3>10. QED
      BY <3>8, <3>9 DEF InTransit
  <2>3. QED
    BY <2>1, <2>2 DEF Request
<1>7. AnswersHandled'
    BY DEF AnswersHandled, Request
<1>8. QED
    BY <1>2, <1>3, <1>4, <1>5, <1>6, <1>7

\* A send that ends, returning or raising, keeps the invariant.
LEMMA SendEndsKeeps ==
    ASSUME IInv, NEW t \in Tasks, SendReturns(t) \/ SendRaises(t)
    PROVE  IInv'
<1>1. /\ alive' = alive /\ pumping' = pumping /\ nextId' = nextId /\ pending' = pending
      /\ future' = future /\ blobs' = blobs /\ blobWaiters' = blobWaiters
      /\ blobFuture' = blobFuture /\ call' = call /\ image' = image /\ verb' = verb
      /\ socket' = socket /\ toDevice' = toDevice /\ toDaemon' = toDaemon
      /\ pc[t] = "send" /\ \E q \in {"idle", "response"} : pc' = [pc EXCEPT ![t] = q]
    BY DEF SendReturns, SendRaises, Return, wireVars
<1>2. /\ handled' = handled /\ owed' = owed /\ shots' = shots /\ clock' = clock
      /\ treeVersion' = treeVersion
    BY DEF SendReturns, SendRaises, deviceVars
<1>3. TypeOK'
  <2>1. pc' \in [Tasks -> {"idle", "send", "response", "blob"}]
    BY <1>1 DEF IInv, TypeOK
  <2>2. QED
    BY <1>1, <1>2, <2>1 DEF IInv, TypeOK
<1>4. CallsIssued'
    BY <1>1 DEF IInv, CallsIssued, TypeOK
<1>5. FreshUntouched' /\ Parked'
    BY <1>1, <1>2 DEF IInv, FreshUntouched, Parked
<1>6. PumpOver' /\ InTransit'
    BY <1>1, <1>2 DEF IInv, PumpOver, InTransit
<1>7. AnswersHandled'
    BY <1>1, <1>2 DEF IInv, AnswersHandled
<1>8. QED
    BY <1>3, <1>4, <1>5, <1>6, <1>7 DEF IInv

\* A timer that cancels a future keeps the invariant.
LEMMA TimerKeeps ==
    ASSUME IInv, NEW t \in Tasks, Timer(t)
    PROVE  IInv'
<1> USE DEF IInv, wireVars, deviceVars
<1>0. /\ nextId' = nextId /\ nextId \in 0..MaxId /\ MaxId \in Nat
      /\ \A i \in Ids : \/ future'[i] = future[i]
                        \/ (i <= nextId /\ future'[i] = "cancelled")
      /\ \A i \in 1..nextId : i \in Ids
    BY SessionAssumption DEF TypeOK, CallsIssued, Timer, Ids
<1>1. TypeOK'
    BY DEF TypeOK, Timer
<1>2. CallsIssued' /\ PumpOver' /\ InTransit'
    BY DEF CallsIssued, PumpOver, InTransit, Timer
<1>3. FreshUntouched'
    BY <1>0 DEF FreshUntouched, Timer, Ids
<1>4. Parked'
    BY <1>0 DEF Parked, Timer
<1>5. AnswersHandled'
    BY DEF AnswersHandled, TypeOK, Timer
<1>6. QED
    BY <1>1, <1>2, <1>3, <1>4, <1>5

\* A caller that resumes after its response keeps the invariant.
LEMMA ResponseReturnKeeps ==
    ASSUME IInv, NEW t \in Tasks, ResponseReturn(t)
    PROVE  IInv'
<1> USE DEF IInv, wireVars, deviceVars
<1>1. call[t] \in Ids /\ treeVersion[call[t]] \in Versions
    BY DEF ResponseReturn, CallsIssued, TypeOK, Ids
<1>2. TypeOK'
  <2>1. CASE AwaitBlob(t, treeVersion[call[t]])
    <3>1. pc' \in [Tasks -> {"idle", "send", "response", "blob"}]
      BY <2>1 DEF TypeOK, AwaitBlob, Return
    <3>2. image' \in [Tasks -> 0..MaxId] /\ blobs' \in [Versions -> 0..MaxId]
      <4>1. blobs[treeVersion[call[t]]] \in 0..MaxId /\ 0 \in 0..MaxId
        BY <1>1, SessionAssumption DEF TypeOK
      <4>2. /\ image' = image \/ image' = [image EXCEPT ![t] = blobs[treeVersion[call[t]]]]
            /\ blobs' = blobs \/ blobs' = [blobs EXCEPT ![treeVersion[call[t]]] = 0]
        BY <2>1 DEF AwaitBlob, TakeBlob
      <4>3. image \in [Tasks -> 0..MaxId] /\ blobs \in [Versions -> 0..MaxId]
        BY DEF TypeOK
      <4>4. image' \in [Tasks -> 0..MaxId]
        BY <4>1, <4>2, <4>3
      <4>5. blobs' \in [Versions -> 0..MaxId]
        BY <4>1, <4>2, <4>3
      <4>6. QED
        BY <4>4, <4>5
    <3>3. /\ blobWaiters' \in [Versions -> Tasks \cup {NoTask}]
          /\ blobFuture' = blobFuture
      BY <1>1, <2>1 DEF TypeOK, AwaitBlob
    <3>4. QED
      BY <3>1, <3>2, <3>3 DEF TypeOK, ResponseReturn
  <2>2. CASE Return(t) /\ UNCHANGED <<blobs, blobWaiters, blobFuture, image>>
    BY <2>2 DEF TypeOK, ResponseReturn, Return
  <2>3. QED
    BY <2>1, <2>2 DEF ResponseReturn
<1>3. CallsIssued'
    BY DEF CallsIssued, TypeOK, ResponseReturn, AwaitBlob, TakeBlob, Return
<1>4. FreshUntouched' /\ Parked' /\ PumpOver' /\ InTransit' /\ AnswersHandled'
    BY DEF FreshUntouched, Parked, PumpOver, InTransit, AnswersHandled, ResponseReturn
<1>5. QED
    BY <1>2, <1>3, <1>4

\* A caller that resumes after its frame keeps the invariant.
LEMMA BlobReturnKeeps ==
    ASSUME IInv, NEW t \in Tasks, BlobReturn(t)
    PROVE  IInv'
<1> USE DEF IInv, wireVars, deviceVars
<1>1. TypeOK'
    BY DEF TypeOK, BlobReturn, Return
<1>2. CallsIssued'
    BY DEF CallsIssued, TypeOK, BlobReturn, Return
<1>3. FreshUntouched' /\ Parked' /\ PumpOver' /\ InTransit' /\ AnswersHandled'
    BY DEF FreshUntouched, Parked, PumpOver, InTransit, AnswersHandled, BlobReturn
<1>4. QED
    BY <1>1, <1>2, <1>3

-----------------------------------------------------------------------------
(* The steps of the pump *)

LEMMA PumpMessageKeeps ==
    ASSUME IInv, PumpMessage
    PROVE  IInv'
<1> DEFINE m == Head(toDaemon)
<1> USE DEF IInv, deviceVars
<1>1. /\ m \in Message
      /\ m = toDaemon[1]
      /\ toDaemon' \in Seq(Message)
      /\ Len(toDaemon) \in Nat /\ Len(toDaemon) >= 1
      /\ Len(toDaemon') = Len(toDaemon) - 1
      /\ \A k \in 1..Len(toDaemon') : toDaemon'[k] = toDaemon[k + 1]
  <2>1. toDaemon \in Seq(Message) /\ toDaemon # <<>> /\ toDaemon' = Tail(toDaemon)
    BY DEF PumpMessage, TypeOK
  <2>2. QED
    BY <2>1, HeadTailProperties
<1>2. CASE m.kind = "res" /\ HandleRes(m)
  <2>1. m.id \in Ids /\ m.ok \in BOOLEAN /\ m.id \in handled
    BY <1>1, <1>2 DEF Message, AnswersHandled
  <2>2. \A i \in Ids : \/ future'[i] = future[i]
                       \/ i = m.id /\ future[i] = "unset" /\ future'[i] \in {"ok", "error"}
    BY <1>2, <2>1 DEF HandleRes, SetUnlessDone, TypeOK
  <2>3. future' \in [Ids -> {"unset", "ok", "error", "offline", "cancelled"}]
    BY <1>2, <2>1 DEF HandleRes, SetUnlessDone, TypeOK
  <2>4. TypeOK'
    BY <1>1, <1>2, <2>3 DEF TypeOK, PumpMessage, HandleRes
  <2>5. CallsIssued' /\ PumpOver' /\ InTransit'
    BY <1>2 DEF CallsIssued, PumpOver, InTransit, PumpMessage, HandleRes
  <2>6. FreshUntouched'
    BY <2>1, <2>2 DEF FreshUntouched, PumpMessage
  <2>7. Parked'
    <3>1. m.id \in pending => future'[m.id] # "unset"
      BY <1>2, <2>1 DEF HandleRes, SetUnlessDone, TypeOK
    <3>2. \A i \in 1..nextId : i \in Ids
      BY SessionAssumption DEF TypeOK, Ids
    <3>3. QED
      BY <1>2, <2>2, <3>1, <3>2 DEF Parked, PumpMessage, HandleRes
  <2>8. AnswersHandled'
    BY <1>1, <2>1, <2>2 DEF AnswersHandled, PumpMessage
  <2>9. QED
    BY <2>4, <2>5, <2>6, <2>7, <2>8
<1>3. CASE m.kind = "frame" /\ HandleFrame(m)
  <2>1. m.id \in Ids /\ treeVersion[m.id] \in Versions
    BY <1>1, <1>3 DEF Message, TypeOK
  <2>2. TypeOK'
    <3>1. /\ m.id \in 0..MaxId
          /\ blobWaiters[treeVersion[m.id]] \in Tasks \cup {NoTask}
      BY <2>1, SessionAssumption DEF TypeOK, Ids
    <3>2. blobWaiters' \in [Versions -> Tasks \cup {NoTask}]
      BY <1>3, <2>1 DEF HandleFrame, VersionOfFrame, TypeOK
    <3>3. blobs' \in [Versions -> 0..MaxId]
      BY <1>3, <2>1, <3>1 DEF HandleFrame, VersionOfFrame, TypeOK
    <3>4. /\ image' \in [Tasks -> 0..MaxId]
          /\ blobFuture' \in [Tasks -> {"unset", "frame", "offline", "cancelled"}]
      <4> DEFINE w == blobWaiters[treeVersion[m.id]]
      <4>1. \/ image' = image /\ blobFuture' = blobFuture
            \/ /\ image' = [image EXCEPT ![w] = m.id]
               /\ blobFuture' = [blobFuture EXCEPT ![w] = "frame"]
        BY <1>3 DEF HandleFrame, VersionOfFrame
      <4> HIDE DEF w
      <4>2. image \in [Tasks -> 0..MaxId] /\ image' \in [Tasks -> 0..MaxId]
        BY <3>1, <4>1 DEF TypeOK
      <4>3. blobFuture' \in [Tasks -> {"unset", "frame", "offline", "cancelled"}]
        BY <4>1 DEF TypeOK
      <4>4. QED
        BY <4>2, <4>3
    <3>5. QED
      BY <1>1, <1>3, <3>2, <3>3, <3>4 DEF TypeOK, PumpMessage, HandleFrame
  <2>3. CallsIssued' /\ FreshUntouched' /\ Parked' /\ PumpOver' /\ InTransit'
    BY <1>3 DEF CallsIssued, FreshUntouched, Parked, PumpOver, InTransit, PumpMessage,
                HandleFrame
  <2>4. AnswersHandled'
    BY <1>1, <1>3 DEF AnswersHandled, PumpMessage, HandleFrame
  <2>5. QED
    BY <2>2, <2>3, <2>4
<1>4. CASE m.kind = "bye" /\ HandleBye
  <2>1. TypeOK'
    BY <1>1, <1>4 DEF TypeOK, PumpMessage, HandleBye
  <2>2. CallsIssued' /\ FreshUntouched' /\ Parked' /\ PumpOver' /\ InTransit'
    BY <1>4 DEF CallsIssued, FreshUntouched, Parked, PumpOver, InTransit, PumpMessage,
                HandleBye
  <2>3. AnswersHandled'
    BY <1>1, <1>4 DEF AnswersHandled, PumpMessage, HandleBye
  <2>4. QED
    BY <2>1, <2>2, <2>3
<1>5. QED
  BY <1>2, <1>3, <1>4 DEF PumpMessage

\* The pump's finally keeps the invariant: it fails whatever is parked.
LEMMA PumpEndKeeps ==
    ASSUME IInv, PumpEnd
    PROVE  IInv'
<1> USE DEF IInv, PumpEnd, FailPending, deviceVars
<1>0. /\ toDaemon' \in Seq(Message)
      /\ \A k \in 1..Len(toDaemon') : toDaemon'[k].kind = "res" => toDaemon'[k].id \in handled
  <2>1. CASE toDaemon' = toDaemon
    BY <2>1 DEF TypeOK, AnswersHandled
  <2>2. CASE toDaemon # <<>> /\ toDaemon' = Tail(toDaemon)
    <3>1. toDaemon \in Seq(Message)
      BY DEF TypeOK
    <3>2. /\ toDaemon' \in Seq(Message) /\ Len(toDaemon) \in Nat
          /\ Len(toDaemon') = Len(toDaemon) - 1
          /\ \A k \in 1..Len(toDaemon') : toDaemon'[k] = toDaemon[k + 1]
      BY <2>2, <3>1, HeadTailProperties
    <3>3. QED
      BY <3>2 DEF AnswersHandled
  <2>3. QED
    BY <2>1, <2>2
<1>1. TypeOK'
  <2>1. future' \in [Ids -> {"unset", "ok", "error", "offline", "cancelled"}]
    BY DEF TypeOK
  <2>2. blobFuture' \in [Tasks -> {"unset", "frame", "offline", "cancelled"}]
    BY DEF TypeOK
  <2>3. QED
    BY <1>0, <2>1, <2>2 DEF TypeOK
<1>2. CallsIssued' /\ PumpOver' /\ InTransit'
  BY DEF CallsIssued, PumpOver, InTransit
<1>3. \A i \in 1..nextId : i \in Ids
  BY SessionAssumption DEF TypeOK, Ids
<1>4. FreshUntouched'
  <2>1. \A i \in pending : i \in Ids /\ i <= nextId
    BY <1>3 DEF Parked, TypeOK
  <2>2. \A i \in Ids : i > nextId => i \notin pending
    BY <2>1, SessionAssumption DEF TypeOK, Ids
  <2>3. \A i \in Ids : i > nextId => future'[i] = future[i]
    BY <2>2
  <2>4. nextId' = nextId /\ handled' = handled
    OBVIOUS
  <2>5. QED
    BY <2>3, <2>4 DEF FreshUntouched
<1>5. Parked'
  BY <1>3 DEF Parked
<1>6. AnswersHandled'
  BY <1>0 DEF AnswersHandled
<1>7. QED
  BY <1>1, <1>2, <1>4, <1>5, <1>6

-----------------------------------------------------------------------------
(* The steps of the device and the network *)

LEMMA DeviceHandleKeeps ==
    ASSUME IInv, NEW ok \in BOOLEAN, DeviceHandle(ok)
    PROVE  IInv'
<1> DEFINE i == Head(toDevice)
<1> USE DEF IInv, daemonVars
<1>1. /\ i \in Ids
      /\ i = toDevice[1]
      /\ toDevice' \in Seq(Ids)
      /\ Len(toDevice) \in Nat /\ Len(toDevice) >= 1
      /\ Len(toDevice') = Len(toDevice) - 1
      /\ \A k \in 1..Len(toDevice') : toDevice'[k] = toDevice[k + 1]
  <2>1. toDevice \in Seq(Ids) /\ toDevice # <<>> /\ toDevice' = Tail(toDevice)
    BY DEF DeviceHandle, TypeOK
  <2>2. QED
    BY <2>1, HeadTailProperties
<1>2. i <= nextId /\ i \notin handled
  BY <1>1 DEF InTransit
<1>3. TypeOK'
  BY <1>1 DEF TypeOK, DeviceHandle
<1>4. CallsIssued' /\ Parked' /\ PumpOver'
  BY DEF CallsIssued, Parked, PumpOver, DeviceHandle
<1>5. FreshUntouched'
  BY <1>1, <1>2, SessionAssumption DEF FreshUntouched, DeviceHandle, TypeOK, Ids
<1>6. InTransit'
  BY <1>1, <1>2 DEF InTransit, DeviceHandle
<1>7. AnswersHandled'
  BY <1>1 DEF AnswersHandled, DeviceHandle
<1>8. QED
  BY <1>3, <1>4, <1>5, <1>6, <1>7

\* An answer put on the wire keeps the invariant.
LEMMA DeviceAnswerKeeps ==
    ASSUME IInv, NEW a \in owed, DeviceAnswer(a)
    PROVE  IInv'
<1> DEFINE m == [kind |-> "res", id |-> a.id, ok |-> a.ok]
<1> USE DEF IInv, daemonVars
<1>1. m \in Message /\ a.id \in handled
  BY DEF TypeOK, Message, AnswersHandled
<1>2. /\ toDaemon' \in Seq(Message)
      /\ Len(toDaemon') = Len(toDaemon) + 1 /\ Len(toDaemon) \in Nat
      /\ \A k \in 1..Len(toDaemon) : toDaemon'[k] = toDaemon[k]
      /\ toDaemon'[Len(toDaemon) + 1] = m
  BY <1>1, AppendProperties DEF TypeOK, DeviceAnswer
<1>3. TypeOK'
  BY <1>2 DEF TypeOK, DeviceAnswer
<1>4. CallsIssued' /\ FreshUntouched' /\ Parked' /\ PumpOver' /\ InTransit'
  BY DEF CallsIssued, FreshUntouched, Parked, PumpOver, InTransit, DeviceAnswer
<1>5. AnswersHandled'
  BY <1>1, <1>2 DEF AnswersHandled, DeviceAnswer
<1>6. QED
  BY <1>3, <1>4, <1>5

\* A frame put on the wire, or a capture that failed, keeps the invariant.
LEMMA DeviceFrameKeeps ==
    ASSUME IInv, NEW i \in shots, NEW captured \in BOOLEAN, DeviceFrame(i, captured)
    PROVE  IInv'
<1> DEFINE m == [kind |-> "frame", id |-> i]
<1> USE DEF IInv, daemonVars
<1>1. m \in Message /\ m.kind # "res"
  BY DEF TypeOK, Message
<1>2. /\ toDaemon' \in Seq(Message)
      /\ \A k \in 1..Len(toDaemon') :
            toDaemon'[k] = m \/ (k \in 1..Len(toDaemon) /\ toDaemon'[k] = toDaemon[k])
  <2>1. toDaemon \in Seq(Message) /\ toDaemon' \in {toDaemon, Append(toDaemon, m)}
    BY DEF TypeOK, DeviceFrame
  <2>2. QED
    BY <1>1, <2>1, AppendProperties
<1>3. TypeOK'
  BY <1>2 DEF TypeOK, DeviceFrame
<1>4. CallsIssued' /\ FreshUntouched' /\ Parked' /\ PumpOver' /\ InTransit'
  BY DEF CallsIssued, FreshUntouched, Parked, PumpOver, InTransit, DeviceFrame
<1>5. AnswersHandled'
  BY <1>1, <1>2 DEF AnswersHandled, DeviceFrame
<1>6. QED
  BY <1>3, <1>4, <1>5

\* An advance of the snapshot clock keeps the invariant.
LEMMA DeviceTickKeeps ==
    ASSUME IInv, DeviceTick
    PROVE  IInv'
<1> USE DEF IInv, DeviceTick, daemonVars, wireVars
<1>1. TypeOK'
  BY SessionAssumption DEF TypeOK, Versions
<1>2. CallsIssued' /\ FreshUntouched' /\ Parked' /\ PumpOver' /\ InTransit'
      /\ AnswersHandled'
  BY DEF CallsIssued, FreshUntouched, Parked, PumpOver, InTransit, AnswersHandled
<1>3. QED
  BY <1>1, <1>2

\* What is left of the traffic when the socket closes.
LEMMA CloseKeeps ==
    ASSUME IInv, UNCHANGED <<daemonVars, deviceVars>>, socket' = "closed",
           toDevice' = <<>>,
           toDaemon' \in Seq(Message),
           \A k \in 1..Len(toDaemon') :
               toDaemon'[k].kind = "res" => toDaemon'[k].id \in handled
    PROVE  IInv'
<1> USE DEF IInv, daemonVars, deviceVars
<1>1. TypeOK'
  BY DEF TypeOK
<1>2. CallsIssued' /\ FreshUntouched' /\ Parked' /\ PumpOver' /\ InTransit'
      /\ AnswersHandled'
  BY DEF CallsIssued, FreshUntouched, Parked, PumpOver, InTransit, AnswersHandled
<1>3. QED
  BY <1>1, <1>2

\* A bye and the close after it keep the invariant.
LEMMA DeviceByeKeeps ==
    ASSUME IInv, DeviceBye
    PROVE  IInv'
<1> DEFINE m == [kind |-> "bye"]
<1>1. m \in Message /\ m.kind # "res" /\ toDaemon \in Seq(Message)
  BY DEF Message, IInv, TypeOK
<1>2. toDaemon' \in Seq(Message)
  BY <1>1, AppendProperties DEF DeviceBye
<1>3. \A k \in 1..Len(toDaemon') : toDaemon'[k].kind = "res" => toDaemon'[k].id \in handled
  BY <1>1, AppendProperties DEF DeviceBye, IInv, AnswersHandled
<1>4. QED
  BY <1>2, <1>3, CloseKeeps DEF DeviceBye

\* A drop that loses a tail of what was sent keeps the invariant.
LEMMA NetworkDropKeeps ==
    ASSUME IInv, NetworkDrop
    PROVE  IInv'
<1>1. PICK n \in 0..Len(toDaemon) : toDaemon' = SubSeq(toDaemon, 1, n)
  BY DEF NetworkDrop
<1>2. toDaemon \in Seq(Message) /\ Len(toDaemon) \in Nat
  BY DEF IInv, TypeOK
<1>3. /\ toDaemon' \in Seq(Message)
      /\ \A k \in 1..Len(toDaemon') : k \in 1..Len(toDaemon) /\ toDaemon'[k] = toDaemon[k]
  BY <1>1, <1>2
<1>4. QED
  BY <1>3, CloseKeeps DEF NetworkDrop, IInv, AnswersHandled

-----------------------------------------------------------------------------
(* The invariants of the specification *)

LEMMA NextKeeps ==
    ASSUME IInv, [Next]_vars
    PROVE  IInv'
<1>1. ASSUME NEW t \in Tasks, TaskStep(t) \/ Resume(t) \/ Timer(t)
      PROVE  IInv'
  BY <1>1, RequestOfflineKeeps, RequestKeeps, SendEndsKeeps, ResponseReturnKeeps,
     BlobReturnKeeps, TimerKeeps DEF TaskStep, Resume
<1>2. CASE Pump
  BY <1>2, PumpMessageKeeps, PumpEndKeeps DEF Pump
<1>3. CASE Device
  BY <1>3, DeviceHandleKeeps, DeviceAnswerKeeps, DeviceFrameKeeps, DeviceTickKeeps,
     DeviceByeKeeps, NetworkDropKeeps DEF Device
<1>4. CASE UNCHANGED vars
  BY <1>4 DEF vars, daemonVars, wireVars, deviceVars, IInv, TypeOK, CallsIssued,
              FreshUntouched, Parked, PumpOver, InTransit, AnswersHandled
<1>5. QED
  BY <1>1, <1>2, <1>3, <1>4 DEF Next

\* The inductive invariant holds of every state of the session, its callers and its device.
THEOREM Invariance == Spec => []IInv
<1>1. QED
  BY InitEstablishes, NextKeeps, PTL DEF Spec

\* Every variable keeps its type, for any number of tasks, requests and versions.
THEOREM TypeCorrect == Spec => []TypeOK
<1>1. IInv => TypeOK
  BY DEF IInv
<1>2. QED
  BY <1>1, Invariance, PTL

\* Once pump() has returned no request is parked, nor ever will be again, and whoever still
\* sends or awaits a response has its outcome: the pump's finally clears `alive` before it
\* empties the dictionary, request() tests `alive` and parks its future without an await in
\* between, and what a caller awaits is parked for as long as it has no outcome.
THEOREM NoneStranded == Spec => []NoStrandedRequest
<1>1. ASSUME IInv, ~pumping, NEW t \in Tasks, pc[t] \in {"send", "response"}
      PROVE  future[call[t]] # "unset"
  BY <1>1 DEF IInv, CallsIssued, Parked, PumpOver
<1>2. IInv => NoStrandedRequest
  BY <1>1 DEF IInv, PumpOver, NoStrandedRequest
<1>3. QED
  BY <1>2, Invariance, PTL

-----------------------------------------------------------------------------
(* Frames: the inductive invariant *)

IsFrame(k) == k \in 1..Len(toDaemon) /\ toDaemon[k].kind = "frame"

\* A frame is one of a request the device took in, from its capture to its caller.
FramesHandled ==
    /\ shots \subseteq handled
    /\ \A k \in 1..Len(toDaemon) : IsFrame(k) => toDaemon[k].id \in handled
    /\ \A v \in Versions : blobs[v] # 0 => blobs[v] \in handled
    /\ \A t \in Tasks : image[t] # 0 => image[t] \in handled

\* A buffered frame is filed under its version, a returned one is of the call's version.
FramesMatch ==
    /\ \A v \in Versions : blobs[v] # 0 => treeVersion[blobs[v]] = v
    /\ \A t \in Tasks : image[t] # 0 =>
          call[t] \in handled /\ treeVersion[image[t]] = treeVersion[call[t]]

\* A registered waiter awaits the frame of that very version, and its future was given
\* neither a frame nor an error: both unregister it.
WaitersAwait ==
    /\ \A v \in Versions : \A t \in Tasks : blobWaiters[v] = t =>
          /\ pc[t] = "blob" /\ treeVersion[call[t]] = v
          /\ blobFuture[t] \in {"unset", "cancelled"}
    /\ \A t \in Tasks : pc[t] = "blob" => call[t] \in handled
    /\ \A t \in Tasks : pc[t] # "blob" => blobFuture[t] = "unset"

\* A frame is in one place: to be captured, on the wire, buffered, or with one caller.
OnePlace ==
    /\ \A k, l \in 1..Len(toDaemon) :
          IsFrame(k) /\ IsFrame(l) /\ toDaemon[k].id = toDaemon[l].id => k = l
    /\ \A k \in 1..Len(toDaemon) : IsFrame(k) =>
          /\ toDaemon[k].id \notin shots
          /\ \A v \in Versions : blobs[v] # toDaemon[k].id
          /\ \A t \in Tasks : image[t] # toDaemon[k].id
    /\ \A v \in Versions : blobs[v] # 0 => blobs[v] \notin shots
    /\ \A t \in Tasks : image[t] # 0 => image[t] \notin shots
    /\ FrameUsedOnce

FrameInv ==
    /\ FramesHandled
    /\ FramesMatch
    /\ WaitersAwait
    /\ OnePlace

\* A frame on the wire carries an id, and an id is not the 0 that means no frame.
LEMMA FrameHasId ==
    ASSUME TypeOK, NEW k \in 1..Len(toDaemon), IsFrame(k)
    PROVE  toDaemon[k] \in Message /\ toDaemon[k].id \in Ids /\ toDaemon[k].id # 0
<1>1. toDaemon[k] \in Message
  BY DEF TypeOK
<1>2. QED
  BY <1>1, SessionAssumption DEF Message, IsFrame, Ids

\* A new session has no frames.
LEMMA InitFrames == Init => FrameInv
<1> SUFFICES ASSUME Init PROVE FrameInv
  OBVIOUS
<1>1. FramesHandled /\ FramesMatch
  BY DEF Init, FramesHandled, FramesMatch
<1>2. WaitersAwait
  BY SessionAssumption DEF Init, WaitersAwait
<1>3. OnePlace
  BY DEF Init, OnePlace, FrameUsedOnce
<1>4. QED
  BY <1>1, <1>2, <1>3 DEF FrameInv

\* A step by which an idle task forgets its last frame, whatever it does to its own call,
\* disturbs no frame.
LEMMA ForgetFrames ==
    ASSUME IInv, FrameInv, NEW t \in Tasks,
           pc[t] = "idle",
           image' = [image EXCEPT ![t] = 0],
           pc' \in [Tasks -> {"idle", "send", "response", "blob"}], pc'[t] # "blob",
           call' \in [Tasks -> 0..MaxId],
           \A u \in Tasks \ {t} : pc'[u] = pc[u] /\ call'[u] = call[u],
           UNCHANGED <<blobs, blobWaiters, blobFuture, toDaemon, deviceVars>>
    PROVE  FrameInv'
<1> USE DEF deviceVars
<1>0. image \in [Tasks -> 0..MaxId] /\ image'[t] = 0
      /\ \A u \in Tasks \ {t} : image'[u] = image[u]
  BY DEF IInv, TypeOK
<1>1. FramesHandled'
  BY <1>0 DEF FrameInv, FramesHandled, IsFrame
<1>2. FramesMatch'
  BY <1>0 DEF FrameInv, FramesMatch
<1>3. WaitersAwait'
  <2>1. \A v \in Versions : blobWaiters[v] # t
    BY DEF FrameInv, WaitersAwait
  <2>2. \A u \in Tasks : pc'[u] = "blob" <=> pc[u] = "blob"
    OBVIOUS
  <2>3. \A u \in Tasks : pc[u] = "blob" => call'[u] = call[u]
    OBVIOUS
  <2>4. QED
    BY <2>1, <2>2, <2>3 DEF FrameInv, WaitersAwait
<1>4. OnePlace'
  <2>1. \A k \in 1..Len(toDaemon) : IsFrame(k) => toDaemon[k].id # 0
    BY FrameHasId DEF IInv
  <2>2. FrameUsedOnce'
    BY <1>0 DEF FrameInv, OnePlace, FrameUsedOnce
  <2>3. QED
    BY <1>0, <2>1, <2>2 DEF FrameInv, OnePlace, IsFrame
<1>5. QED
  BY <1>1, <1>2, <1>3, <1>4 DEF FrameInv

\* request() forgets the frame of the caller's last observe, refused or not.
LEMMA TaskStepFrames ==
    ASSUME IInv, FrameInv, NEW t \in Tasks, TaskStep(t)
    PROVE  FrameInv'
<1>1. CASE RequestOffline(t)
  BY <1>1, ForgetFrames DEF RequestOffline, Return, wireVars, deviceVars, IInv, TypeOK
<1>2. ASSUME NEW w \in Verbs, Request(t, w)
      PROVE  FrameInv'
  <2>1. call' = [call EXCEPT ![t] = nextId'] /\ nextId' \in 0..MaxId
    BY <1>2, RequestKeeps DEF Request, IInv, TypeOK
  <2>2. call' \in [Tasks -> 0..MaxId] /\ \A u \in Tasks \ {t} : call'[u] = call[u]
    BY <2>1 DEF IInv, TypeOK
  <2>3. /\ pc' \in [Tasks -> {"idle", "send", "response", "blob"}] /\ pc'[t] # "blob"
        /\ \A u \in Tasks \ {t} : pc'[u] = pc[u]
    BY <1>2 DEF Request, Return, IInv, TypeOK
  <2>4. QED
    BY <1>2, <2>2, <2>3, ForgetFrames DEF Request
<1>3. QED
  BY <1>1, <1>2 DEF TaskStep

\* The end of a send moves no frame, and no task into or out of _await_blob.
LEMMA SendEndsFrames ==
    ASSUME IInv, FrameInv, NEW t \in Tasks, SendReturns(t) \/ SendRaises(t)
    PROVE  FrameInv'
<1> USE DEF SendReturns, SendRaises, Return, wireVars, deviceVars
<1>1. FramesHandled' /\ FramesMatch'
  BY DEF FrameInv, FramesHandled, FramesMatch, IsFrame
<1>2. WaitersAwait'
  <2>1. \A u \in Tasks : pc'[u] = "blob" <=> pc[u] = "blob"
    BY DEF IInv, TypeOK
  <2>2. UNCHANGED <<call, blobWaiters, blobFuture, handled, treeVersion>>
    OBVIOUS
  <2>3. QED
    BY <2>1, <2>2 DEF FrameInv, WaitersAwait
<1>3. OnePlace'
  BY DEF FrameInv, OnePlace, FrameUsedOnce, IsFrame
<1>4. QED
  BY <1>1, <1>2, <1>3 DEF FrameInv

\* A timer cancels a future and moves no frame.
LEMMA TimerFrames ==
    ASSUME IInv, FrameInv, NEW t \in Tasks, Timer(t)
    PROVE  FrameInv'
<1> USE DEF Timer, wireVars, deviceVars
<1>1. FramesHandled' /\ FramesMatch'
  BY DEF FrameInv, FramesHandled, FramesMatch, IsFrame
<1>2. WaitersAwait'
  <2>1. \A u \in Tasks : blobFuture'[u] = blobFuture[u]
                         \/ (pc[u] = "blob" /\ blobFuture'[u] = "cancelled")
    BY DEF IInv, TypeOK, TimerOf
  <2>2. QED
    BY <2>1 DEF FrameInv, WaitersAwait
<1>3. OnePlace'
  BY DEF FrameInv, OnePlace, FrameUsedOnce, IsFrame
<1>4. QED
  BY <1>1, <1>2, <1>3 DEF FrameInv

\* A caller that goes on to its frame takes the one that is buffered, out of the buffer,
\* or registers for it.
LEMMA ResponseReturnFrames ==
    ASSUME IInv, FrameInv, NEW t \in Tasks, ResponseReturn(t)
    PROVE  FrameInv'
<1> DEFINE i == call[t]
           v == treeVersion[call[t]]
<1> USE DEF wireVars, deviceVars
<1>0. /\ i \in Ids /\ v \in Versions /\ pc[t] = "response"
      /\ \A x \in Versions : blobWaiters[x] # t
      /\ UNCHANGED <<call, toDaemon, blobFuture, shots, handled, treeVersion>>
  BY DEF ResponseReturn, AwaitBlob, IInv, CallsIssued, TypeOK, Ids, FrameInv, WaitersAwait
<1>1. CASE future[i] = "ok" /\ verb[i] = "observe" /\ blobs[v] # 0
  <2>1. /\ image' = [image EXCEPT ![t] = blobs[v]]
        /\ blobs' = [blobs EXCEPT ![v] = 0]
        /\ pc' = [pc EXCEPT ![t] = "idle"]
        /\ blobWaiters' = blobWaiters
    BY <1>1 DEF ResponseReturn, AwaitBlob, TakeBlob, Return
  <2>2. /\ i \in handled /\ blobs[v] \in handled /\ treeVersion[blobs[v]] = v
        /\ blobs[v] \notin shots
    BY <1>0, <1>1 DEF IInv, AnswersHandled, FrameInv, FramesHandled, FramesMatch, OnePlace
  <2>3. /\ image'[t] = blobs[v] /\ \A u \in Tasks \ {t} : image'[u] = image[u]
        /\ blobs'[v] = 0 /\ \A x \in Versions \ {v} : blobs'[x] = blobs[x]
        /\ pc'[t] = "idle" /\ \A u \in Tasks \ {t} : pc'[u] = pc[u]
    BY <1>0, <2>1 DEF IInv, TypeOK
  <2>4. FramesHandled'
    BY <1>0, <2>2, <2>3 DEF FrameInv, FramesHandled, IsFrame
  <2>5. FramesMatch'
    BY <1>0, <2>2, <2>3 DEF FrameInv, FramesMatch
  <2>6. WaitersAwait'
    BY <1>0, <2>1, <2>3 DEF FrameInv, WaitersAwait
  <2>7. OnePlace'
    <3>1. FrameUsedOnce'
      <4>1. \A u \in Tasks : image[u] # 0 => image[u] # blobs[v]
        BY <1>0, <1>1 DEF FrameInv, OnePlace, FrameUsedOnce
      <4>2. \A x \in Versions \ {v} : blobs[x] # blobs[v]
        BY <1>0, <1>1 DEF FrameInv, FramesMatch
      <4>3. QED
        BY <1>0, <1>1, <2>3, <4>1, <4>2 DEF FrameInv, OnePlace, FrameUsedOnce
    <3>2. \A k \in 1..Len(toDaemon) : IsFrame(k) => toDaemon[k].id # 0
      BY FrameHasId DEF IInv
    <3>3. QED
      BY <1>0, <2>2, <2>3, <3>1, <3>2 DEF FrameInv, OnePlace, IsFrame
  <2>8. QED
    BY <2>4, <2>5, <2>6, <2>7 DEF FrameInv
<1>2. CASE future[i] = "ok" /\ verb[i] = "observe" /\ blobs[v] = 0
  <2>1. /\ image' = image /\ blobs' = blobs
        /\ pc'[t] = "blob" /\ \A u \in Tasks \ {t} : pc'[u] = pc[u]
        /\ blobWaiters'[v] = t /\ \A x \in Versions \ {v} : blobWaiters'[x] = blobWaiters[x]
    BY <1>0, <1>2 DEF ResponseReturn, AwaitBlob, IInv, TypeOK
  <2>2. i \in handled
    BY <1>0, <1>2 DEF IInv, AnswersHandled
  <2>3. FramesHandled' /\ FramesMatch'
    BY <1>0, <2>1 DEF FrameInv, FramesHandled, FramesMatch, IsFrame
  <2>4. WaitersAwait'
    BY <1>0, <2>1, <2>2 DEF FrameInv, WaitersAwait
  <2>5. OnePlace'
    BY <1>0, <2>1 DEF FrameInv, OnePlace, FrameUsedOnce, IsFrame
  <2>6. QED
    BY <2>3, <2>4, <2>5 DEF FrameInv
<1>3. CASE ~(future[i] = "ok" /\ verb[i] = "observe")
  <2>1. /\ image' = image /\ blobs' = blobs /\ blobWaiters' = blobWaiters
        /\ pc'[t] = "idle" /\ \A u \in Tasks \ {t} : pc'[u] = pc[u]
    BY <1>3 DEF ResponseReturn, Return, IInv, TypeOK
  <2>2. FramesHandled' /\ FramesMatch'
    BY <1>0, <2>1 DEF FrameInv, FramesHandled, FramesMatch, IsFrame
  <2>3. WaitersAwait'
    BY <1>0, <2>1 DEF FrameInv, WaitersAwait
  <2>4. OnePlace'
    BY <1>0, <2>1 DEF FrameInv, OnePlace, FrameUsedOnce, IsFrame
  <2>5. QED
    BY <2>2, <2>3, <2>4 DEF FrameInv
<1>4. QED
  BY <1>1, <1>2, <1>3

\* A caller that leaves _await_blob is registered nowhere, or popped its own key.
LEMMA BlobReturnFrames ==
    ASSUME IInv, FrameInv, NEW t \in Tasks, BlobReturn(t)
    PROVE  FrameInv'
<1> DEFINE v == treeVersion[call[t]]
<1> USE DEF wireVars, deviceVars
<1>0. /\ v \in Versions
      /\ UNCHANGED <<image, blobs, call, toDaemon, shots, handled, treeVersion>>
      /\ pc'[t] = "idle" /\ \A u \in Tasks \ {t} : pc'[u] = pc[u]
      /\ blobFuture'[t] = "unset" /\ \A u \in Tasks \ {t} : blobFuture'[u] = blobFuture[u]
  BY DEF BlobReturn, Return, IInv, CallsIssued, TypeOK, Ids
<1>1. FramesHandled' /\ FramesMatch'
  BY <1>0 DEF FrameInv, FramesHandled, FramesMatch, IsFrame
<1>2. /\ \A x \in Versions : blobWaiters'[x] # t
      /\ \A x \in Versions : blobWaiters'[x] = blobWaiters[x] \/ blobWaiters'[x] = NoTask
  <2>1. \A x \in Versions : blobWaiters[x] = t => x = v /\ blobFuture[t] = "cancelled"
    BY DEF FrameInv, WaitersAwait, BlobReturn
  <2>2. blobWaiters' = IF blobFuture[t] = "cancelled"
                       THEN [blobWaiters EXCEPT ![v] = NoTask] ELSE blobWaiters
    BY DEF BlobReturn
  <2>3. QED
    BY <1>0, <2>1, <2>2, SessionAssumption DEF IInv, TypeOK
<1>3. WaitersAwait'
  BY <1>0, <1>2, SessionAssumption DEF FrameInv, WaitersAwait
<1>4. OnePlace'
  BY <1>0 DEF FrameInv, OnePlace, FrameUsedOnce, IsFrame
<1>5. QED
  BY <1>1, <1>3, <1>4 DEF FrameInv

\* A frame off the wire goes to the waiter of its version or into the buffer: nowhere else.
LEMMA PumpMessageFrames ==
    ASSUME IInv, FrameInv, PumpMessage
    PROVE  FrameInv'
<1> DEFINE m == Head(toDaemon)
           v == treeVersion[m.id]
           w == blobWaiters[v]
<1> USE DEF deviceVars
<1>1. /\ m \in Message /\ m = toDaemon[1]
      /\ Len(toDaemon) \in Nat /\ Len(toDaemon) >= 1
      /\ Len(toDaemon') = Len(toDaemon) - 1
      /\ \A k \in 1..Len(toDaemon') : toDaemon'[k] = toDaemon[k + 1]
  <2>1. toDaemon \in Seq(Message) /\ toDaemon # <<>> /\ toDaemon' = Tail(toDaemon)
    BY DEF PumpMessage, IInv, TypeOK
  <2>2. QED
    BY <2>1, HeadTailProperties
<1> HIDE DEF m
<1>2. UNCHANGED <<pc, call, shots, handled, treeVersion>>
  BY DEF PumpMessage
<1>3. /\ \A k \in 1..Len(toDaemon') : k + 1 \in 1..Len(toDaemon) /\ 1 \in 1..Len(toDaemon)
      /\ \A k \in 1..Len(toDaemon') : toDaemon'[k] = toDaemon[k + 1] /\ k + 1 # 1
  BY <1>1
<1>4. ASSUME UNCHANGED <<image, blobs, blobWaiters, blobFuture>>
      PROVE  FrameInv'
  <2>1. FramesHandled' /\ FramesMatch'
    BY <1>2, <1>3, <1>4 DEF FrameInv, FramesHandled, FramesMatch, IsFrame
  <2>2. WaitersAwait'
    BY <1>2, <1>4 DEF FrameInv, WaitersAwait
  <2>3. OnePlace'
    <3>1. \A k, l \in 1..Len(toDaemon') : k + 1 = l + 1 => k = l
      BY <1>1
    <3>2. \A k, l \in 1..Len(toDaemon') :
              IsFrame(k)' /\ IsFrame(l)' /\ toDaemon'[k].id = toDaemon'[l].id => k = l
      BY <1>3, <3>1 DEF FrameInv, OnePlace, IsFrame
    <3>3. \A k \in 1..Len(toDaemon') : IsFrame(k)' =>
              /\ toDaemon'[k].id \notin shots'
              /\ \A x \in Versions : blobs'[x] # toDaemon'[k].id
              /\ \A t \in Tasks : image'[t] # toDaemon'[k].id
      BY <1>2, <1>3, <1>4 DEF FrameInv, OnePlace, IsFrame
    <3>4. FrameUsedOnce'
      BY <1>4 DEF FrameInv, OnePlace, FrameUsedOnce
    <3>5. QED
      BY <1>2, <1>4, <3>2, <3>3, <3>4 DEF FrameInv, OnePlace
  <2>4. QED
    BY <2>1, <2>2, <2>3 DEF FrameInv
<1>5. CASE m.kind = "frame" /\ HandleFrame(m)
  <2>1. /\ m.id \in Ids /\ m.id # 0 /\ m.id \in handled
        /\ m.id \notin shots
        /\ \A x \in Versions : blobs[x] # m.id
        /\ \A t \in Tasks : image[t] # m.id
    BY <1>1, <1>5, FrameHasId DEF IInv, FrameInv, FramesHandled, OnePlace, IsFrame
  <2>2. /\ v \in Versions /\ w \in Tasks \cup {NoTask}
        /\ blobWaiters'[v] = NoTask
        /\ \A x \in Versions \ {v} : blobWaiters'[x] = blobWaiters[x]
    BY <1>5, <2>1 DEF HandleFrame, VersionOfFrame, IInv, TypeOK
  <2>3. \A k \in 1..Len(toDaemon') : IsFrame(k)' => toDaemon'[k].id # m.id
    BY <1>1, <1>3, <1>5 DEF FrameInv, OnePlace, IsFrame
  <2>4. \A k, l \in 1..Len(toDaemon') :
            IsFrame(k)' /\ IsFrame(l)' /\ toDaemon'[k].id = toDaemon'[l].id => k = l
    <3>1. \A k, l \in 1..Len(toDaemon') : k + 1 = l + 1 => k = l
      BY <1>1
    <3>2. QED
      BY <1>3, <3>1 DEF FrameInv, OnePlace, IsFrame
  <2>5. CASE w # NoTask /\ blobFuture[w] = "unset"
    <3>1. /\ w \in Tasks /\ blobs' = blobs
          /\ image'[w] = m.id /\ \A t \in Tasks \ {w} : image'[t] = image[t]
          /\ blobFuture'[w] = "frame"
          /\ \A t \in Tasks \ {w} : blobFuture'[t] = blobFuture[t]
      BY <1>5, <2>2, <2>5 DEF HandleFrame, VersionOfFrame, IInv, TypeOK
    <3>2. pc[w] = "blob" /\ treeVersion[call[w]] = v /\ call[w] \in handled
      BY <2>2, <3>1 DEF FrameInv, WaitersAwait
    <3>3. FramesHandled'
      BY <1>2, <1>3, <2>1, <3>1 DEF FrameInv, FramesHandled, IsFrame
    <3>4. FramesMatch'
      BY <1>2, <3>1, <3>2 DEF FrameInv, FramesMatch
    <3>5. WaitersAwait'
      <4>1. \A x \in Versions : blobWaiters'[x] # w
        BY <2>2, <3>1, SessionAssumption DEF FrameInv, WaitersAwait
      <4>2. ASSUME NEW x \in Versions, NEW t \in Tasks, blobWaiters'[x] = t
            PROVE  /\ pc'[t] = "blob" /\ treeVersion'[call'[t]] = x
                   /\ blobFuture'[t] \in {"unset", "cancelled"}
        <5>1. t # w /\ x # v
          BY <2>2, <4>1, <4>2, SessionAssumption
        <5>2. blobWaiters[x] = t /\ blobFuture'[t] = blobFuture[t]
          BY <2>2, <3>1, <4>2, <5>1
        <5>3. QED
          BY <1>2, <5>2 DEF FrameInv, WaitersAwait
      <4>3. \A t \in Tasks : pc'[t] # "blob" => blobFuture'[t] = "unset"
        BY <1>2, <3>1, <3>2 DEF FrameInv, WaitersAwait
      <4>4. \A t \in Tasks : pc'[t] = "blob" => call'[t] \in handled'
        BY <1>2 DEF FrameInv, WaitersAwait
      <4>5. QED
        BY <4>2, <4>3, <4>4 DEF WaitersAwait
    <3>6. OnePlace'
      <4>1. FrameUsedOnce'
        BY <2>1, <3>1 DEF FrameInv, OnePlace, FrameUsedOnce
      <4>2. \A k \in 1..Len(toDaemon') : IsFrame(k)' =>
                /\ toDaemon'[k].id \notin shots'
                /\ \A x \in Versions : blobs'[x] # toDaemon'[k].id
                /\ \A t \in Tasks : image'[t] # toDaemon'[k].id
        <5> SUFFICES ASSUME NEW k \in 1..Len(toDaemon'), IsFrame(k)'
                     PROVE  /\ toDaemon'[k].id \notin shots'
                            /\ \A x \in Versions : blobs'[x] # toDaemon'[k].id
                            /\ \A t \in Tasks : image'[t] # toDaemon'[k].id
          OBVIOUS
        <5>1. /\ toDaemon'[k].id \notin shots
              /\ \A x \in Versions : blobs[x] # toDaemon'[k].id
              /\ \A t \in Tasks : image[t] # toDaemon'[k].id
          BY <1>3 DEF FrameInv, OnePlace, IsFrame
        <5>2. toDaemon'[k].id # m.id
          BY <2>3
        <5>3. QED
          BY <1>2, <3>1, <5>1, <5>2
      <4>3. /\ \A x \in Versions : blobs'[x] # 0 => blobs'[x] \notin shots'
            /\ \A t \in Tasks : image'[t] # 0 => image'[t] \notin shots'
        BY <1>2, <2>1, <3>1 DEF FrameInv, OnePlace
      <4>4. QED
        BY <2>4, <4>1, <4>2, <4>3 DEF OnePlace
    <3>7. QED
      BY <3>3, <3>4, <3>5, <3>6 DEF FrameInv
  <2>6. CASE ~(w # NoTask /\ blobFuture[w] = "unset")
    <3>1. /\ image' = image /\ blobFuture' = blobFuture
          /\ blobs'[v] = m.id /\ \A x \in Versions \ {v} : blobs'[x] = blobs[x]
      <4>1. blobs' = [blobs EXCEPT ![v] = m.id] /\ image' = image /\ blobFuture' = blobFuture
        BY <1>5, <2>6 DEF HandleFrame, VersionOfFrame
      <4>2. QED
        BY <2>2, <4>1 DEF IInv, TypeOK
    <3>2. FramesHandled'
      BY <1>2, <1>3, <2>1, <3>1 DEF FrameInv, FramesHandled, IsFrame
    <3>3. FramesMatch'
      BY <1>2, <3>1 DEF FrameInv, FramesMatch
    <3>4. WaitersAwait'
      BY <1>2, <2>2, <3>1, SessionAssumption DEF FrameInv, WaitersAwait
    <3>5. OnePlace'
      <4>1. FrameUsedOnce'
        BY <2>1, <3>1 DEF FrameInv, OnePlace, FrameUsedOnce
      <4>2. \A k \in 1..Len(toDaemon') : IsFrame(k)' =>
                /\ toDaemon'[k].id \notin shots'
                /\ \A x \in Versions : blobs'[x] # toDaemon'[k].id
                /\ \A t \in Tasks : image'[t] # toDaemon'[k].id
        BY <1>2, <1>3, <2>3, <3>1 DEF FrameInv, OnePlace, IsFrame
      <4>3. /\ \A x \in Versions : blobs'[x] # 0 => blobs'[x] \notin shots'
            /\ \A t \in Tasks : image'[t] # 0 => image'[t] \notin shots'
        BY <1>2, <2>1, <3>1 DEF FrameInv, OnePlace
      <4>4. QED
        BY <2>4, <4>1, <4>2, <4>3 DEF OnePlace
    <3>6. QED
      BY <3>2, <3>3, <3>4, <3>5 DEF FrameInv
  <2>7. QED
    BY <2>5, <2>6
<1>6. CASE HandleRes(m) \/ HandleBye
  BY <1>4, <1>6 DEF HandleRes, HandleBye
<1>7. QED
  BY <1>5, <1>6 DEF PumpMessage, m

\* The pump's finally unregisters every waiter and leaves the buffer alone.
LEMMA PumpEndFrames ==
    ASSUME IInv, FrameInv, PumpEnd
    PROVE  FrameInv'
<1> USE DEF deviceVars
<1>1. UNCHANGED <<pc, call, image, blobs, shots, handled, treeVersion>>
  BY DEF PumpEnd
<1>2. toDaemon \in Seq(Message)
  BY DEF IInv, TypeOK
<1>3. \/ toDaemon' = toDaemon
      \/ \A k \in 1..Len(toDaemon') : k + 1 \in 1..Len(toDaemon) /\ toDaemon'[k] = toDaemon[k + 1]
  <2>1. CASE toDaemon # <<>> /\ toDaemon' = Tail(toDaemon)
    BY <1>2, <2>1, HeadTailProperties
  <2>2. QED
    BY <2>1 DEF PumpEnd
<1>4. /\ FramesHandled'
      /\ \A k \in 1..Len(toDaemon') : IsFrame(k)' =>
            /\ toDaemon'[k].id \notin shots
            /\ \A v \in Versions : blobs[v] # toDaemon'[k].id
            /\ \A t \in Tasks : image[t] # toDaemon'[k].id
  BY <1>1, <1>3 DEF FrameInv, FramesHandled, OnePlace, IsFrame
<1>5. \A k, l \in 1..Len(toDaemon') :
          IsFrame(k)' /\ IsFrame(l)' /\ toDaemon'[k].id = toDaemon'[l].id => k = l
  <2>1. \A k, l \in 1..Len(toDaemon') : k + 1 = l + 1 => k = l
    OBVIOUS
  <2>2. QED
    BY <1>3, <2>1 DEF FrameInv, OnePlace, IsFrame
<1>6. FramesMatch'
  BY <1>1 DEF FrameInv, FramesMatch
<1>7. WaitersAwait'
  <2>1. \A v \in Versions : blobWaiters'[v] = NoTask
    BY DEF PumpEnd, FailPending
  <2>2. \A t \in Tasks : pc[t] # "blob" => \A v \in Versions : blobWaiters[v] # t
    BY DEF FrameInv, WaitersAwait
  <2>3. \A t \in Tasks : pc[t] # "blob" => blobFuture'[t] = blobFuture[t]
    BY <2>2 DEF IInv, TypeOK, PumpEnd, FailPending
  <2>4. QED
    BY <1>1, <2>1, <2>3, SessionAssumption DEF FrameInv, WaitersAwait
<1>8. OnePlace'
  BY <1>1, <1>4, <1>5 DEF FrameInv, OnePlace, FrameUsedOnce
<1>9. QED
  BY <1>4, <1>6, <1>7, <1>8 DEF FrameInv

\* The device takes in a request none of whose frames can exist yet.
LEMMA DeviceHandleFrames ==
    ASSUME IInv, FrameInv, NEW ok \in BOOLEAN, DeviceHandle(ok)
    PROVE  FrameInv'
<1> DEFINE i == Head(toDevice)
<1> USE DEF daemonVars
<1>1. i \in Ids /\ i = toDevice[1] /\ Len(toDevice) \in Nat /\ Len(toDevice) >= 1
  <2>1. toDevice \in Seq(Ids) /\ toDevice # <<>>
    BY DEF DeviceHandle, IInv, TypeOK
  <2>2. QED
    BY <2>1, HeadTailProperties
<1>2. i \notin handled
  BY <1>1 DEF IInv, InTransit
<1>3. /\ UNCHANGED <<daemonVars, toDaemon>>
      /\ handled' = handled \cup {i}
      /\ \A j \in handled : treeVersion'[j] = treeVersion[j]
      /\ shots' \subseteq shots \cup {i}
  BY <1>2 DEF DeviceHandle, IInv, TypeOK
<1> HIDE DEF i
<1>4. FramesHandled'
  BY <1>3 DEF FrameInv, FramesHandled, IsFrame
<1>5. FramesMatch'
  BY <1>3 DEF FrameInv, FramesHandled, FramesMatch
<1>6. WaitersAwait'
  BY <1>3 DEF FrameInv, WaitersAwait
<1>7. OnePlace'
  BY <1>2, <1>3 DEF FrameInv, FramesHandled, OnePlace, FrameUsedOnce, IsFrame
<1>8. QED
  BY <1>4, <1>5, <1>6, <1>7 DEF FrameInv

\* What travels to the daemon is what travelled before, or one new frame taken from shots.
LEMMA WireFrames ==
    ASSUME IInv, FrameInv,
           UNCHANGED <<daemonVars, handled, treeVersion>>,
           shots' \subseteq shots,
           toDaemon' \in Seq(Message),
           \A k \in 1..Len(toDaemon') : IsFrame(k)' =>
              \/ k \in 1..Len(toDaemon) /\ toDaemon'[k] = toDaemon[k]
              \/ k = Len(toDaemon') /\ toDaemon'[k].id \in shots \ shots'
    PROVE  FrameInv'
<1> USE DEF daemonVars
<1>1. ASSUME NEW k \in 1..Len(toDaemon'), IsFrame(k)'
      PROVE  /\ toDaemon'[k].id \in handled /\ toDaemon'[k].id \notin shots'
             /\ \A v \in Versions : blobs[v] # toDaemon'[k].id
             /\ \A t \in Tasks : image[t] # toDaemon'[k].id
  <2>1. CASE k \in 1..Len(toDaemon) /\ toDaemon'[k] = toDaemon[k]
    BY <1>1, <2>1 DEF FrameInv, FramesHandled, OnePlace, IsFrame
  <2>2. CASE toDaemon'[k].id \in shots \ shots'
    <3>1. toDaemon'[k].id # 0
      BY <2>2, SessionAssumption DEF IInv, TypeOK, Ids
    <3>2. QED
      BY <2>2, <3>1 DEF FrameInv, FramesHandled, OnePlace
  <2>3. QED
    BY <1>1, <2>1, <2>2
<1>2. ASSUME NEW k \in 1..Len(toDaemon'), NEW l \in 1..Len(toDaemon'),
             IsFrame(k)', IsFrame(l)', toDaemon'[k].id = toDaemon'[l].id
      PROVE  k = l
  <2>1. ASSUME NEW j \in 1..Len(toDaemon'), IsFrame(j)',
               j \in 1..Len(toDaemon) /\ toDaemon'[j] = toDaemon[j]
        PROVE  toDaemon'[j].id \notin shots
    BY <2>1 DEF FrameInv, OnePlace, IsFrame
  <2>2. CASE toDaemon'[k].id \in shots
    BY <1>2, <2>1, <2>2
  <2>3. CASE toDaemon'[k].id \notin shots
    BY <1>2, <2>3 DEF FrameInv, OnePlace, IsFrame
  <2>4. QED
    BY <2>2, <2>3
<1>3. FramesHandled'
  BY <1>1 DEF FrameInv, FramesHandled
<1>4. FramesMatch' /\ WaitersAwait'
  BY DEF FrameInv, FramesMatch, WaitersAwait
<1>5. OnePlace'
  BY <1>1, <1>2 DEF FrameInv, OnePlace, FrameUsedOnce
<1>6. QED
  BY <1>3, <1>4, <1>5 DEF FrameInv

\* The other steps of the device and the network add a frame to the wire, lose a tail of
\* what is on it, or leave the frames alone.
LEMMA DeviceFrames ==
    ASSUME IInv, FrameInv, Device, ~(\E ok \in BOOLEAN : DeviceHandle(ok))
    PROVE  FrameInv'
<1> USE DEF daemonVars, wireVars
<1>0. toDaemon \in Seq(Message) /\ Len(toDaemon) \in Nat
  BY DEF IInv, TypeOK
<1>1. ASSUME NEW a \in owed, DeviceAnswer(a)
      PROVE  FrameInv'
  <2> DEFINE m == [kind |-> "res", id |-> a.id, ok |-> a.ok]
  <2>1. m \in Message /\ m.kind = "res"
    BY DEF IInv, TypeOK, Message
  <2> HIDE DEF m
  <2>2. toDaemon' = Append(toDaemon, m)
    BY <1>1 DEF DeviceAnswer, m
  <2>3. /\ toDaemon' \in Seq(Message)
        /\ \A k \in 1..Len(toDaemon') : IsFrame(k)' =>
              k \in 1..Len(toDaemon) /\ toDaemon'[k] = toDaemon[k]
    BY <1>0, <2>1, <2>2, AppendProperties DEF IsFrame
  <2>4. QED
    BY <1>1, <2>3, WireFrames DEF DeviceAnswer
<1>2. ASSUME NEW i \in shots, NEW captured \in BOOLEAN, DeviceFrame(i, captured)
      PROVE  FrameInv'
  <2> DEFINE m == [kind |-> "frame", id |-> i]
  <2>1. m \in Message /\ m.id = i
    BY DEF IInv, TypeOK, Message
  <2> HIDE DEF m
  <2>2. toDaemon' = toDaemon \/ toDaemon' = Append(toDaemon, m)
    BY <1>2 DEF DeviceFrame, m
  <2>3. /\ toDaemon' \in Seq(Message)
        /\ \A k \in 1..Len(toDaemon') :
              \/ k \in 1..Len(toDaemon) /\ toDaemon'[k] = toDaemon[k]
              \/ k = Len(toDaemon') /\ toDaemon'[k] = m
    BY <1>0, <2>1, <2>2, AppendProperties
  <2>4. shots' = shots \ {i}
    BY <1>2 DEF DeviceFrame
  <2>5. QED
    BY <1>2, <2>1, <2>3, <2>4, WireFrames DEF DeviceFrame
<1>3. CASE DeviceTick
  BY <1>0, <1>3, WireFrames DEF DeviceTick, IsFrame
<1>4. CASE DeviceBye
  <2> DEFINE m == [kind |-> "bye"]
  <2>1. m \in Message /\ m.kind = "bye"
    BY DEF Message
  <2> HIDE DEF m
  <2>2. toDaemon' = Append(toDaemon, m)
    BY <1>4 DEF DeviceBye, m
  <2>3. /\ toDaemon' \in Seq(Message)
        /\ \A k \in 1..Len(toDaemon') : IsFrame(k)' =>
              k \in 1..Len(toDaemon) /\ toDaemon'[k] = toDaemon[k]
    BY <1>0, <2>1, <2>2, AppendProperties DEF IsFrame
  <2>4. QED
    BY <1>4, <2>3, WireFrames DEF DeviceBye, deviceVars
<1>5. CASE NetworkDrop
  <2>1. PICK n \in 0..Len(toDaemon) : toDaemon' = SubSeq(toDaemon, 1, n)
    BY <1>5 DEF NetworkDrop
  <2>2. /\ toDaemon' \in Seq(Message)
        /\ \A k \in 1..Len(toDaemon') : k \in 1..Len(toDaemon) /\ toDaemon'[k] = toDaemon[k]
    BY <1>0, <2>1
  <2>3. QED
    BY <1>5, <2>2, WireFrames DEF NetworkDrop, deviceVars
<1>6. QED
  BY <1>1, <1>2, <1>3, <1>4, <1>5 DEF Device

LEMMA NextFrames ==
    ASSUME IInv, FrameInv, [Next]_vars
    PROVE  FrameInv'
<1>1. ASSUME NEW t \in Tasks, TaskStep(t) \/ Resume(t) \/ Timer(t)
      PROVE  FrameInv'
  BY <1>1, TaskStepFrames, SendEndsFrames, ResponseReturnFrames, BlobReturnFrames,
     TimerFrames DEF Resume
<1>2. CASE Pump
  BY <1>2, PumpMessageFrames, PumpEndFrames DEF Pump
<1>3. CASE Device
  BY <1>3, DeviceHandleFrames, DeviceFrames
<1>4. CASE UNCHANGED vars
  BY <1>4 DEF vars, daemonVars, wireVars, deviceVars, FrameInv, FramesHandled, FramesMatch,
              WaitersAwait, OnePlace, FrameUsedOnce, IsFrame
<1>5. QED
  BY <1>1, <1>2, <1>3, <1>4 DEF Next

\* Where each frame is, in every state of the session.
THEOREM FrameInvariance == Spec => []FrameInv
<1>1. QED
  BY InitFrames, NextFrames, Invariance, PTL DEF Spec

\* The frame an observe returns is of the version of the tree it returns, in whatever order
\* response, frame, timer and second observe come: a waiter stays registered under the
\* version of its own tree only, and a buffered frame under its own.
THEOREM ImagesCorrect == Spec => []ImageMatchesTree
<1>1. FrameInv => ImageMatchesTree
  BY DEF FrameInv, FramesMatch, ImageMatchesTree
<1>2. QED
  BY <1>1, FrameInvariance, PTL

\* No frame is handed to two callers, or kept after it was handed to one: a frame is in one
\* place from its capture on, and a handled request is never taken in again.
THEOREM FramesUsedOnce == Spec => []FrameUsedOnce
<1>1. FrameInv => FrameUsedOnce
  BY DEF FrameInv, OnePlace
<1>2. QED
  BY <1>1, FrameInvariance, PTL

-----------------------------------------------------------------------------
(* DeviceSession implements RequestCycle *)

\* The phase of one request, as the refinement mapping reads it off the future and the
\* dictionary.
PhaseOf(i) ==
    CASE future[i] \in {"ok", "error"}          -> "answered"
      [] future[i] \in {"offline", "cancelled"} -> "failed"
      [] future[i] = "unset" /\ i \in pending    -> "open"
      [] OTHER                                  -> "free"

\* The refinement mapping, request by request.
LEMMA CycleIsPhase == Cycle = [i \in Ids |-> PhaseOf(i)]
BY DEF Cycle, PhaseOf

\* PhaseOf, one phase at a time.
LEMMA Phases ==
    ASSUME TypeOK, NEW i \in Ids
    PROVE  /\ Cycle[i] = "answered" <=> future[i] \in {"ok", "error"}
           /\ Cycle[i] = "failed" <=> future[i] \in {"offline", "cancelled"}
           /\ Cycle[i] = "open" <=> future[i] = "unset" /\ i \in pending
           /\ Cycle[i] = "free" <=> future[i] = "unset" /\ i \notin pending
<1>1. future[i] \in {"unset", "ok", "error", "offline", "cancelled"}
  BY DEF TypeOK
<1>2. Cycle[i] = PhaseOf(i)
  BY CycleIsPhase
<1>3. QED
  BY <1>1, <1>2 DEF PhaseOf

\* A step that leaves the futures alone, and unparks none that is not done, is a stutter.
LEMMA Stutter ==
    ASSUME TypeOK, future' = future, handled' = handled,
           \A i \in Ids : future[i] = "unset" => (i \in pending' <=> i \in pending)
    PROVE  UNCHANGED Abstract!vars
<1>1. \A i \in Ids : PhaseOf(i)' = PhaseOf(i)
  BY DEF PhaseOf, TypeOK
<1>2. Cycle' = Cycle
  BY <1>1 DEF Cycle, PhaseOf
<1>3. QED
  BY <1>2 DEF Abstract!vars

\* The initial states of the session are initial states of RequestCycle.
LEMMA InitSimulates == Init => Abstract!Init
<1> SUFFICES ASSUME Init PROVE Abstract!Init
  OBVIOUS
<1>1. Cycle = [i \in Ids |-> "free"]
  BY DEF Init, Cycle
<1>2. QED
  BY <1>1 DEF Init, Abstract!Init

\* request() opens the cycle of a fresh id.
LEMMA RequestSimulates ==
    ASSUME IInv, NEW t \in Tasks, NEW w \in Verbs, Request(t, w)
    PROVE  \E i \in Ids : Abstract!Issue(i)
<1> DEFINE n == nextId + 1
<1>1. n \in Ids /\ future[n] = "unset" /\ n \notin pending
  BY SessionAssumption DEF IInv, TypeOK, FreshUntouched, Parked, Request, Ids
<1>2. future' = future /\ handled' = handled /\ pending' = pending \cup {n}
  BY DEF Request, FreshId, deviceVars
<1>3. Cycle[n] = "free" /\ Cycle'[n] = "open"
  BY <1>1, <1>2 DEF Cycle
<1>4. \A i \in Ids \ {n} : Cycle'[i] = Cycle[i]
  BY <1>2 DEF Cycle
<1>5. Cycle' = [Cycle EXCEPT ![n] = "open"]
  BY <1>1, <1>3, <1>4 DEF Cycle
<1>6. Abstract!Issue(n)
  BY <1>2, <1>3, <1>5 DEF Abstract!Issue
<1>7. QED
  BY <1>1, <1>6

\* A set of open requests whose futures get an offline error or a cancellation, with the
\* rest left alone, is one Fail; an empty set is a stutter.
LEMMA FailSimulates ==
    ASSUME IInv, NEW S \in SUBSET Ids, handled' = handled, TypeOK',
           \A i \in S : future[i] = "unset" /\ i \in pending,
           \A i \in S : future'[i] \in {"offline", "cancelled"},
           \A i \in Ids \ S : future'[i] = future[i],
           \A i \in Ids \ S : future[i] = "unset" => (i \in pending' <=> i \in pending)
    PROVE  [Abstract!Next]_(Abstract!vars)
<1>1. \A i \in S : Cycle[i] = "open" /\ Cycle'[i] = "failed"
  BY DEF Cycle
<1>2. ASSUME NEW i \in Ids \ S
      PROVE  Cycle'[i] = Cycle[i]
  <2>1. i \in Ids /\ future'[i] = future[i]
    OBVIOUS
  <2>2. PhaseOf(i)' = PhaseOf(i)
    BY <2>1 DEF PhaseOf
  <2>3. Cycle[i] = PhaseOf(i) /\ Cycle'[i] = PhaseOf(i)'
    BY <2>1, CycleIsPhase DEF Cycle, PhaseOf
  <2>4. QED
    BY <2>2, <2>3
<1>3. Cycle' = [i \in Ids |-> IF i \in S THEN "failed" ELSE Cycle[i]]
  BY <1>1, <1>2 DEF Cycle
<1>4. CASE S = {}
  <2>1. Cycle' = Cycle
    BY <1>2, <1>4 DEF Cycle
  <2>2. QED
    BY <2>1 DEF Abstract!vars
<1>5. CASE S # {}
  <2>1. Abstract!Fail(S)
    BY <1>1, <1>3, <1>5 DEF Abstract!Fail
  <2>2. QED
    BY <2>1 DEF Abstract!Next
<1>6. QED
  BY <1>4, <1>5

\* A timer of a response is Fail of one request; a timer of a frame is a stutter.
LEMMA TimerSimulates ==
    ASSUME IInv, NEW t \in Tasks, Timer(t), TypeOK'
    PROVE  [Abstract!Next]_(Abstract!vars)
<1>1. CASE pc[t] = "response"
  <2>1. call[t] \in Ids /\ future[call[t]] = "unset" /\ call[t] \in pending
    BY <1>1, SessionAssumption DEF Timer, TimerOf, IInv, TypeOK, CallsIssued, Parked, Ids
  <2>2. /\ future' = [future EXCEPT ![call[t]] = "cancelled"]
        /\ handled' = handled /\ pending' = pending
    BY <1>1 DEF Timer, deviceVars
  <2>3. future'[call[t]] = "cancelled" /\ \A i \in Ids \ {call[t]} : future'[i] = future[i]
    BY <2>1, <2>2 DEF IInv, TypeOK
  <2> DEFINE S == {call[t]}
  <2>4. /\ S \in SUBSET Ids
        /\ \A i \in S : future[i] = "unset" /\ i \in pending /\ future'[i] = "cancelled"
        /\ \A i \in Ids \ S : future'[i] = future[i]
    BY <2>1, <2>3
  <2> HIDE DEF S
  <2>5. QED
    BY <2>2, <2>4, FailSimulates
<1>2. CASE pc[t] # "response"
  BY <1>2, Stutter DEF Timer, deviceVars, IInv
<1>3. QED
  BY <1>1, <1>2

\* The pump's finally is Fail of all that is open, or a stutter when nothing is.
LEMMA PumpEndSimulates ==
    ASSUME IInv, PumpEnd, TypeOK'
    PROVE  [Abstract!Next]_(Abstract!vars)
<1> DEFINE S == {i \in pending : future[i] = "unset"}
<1>1. S \in SUBSET Ids
  BY DEF IInv, TypeOK
<1>2. /\ \A i \in S : future'[i] = "offline"
      /\ \A i \in Ids \ S : /\ future'[i] = future[i]
                            /\ future[i] = "unset" => i \notin pending
      /\ pending' = {} /\ handled' = handled
  BY <1>1 DEF PumpEnd, FailPending, deviceVars
<1>3. QED
  BY <1>1, <1>2, FailSimulates

\* A response answers a request that is still open, and changes nothing otherwise.
LEMMA PumpMessageSimulates ==
    ASSUME IInv, PumpMessage, TypeOK'
    PROVE  [Abstract!Next]_(Abstract!vars)
<1> DEFINE m == Head(toDaemon)
<1>1. m \in Message /\ m = toDaemon[1] /\ Len(toDaemon) \in Nat /\ Len(toDaemon) >= 1
  <2>1. toDaemon \in Seq(Message) /\ toDaemon # <<>>
    BY DEF PumpMessage, IInv, TypeOK
  <2>2. QED
    BY <2>1, HeadTailProperties
<1>2. handled' = handled
  BY DEF PumpMessage, deviceVars
<1>3. CASE m.kind = "res" /\ HandleRes(m)
  <2>1. m.id \in Ids /\ m.id \in handled
    BY <1>1, <1>3 DEF Message, IInv, AnswersHandled
  <2>2. CASE m.id \in pending /\ future[m.id] = "unset"
    <3>1. /\ future'[m.id] \in {"ok", "error"}
          /\ \A i \in Ids \ {m.id} : future'[i] = future[i] /\ (i \in pending' <=> i \in pending)
      BY <1>3, <2>1, <2>2 DEF HandleRes, SetUnlessDone, IInv, TypeOK
    <3>2. Cycle[m.id] = "open" /\ Cycle'[m.id] = "answered"
      BY <2>1, <2>2, <3>1 DEF Cycle
    <3>3. \A i \in Ids \ {m.id} : Cycle'[i] = Cycle[i]
      BY <3>1 DEF Cycle
    <3>4. Cycle' = [Cycle EXCEPT ![m.id] = "answered"]
      BY <2>1, <3>2, <3>3 DEF Cycle
    <3>5. Abstract!Answer(m.id)
      BY <1>2, <2>1, <3>2, <3>4 DEF Abstract!Answer
    <3>6. QED
      BY <2>1, <3>5 DEF Abstract!Next
  <2>3. CASE ~(m.id \in pending /\ future[m.id] = "unset")
    BY <1>2, <1>3, <2>1, <2>3, Stutter DEF HandleRes, SetUnlessDone, IInv
  <2>4. QED
    BY <2>2, <2>3
<1>4. CASE HandleFrame(m) \/ HandleBye
  BY <1>2, <1>4, Stutter DEF HandleFrame, HandleBye, IInv
<1>5. QED
  BY <1>3, <1>4 DEF PumpMessage

\* The device takes in a request that is open or failed, never one it had before.
LEMMA DeviceHandleSimulates ==
    ASSUME IInv, NEW ok \in BOOLEAN, DeviceHandle(ok)
    PROVE  \E i \in Ids : Abstract!Handle(i)
<1> DEFINE i == Head(toDevice)
<1>1. i \in Ids /\ i = toDevice[1] /\ Len(toDevice) \in Nat /\ Len(toDevice) >= 1
  <2>1. toDevice \in Seq(Ids) /\ toDevice # <<>>
    BY DEF DeviceHandle, IInv, TypeOK
  <2>2. QED
    BY <2>1, HeadTailProperties
<1>2. i \in 1..nextId /\ i \notin handled
  BY <1>1, SessionAssumption DEF IInv, InTransit, TypeOK, Ids
<1>3. Cycle[i] \in {"open", "failed"}
  BY <1>1, <1>2, Phases DEF IInv, TypeOK, Parked, AnswersHandled
<1>4. Cycle' = Cycle /\ handled' = handled \cup {i}
  BY DEF DeviceHandle, daemonVars, Cycle
<1>5. Abstract!Handle(i)
  BY <1>2, <1>3, <1>4 DEF Abstract!Handle
<1>6. QED
  BY <1>1, <1>5

\* Every step of the session is a step of RequestCycle or a stutter.
LEMMA StepSimulates ==
    ASSUME IInv, IInv', [Next]_vars
    PROVE  [Abstract!Next]_(Abstract!vars)
<1> USE DEF IInv
<1>1. ASSUME NEW t \in Tasks,
             RequestOffline(t) \/ SendReturns(t) \/ SendRaises(t) \/ BlobReturn(t)
      PROVE  UNCHANGED Abstract!vars
  BY <1>1, Stutter DEF RequestOffline, SendReturns, SendRaises, BlobReturn, deviceVars
<1>2. ASSUME NEW t \in Tasks, ResponseReturn(t)
      PROVE  UNCHANGED Abstract!vars
  BY <1>2, Stutter DEF ResponseReturn, deviceVars
<1>3. ASSUME NEW t \in Tasks, TaskStep(t) \/ Resume(t) \/ Timer(t)
      PROVE  [Abstract!Next]_(Abstract!vars)
  BY <1>1, <1>2, <1>3, RequestSimulates, TimerSimulates DEF TaskStep, Resume, Abstract!Next
<1>4. CASE Pump
  BY <1>4, PumpMessageSimulates, PumpEndSimulates DEF Pump
<1>5. CASE \E ok \in BOOLEAN : DeviceHandle(ok)
  BY <1>5, DeviceHandleSimulates DEF Abstract!Next
<1>6. CASE Device /\ ~(\E ok \in BOOLEAN : DeviceHandle(ok))
  <2>1. UNCHANGED <<daemonVars, handled>>
    BY <1>6 DEF Device, DeviceAnswer, DeviceFrame, DeviceTick, DeviceBye, NetworkDrop,
                deviceVars
  <2>2. QED
    BY <2>1, Stutter DEF daemonVars
<1>7. CASE UNCHANGED vars
  BY <1>7, Stutter DEF vars, daemonVars, deviceVars
<1>8. QED
  BY <1>3, <1>4, <1>5, <1>6, <1>7 DEF Next

\* DeviceSession implements RequestCycle: whatever the callers, their timers, the pump, the
\* device and the network do, in any order, a request ends once, is answered only if the
\* device took it in, and a late response never revives one that failed.
THEOREM Refinement == Spec => ImplementsRequestCycle
<1>1. QED
  BY InitSimulates, StepSimulates, Invariance, PTL
  DEF Spec, ImplementsRequestCycle, Abstract!Spec

=============================================================================

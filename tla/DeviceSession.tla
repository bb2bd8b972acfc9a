--------------------------- MODULE DeviceSession ---------------------------
(***************************************************************************)
(* controller/a11y/device_session.py, class DeviceSession: the request /   *)
(* response mux and event pump over one device WebSocket.                  *)
(*                                                                         *)
(* Several tasks share a session (the host tools of one batched turn).     *)
(* asyncio runs one of them at a time and switches only at an await, so a  *)
(* stretch of code between two awaits is one action.  A future's result    *)
(* and its waiter's resumption are two steps: what the pump does between   *)
(* them matters.  The device and the wire are the environment.             *)
(***************************************************************************)
EXTENDS Naturals, Sequences

CONSTANTS Tasks,        \* the coroutines that call the session
          NoTask,       \* no waiter registered
          MaxId,        \* bound: requests one session sends
          MaxVersion    \* bound: snapshot versions the device reaches

ASSUME SessionAssumption ==
    /\ NoTask \notin Tasks
    /\ MaxId \in Nat /\ MaxVersion \in Nat

Ids == 1..MaxId
Versions == 0..MaxVersion
Verbs == {"observe", "other"}

VARIABLES
    alive,        \* _alive
    pumping,      \* pump() has not returned
    nextId,       \* _id
    pending,      \* keys of _pending
    future,       \* state of the future of each request
    blobs,        \* _blobs: the request whose frame is buffered per version, or 0
    blobWaiters,  \* _blob_waiters: the task whose future is registered per version
    blobFuture,   \* state of the future each task awaits in _await_blob
    pc, call, image,       \* per task: where it is, its request, its frame
    verb,         \* per request
    socket,       \* "open" | "closed"
    toDevice, toDaemon,    \* the two directions of the socket
    handled, owed, shots, clock, treeVersion  \* the device

daemonVars == <<alive, pumping, nextId, pending, future, blobs, blobWaiters,
                blobFuture, pc, call, image, verb>>
wireVars == <<socket, toDevice, toDaemon>>
deviceVars == <<handled, owed, shots, clock, treeVersion>>
vars == <<daemonVars, wireVars, deviceVars>>

Message == [kind : {"res"}, id : Ids, ok : BOOLEAN]
             \cup [kind : {"frame"}, id : Ids] \cup [kind : {"bye"}]

TypeOK ==
    /\ alive \in BOOLEAN /\ pumping \in BOOLEAN
    /\ nextId \in 0..MaxId
    /\ pending \in SUBSET Ids
    /\ future \in [Ids -> {"unset", "ok", "error", "offline", "cancelled"}]
    /\ blobs \in [Versions -> 0..MaxId]
    /\ blobWaiters \in [Versions -> Tasks \cup {NoTask}]
    /\ blobFuture \in [Tasks -> {"unset", "frame", "offline", "cancelled"}]
    /\ pc \in [Tasks -> {"idle", "send", "response", "blob"}]
    /\ call \in [Tasks -> 0..MaxId]
    /\ image \in [Tasks -> 0..MaxId]
    /\ verb \in [Ids -> Verbs]
    /\ socket \in {"open", "closed"}
    /\ toDevice \in Seq(Ids)
    /\ toDaemon \in Seq(Message)
    /\ handled \in SUBSET Ids
    /\ owed \in SUBSET [id : Ids, ok : BOOLEAN]
    /\ shots \in SUBSET Ids
    /\ clock \in Versions
    /\ treeVersion \in [Ids -> Versions]

Init ==
    /\ alive = TRUE /\ pumping = TRUE /\ nextId = 0 /\ pending = {}
    /\ future = [i \in Ids |-> "unset"]
    /\ blobs = [v \in Versions |-> 0]
    /\ blobWaiters = [v \in Versions |-> NoTask]
    /\ blobFuture = [t \in Tasks |-> "unset"]
    /\ pc = [t \in Tasks |-> "idle"]
    /\ call = [t \in Tasks |-> 0]
    /\ image = [t \in Tasks |-> 0]
    /\ verb = [i \in Ids |-> "other"]
    /\ socket = "open" /\ toDevice = <<>> /\ toDaemon = <<>>
    /\ handled = {} /\ owed = {} /\ shots = {} /\ clock = 0
    /\ treeVersion = [i \in Ids |-> 0]

(***************************************************************************)
(* Mutated forms of definitions below: the slips the properties exclude.   *)
(***************************************************************************)
Refused_NoCheck(t) == FALSE
FreshId_BeforeIncrement == nextId
SetUnlessDone_NoCheck(i, value) == [future EXCEPT ![i] = value]
TakeBlob_Peek(t, v) == image' = [image EXCEPT ![t] = blobs[v]] /\ UNCHANGED blobs
VersionOfFrame_AtCapture(i) == clock
TimerOf_ResponseOnly(t) == pc[t] = "response" /\ future[call[t]] = "unset"

-----------------------------------------------------------------------------
(* request(), 116-133.  A task is at "send" while ws.send is suspended, at     *)
(* "response" while it awaits its future, at "blob" while it awaits its frame. *)

Return(t) == pc' = [pc EXCEPT ![t] = "idle"]

\* The first line of request(): a dead session is refused at once.
Refused(t) == ~alive

RequestOffline(t) ==
    /\ pc[t] = "idle"
    /\ Refused(t)
    /\ Return(t)
    /\ image' = [image EXCEPT ![t] = 0]
    /\ UNCHANGED <<alive, pumping, nextId, pending, future, blobs, blobWaiters,
                   blobFuture, call, verb, wireVars, deviceVars>>

\* _next_id, 109-111: ids start at 1 on each connection.
FreshId == nextId + 1

\* The future is parked before the frame is sent, and ws.send may suspend before the
\* timer exists.  On a socket that closed while the pump still reads, it raises
\* ConnectionClosed past the parked future.
Request(t, w) ==
    /\ pc[t] = "idle"
    /\ ~Refused(t)
    /\ nextId < MaxId
    /\ nextId' = FreshId
    /\ pending' = pending \cup {nextId'}
    /\ verb' = [verb EXCEPT ![nextId'] = w]
    /\ call' = [call EXCEPT ![t] = nextId']
    /\ image' = [image EXCEPT ![t] = 0]
    /\ \/ /\ socket = "open"
          /\ toDevice' = Append(toDevice, nextId')
          /\ pc' = [pc EXCEPT ![t] = "send"]
       \/ /\ socket = "closed"
          /\ Return(t)
          /\ UNCHANGED toDevice
    /\ UNCHANGED <<alive, pumping, future, blobs, blobWaiters, blobFuture,
                   socket, toDaemon, deviceVars>>

\* ws.send returns once the transport's buffer has drained, or raises when the socket
\* closed first; the future stays parked, and its timer starts only after the send.
SendReturns(t) ==
    /\ pc[t] = "send"
    /\ pc' = [pc EXCEPT ![t] = "response"]
    /\ UNCHANGED <<alive, pumping, nextId, pending, future, blobs, blobWaiters,
                   blobFuture, call, image, verb, wireVars, deviceVars>>

SendRaises(t) ==
    /\ pc[t] = "send"
    /\ socket = "closed"
    /\ Return(t)
    /\ UNCHANGED <<alive, pumping, nextId, pending, future, blobs, blobWaiters,
                   blobFuture, call, image, verb, wireVars, deviceVars>>

\* What the two wait_for timers watch: a response future and a blob future.
TimerOf(t) ==
    \/ pc[t] = "response" /\ future[call[t]] = "unset"
    \/ pc[t] = "blob" /\ blobFuture[t] = "unset"

\* A timer cancels the future; its dictionary entry stays until the task resumes.
Timer(t) ==
    /\ TimerOf(t)
    /\ IF pc[t] = "response"
       THEN /\ future' = [future EXCEPT ![call[t]] = "cancelled"]
            /\ UNCHANGED blobFuture
       ELSE /\ blobFuture' = [blobFuture EXCEPT ![t] = "cancelled"]
            /\ UNCHANGED future
    /\ UNCHANGED <<alive, pumping, nextId, pending, blobs, blobWaiters,
                   pc, call, image, verb, wireVars, deviceVars>>

\* _await_blob, its first lines: pop a buffered frame, else register a waiter.
TakeBlob(t, v) ==
    /\ image' = [image EXCEPT ![t] = blobs[v]]
    /\ blobs' = [blobs EXCEPT ![v] = 0]

AwaitBlob(t, v) ==
    IF blobs[v] # 0
    THEN /\ TakeBlob(t, v)
         /\ Return(t)
         /\ UNCHANGED <<blobWaiters, blobFuture>>
    ELSE /\ blobWaiters' = [blobWaiters EXCEPT ![v] = t]
         /\ pc' = [pc EXCEPT ![t] = "blob"]
         /\ UNCHANGED <<blobFuture, blobs, image>>

\* The task resumes: TIMEOUT pops the entry, a response returns or raises, and
\* observe() goes on to its frame without an await in between.
ResponseReturn(t) ==
    LET i == call[t] IN
    /\ pc[t] = "response"
    /\ future[i] # "unset"
    /\ IF future[i] = "ok" /\ verb[i] = "observe"
       THEN AwaitBlob(t, treeVersion[i])
       ELSE /\ Return(t)
            /\ UNCHANGED <<blobs, blobWaiters, blobFuture, image>>
    /\ pending' = pending \ {i}
    /\ UNCHANGED <<alive, pumping, nextId, future, call, verb, wireVars,
                   deviceVars>>

-----------------------------------------------------------------------------
(* _await_blob, its end, 203-208 *)

\* On a timeout the key is popped, whoever's future it holds by now.
BlobReturn(t) ==
    LET v == treeVersion[call[t]] IN
    /\ pc[t] = "blob"
    /\ blobFuture[t] # "unset"
    /\ Return(t)
    /\ blobFuture' = [blobFuture EXCEPT ![t] = "unset"]
    /\ blobWaiters' = IF blobFuture[t] = "cancelled"
                      THEN [blobWaiters EXCEPT ![v] = NoTask] ELSE blobWaiters
    /\ UNCHANGED <<alive, pumping, nextId, pending, future, blobs, call, image,
                   verb, wireVars, deviceVars>>

-----------------------------------------------------------------------------
(* pump(), 211-281 *)

SetUnlessDone(i, value) ==
    IF future[i] = "unset" THEN [future EXCEPT ![i] = value] ELSE future

\* _handle_text, kind "res".
HandleRes(m) ==
    /\ pending' = pending \ {m.id}
    /\ future' = IF m.id \in pending
                 THEN SetUnlessDone(m.id, IF m.ok THEN "ok" ELSE "error")
                 ELSE future
    /\ UNCHANGED <<alive, blobs, blobWaiters, blobFuture, image>>

\* The snapshotVersion in the frame's header.
VersionOfFrame(i) == treeVersion[i]

\* _handle_binary: to the registered waiter unless its future is done, else buffered.
HandleFrame(m) ==
    LET v == VersionOfFrame(m.id)
        w == blobWaiters[v] IN
    /\ blobWaiters' = [blobWaiters EXCEPT ![v] = NoTask]
    /\ IF w # NoTask /\ blobFuture[w] = "unset"
       THEN /\ blobFuture' = [blobFuture EXCEPT ![w] = "frame"]
            /\ image' = [image EXCEPT ![w] = m.id]
            /\ UNCHANGED blobs
       ELSE /\ blobs' = [blobs EXCEPT ![v] = m.id]
            /\ UNCHANGED <<blobFuture, image>>
    /\ UNCHANGED <<alive, pending, future>>

\* _handle_event, bye: the session is marked dead, nothing in flight is failed yet.
HandleBye ==
    /\ alive' = FALSE
    /\ UNCHANGED <<pending, future, blobs, blobWaiters, blobFuture, image>>

PumpMessage ==
    /\ pumping
    /\ toDaemon # <<>>
    /\ toDaemon' = Tail(toDaemon)
    /\ LET m == Head(toDaemon) IN
       \/ m.kind = "res" /\ HandleRes(m)
       \/ m.kind = "frame" /\ HandleFrame(m)
       \/ m.kind = "bye" /\ HandleBye
    /\ UNCHANGED <<pumping, nextId, pc, call, verb, socket, toDevice, deviceVars>>

\* _fail_pending: every parked future that is not done, of both dictionaries.
FailPending ==
    /\ future' = [i \in Ids |-> IF i \in pending /\ future[i] = "unset"
                                THEN "offline" ELSE future[i]]
    /\ pending' = {}
    /\ blobFuture' = [t \in Tasks |->
                        IF blobFuture[t] = "unset" /\ \E v \in Versions : blobWaiters[v] = t
                        THEN "offline" ELSE blobFuture[t]]
    /\ blobWaiters' = [v \in Versions |-> NoTask]

\* pump() reads what arrived before the close, or leaves earlier, on a socket that may
\* still be open, when a handler raises on the message it took; its finally runs.
PumpEnd ==
    /\ pumping
    /\ \/ toDaemon = <<>> /\ socket = "closed" /\ UNCHANGED toDaemon
       \/ toDaemon # <<>> /\ toDaemon' = Tail(toDaemon)
    /\ pumping' = FALSE
    /\ alive' = FALSE
    /\ FailPending
    /\ UNCHANGED <<nextId, blobs, pc, call, image, verb, socket, toDevice,
                   deviceVars>>

-----------------------------------------------------------------------------
(* The device and the network, as the session sees them. *)

\* Requests are taken in as sent; the snapshot version is read at that moment.
DeviceHandle(ok) ==
    LET i == Head(toDevice) IN
    /\ socket = "open"
    /\ toDevice # <<>>
    /\ toDevice' = Tail(toDevice)
    /\ handled' = handled \cup {i}
    /\ treeVersion' = [treeVersion EXCEPT ![i] = clock]
    /\ owed' = owed \cup {[id |-> i, ok |-> ok]}
    /\ shots' = IF ok /\ verb[i] = "observe" THEN shots \cup {i} ELSE shots
    /\ UNCHANGED <<daemonVars, socket, toDaemon, clock>>

\* Answers leave in any order: captures and settle waits run beside the inbox.
DeviceAnswer(a) ==
    /\ socket = "open"
    /\ a \in owed
    /\ owed' = owed \ {a}
    /\ toDaemon' = Append(toDaemon, [kind |-> "res", id |-> a.id, ok |-> a.ok])
    /\ UNCHANGED <<daemonVars, socket, toDevice, handled, shots, clock, treeVersion>>

\* A frame follows or precedes its response, or the capture fails and none comes.
DeviceFrame(i, captured) ==
    /\ socket = "open"
    /\ i \in shots
    /\ shots' = shots \ {i}
    /\ toDaemon' = IF captured THEN Append(toDaemon, [kind |-> "frame", id |-> i])
                   ELSE toDaemon
    /\ UNCHANGED <<daemonVars, socket, toDevice, handled, owed, clock, treeVersion>>

DeviceTick ==
    /\ socket = "open"
    /\ clock < MaxVersion
    /\ clock' = clock + 1
    /\ UNCHANGED <<daemonVars, wireVars, handled, owed, shots, treeVersion>>

\* An orderly disconnect sends a bye first; a drop loses a tail of what was sent.
DeviceBye ==
    /\ socket = "open"
    /\ toDaemon' = Append(toDaemon, [kind |-> "bye"])
    /\ socket' = "closed"
    /\ toDevice' = <<>>
    /\ UNCHANGED <<daemonVars, deviceVars>>

NetworkDrop ==
    /\ socket = "open"
    /\ socket' = "closed"
    /\ toDevice' = <<>>
    /\ \E n \in 0..Len(toDaemon) : toDaemon' = SubSeq(toDaemon, 1, n)
    /\ UNCHANGED <<daemonVars, deviceVars>>

-----------------------------------------------------------------------------
TaskStep(t) ==
    \/ RequestOffline(t)
    \/ \E w \in Verbs : Request(t, w)

\* What the event loop and its timers will do sooner or later.
Resume(t) ==
    \/ SendReturns(t) \/ SendRaises(t)
    \/ ResponseReturn(t) \/ BlobReturn(t)
Pump == PumpMessage \/ PumpEnd

Device ==
    \/ \E ok \in BOOLEAN : DeviceHandle(ok)
    \/ \E a \in owed : DeviceAnswer(a)
    \/ \E i \in shots, captured \in BOOLEAN : DeviceFrame(i, captured)
    \/ DeviceTick \/ DeviceBye \/ NetworkDrop

Next ==
    \/ \E t \in Tasks : TaskStep(t) \/ Resume(t) \/ Timer(t)
    \/ Pump
    \/ Device

Spec == Init /\ [][Next]_vars

\* Timers fire and ready coroutines run: the event loop guarantees it.  A suspended send
\* ends, since the buffer drains or the keepalive (328) closes the socket under it.
\* Nothing else is assumed of callers, device or network.
Fairness ==
    /\ \A t \in Tasks : WF_vars(Resume(t)) /\ WF_vars(Timer(t))
    /\ WF_vars(Pump)

FairSpec == Spec /\ Fairness

-----------------------------------------------------------------------------
(* Properties *)

\* Once pump() has returned no request is parked, and no caller is on its way to, or in,
\* a wait for a response that cannot come: _fail_pending rejected what was in flight and
\* request() refuses later calls (device_session.py:62-65, 116-133).  It says nothing of
\* frames: an observe whose response was already in may register for its frame after the
\* pump has ended, and waits out its 5 s (199-208).
NoStrandedRequest ==
    ~pumping =>
        /\ pending = {}
        /\ \A t \in Tasks : pc[t] \in {"send", "response"} => future[call[t]] # "unset"

\* The frame an observe returns describes the tree's snapshot version: the reunion of
\* 195-208 and 260-270 never hands a caller the frame of another version.
ImageMatchesTree ==
    \A t \in Tasks : image[t] # 0 => treeVersion[image[t]] = treeVersion[call[t]]

\* A frame is consumed by one observe: whatever the order of frame, response and
\* timeout, no frame is handed to two callers or kept for a later one.
FrameUsedOnce ==
    \A t \in Tasks : image[t] # 0 =>
        /\ \A u \in Tasks \ {t} : image[u] # image[t]
        /\ \A v \in Versions : blobs[v] # image[t]

\* Every call returns, whatever the device and the network do: the timers bound it.
EveryCallReturns == \A t \in Tasks : pc[t] # "idle" ~> pc[t] = "idle"

\* The session implements RequestCycle: a request ends once, answered only if the
\* device took it in, and a late response never revives one that failed.
Cycle == [i \in Ids |->
    CASE future[i] \in {"ok", "error"}          -> "answered"
      [] future[i] \in {"offline", "cancelled"} -> "failed"
      [] future[i] = "unset" /\ i \in pending    -> "open"
      [] OTHER                                  -> "free"]

Abstract == INSTANCE RequestCycle WITH cycle <- Cycle
ImplementsRequestCycle == Abstract!Spec
=============================================================================

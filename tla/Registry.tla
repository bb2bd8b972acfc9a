------------------------------ MODULE Registry ------------------------------
(***************************************************************************)
(* The server side of device connections: BridgeServer of                  *)
(* controller/a11y/device_session.py (registry, hello, teardown,           *)
(* wait_for_device), with its three users (connect_device of host_tools,   *)
(* connect_cb and reacquire of run_controller, the recovery of Controller) *)
(* over the dial loop of the device (WsClient.kt).                         *)
(*                                                                         *)
(* A connection has two ends that learn of its end at different times:     *)
(* between the two the socket is half-open.  Server code between two       *)
(* awaits is one step; the condition's lock is never held across one.      *)
(***************************************************************************)
EXTENDS Naturals, Sequences, FiniteSets

CONSTANTS Devices,   \* device ids
          Tasks,     \* tool calls that may run at once
          Nobody,    \* no device
          MaxConn,   \* bound: connections dialled
          Overtaken  \* may a device's hellos be handled out of order?

ASSUME RegistryAssumption ==
    /\ Nobody \notin Devices
    /\ MaxConn \in Nat
    /\ Overtaken \in BOOLEAN

Conns == 1..MaxConn
None == 0

VARIABLES
    loop,       \* connectLoop: stopped, about to dial (backoff included), awaiting `closed`
    awaited,    \* the connection whose `closed` the loop awaits
    webSocket,  \* WsClient.webSocket
    conn,       \* per connection: device, its two ends, a bye under way
    dialled,    \* connections dialled so far
    hellos,     \* hello frames sent and not read
    devices,    \* BridgeServer._devices
    session,    \* per connection: DeviceSession.alive
    announced,  \* on_registry_change: what the operator was last told of an id
    task,       \* per tool call: control point, device, session, whether it binds
    held,       \* _session of the controller of each device
    bound       \* the device whose screen tools are registered

deviceVars == <<loop, awaited, webSocket, dialled>>
serverVars == <<devices, session, announced>>
toolVars == <<task, held, bound>>
vars == <<deviceVars, conn, hellos, serverVars, toolVars>>

Link == [dev : Devices \cup {Nobody},
         device : {"unused", "dialling", "open", "closed"},
         server : {"none", "hello", "pumping", "over"},
         bye : BOOLEAN]

Call == [pc : {"idle", "connecting", "match", "parked", "woken", "found"},
         dev : Devices \cup {Nobody}, on : Conns \cup {None}, binds : BOOLEAN]

Idle == [pc |-> "idle", dev |-> Nobody, on |-> None, binds |-> FALSE]

TypeOK ==
    /\ loop \in [Devices -> {"stopped", "dial", "await"}]
    /\ awaited \in [Devices -> Conns \cup {None}]
    /\ webSocket \in [Devices -> Conns \cup {None}]
    /\ conn \in [Conns -> Link]
    /\ dialled \in 0..MaxConn
    /\ hellos \in Seq(Conns)
    /\ devices \in [Devices -> Conns \cup {None}]
    /\ session \in [Conns -> BOOLEAN]
    /\ announced \in [Devices -> BOOLEAN]
    /\ task \in [Tasks -> Call]
    /\ \A t \in Tasks : task[t].pc # "idle" => task[t].dev \in Devices
    /\ held \in [Devices -> Conns \cup {None}]
    /\ bound \in Devices \cup {Nobody}

Init ==
    /\ loop = [d \in Devices |-> "stopped"]
    /\ awaited = [d \in Devices |-> None]
    /\ webSocket = [d \in Devices |-> None]
    /\ conn = [c \in Conns |-> [dev |-> Nobody, device |-> "unused", server |-> "none",
                                bye |-> FALSE]]
    /\ dialled = 0
    /\ hellos = <<>>
    /\ devices = [d \in Devices |-> None]
    /\ session = [c \in Conns |-> FALSE]
    /\ announced = [d \in Devices |-> FALSE]
    /\ task = [t \in Tasks |-> Idle]
    /\ held = [d \in Devices |-> None]
    /\ bound = Nobody

-----------------------------------------------------------------------------
(***************************************************************************)
(* Mutated forms of definitions below: the slips the properties exclude.   *)
(***************************************************************************)
StillHolds_Always(c) == devices[conn[c].dev] # None
TellGone_Always(c) == [announced EXCEPT ![conn[c].dev] = FALSE]
Forgotten_Never(c) == devices
Woken_One ==
    LET parked == {t \in Tasks : task[t].pc = "parked"} IN
    [t \in Tasks |-> IF parked # {} /\ t = CHOOSE u \in parked : TRUE
                     THEN [task[t] EXCEPT !.pc = "woken"] ELSE task[t]]
Recovers_Never(t) == FALSE
Recovers_Unbound(t) == bound = Nobody \/ ~session[held[bound]]

-----------------------------------------------------------------------------
(* The device: WsClient.kt *)

UnchangedServer == UNCHANGED <<serverVars, toolVars>>

Start(d) ==
    /\ loop[d] = "stopped"
    /\ loop' = [loop EXCEPT ![d] = "dial"]
    /\ UNCHANGED <<awaited, webSocket, dialled, conn, hellos>> /\ UnchangedServer

\* stop: a bye on the socket it has, if any.  A dial under way is not called off.
Stop(d) ==
    LET c == webSocket[d] IN
    /\ loop[d] # "stopped" \/ c # None
    /\ loop' = [loop EXCEPT ![d] = "stopped"]
    /\ webSocket' = [webSocket EXCEPT ![d] = None]
    /\ conn' = IF c # None /\ conn[c].device = "open"
               THEN [conn EXCEPT ![c].device = "closed", ![c].bye = TRUE] ELSE conn
    /\ awaited' = [awaited EXCEPT ![d] = None]
    /\ UNCHANGED <<dialled, hellos>> /\ UnchangedServer

Dial(d) ==
    /\ loop[d] = "dial"
    /\ dialled < MaxConn
    /\ dialled' = dialled + 1
    /\ conn' = [conn EXCEPT ![dialled + 1].dev = d, ![dialled + 1].device = "dialling"]
    /\ loop' = [loop EXCEPT ![d] = "await"]
    /\ awaited' = [awaited EXCEPT ![d] = dialled + 1]
    /\ UNCHANGED <<webSocket, hellos>> /\ UnchangedServer

\* onOpen: the socket is taken, whether or not its loop still runs, and says hello.
Open(c) ==
    /\ conn[c].device = "dialling"
    /\ conn' = [conn EXCEPT ![c].device = "open", ![c].server = "hello"]
    /\ webSocket' = [webSocket EXCEPT ![conn[c].dev] = c]
    /\ hellos' = Append(hellos, c)
    /\ UNCHANGED <<loop, awaited, dialled>> /\ UnchangedServer

\* onFailure, onClosing: the network, a missed pong, or the server's close.
Lose(c) ==
    /\ conn[c].device \in {"dialling", "open"}
    /\ conn' = [conn EXCEPT ![c].device = "closed"]
    /\ UNCHANGED <<deviceVars, hellos>> /\ UnchangedServer

\* The loop resumes after closed.await() and dials again.
Redial(d) ==
    /\ loop[d] = "await"
    /\ conn[awaited[d]].device = "closed"
    /\ webSocket' = [webSocket EXCEPT ![d] = None]
    /\ loop' = [loop EXCEPT ![d] = "dial"]
    /\ awaited' = [awaited EXCEPT ![d] = None]
    /\ UNCHANGED <<dialled, conn, hellos>> /\ UnchangedServer

-----------------------------------------------------------------------------
(* The registry: BridgeServer *)

\* get_device: registered, and its socket neither closed nor said goodbye.
GetDevice(d) == IF devices[d] # None /\ session[devices[d]] THEN devices[d] ELSE None

\* notify_all: every parked wait_for_device looks again.
Woken == [t \in Tasks |-> IF task[t].pc = "parked" THEN [task[t] EXCEPT !.pc = "woken"]
                          ELSE task[t]]

Without(q, k) == SubSeq(q, 1, k - 1) \o SubSeq(q, k + 1, Len(q))

\* _on_connect 390, 402-413: hello read, the session registered and announced.
Register(c) ==
    /\ conn[c].server = "hello"
    /\ \E k \in DOMAIN hellos :
          /\ hellos[k] = c
          /\ Overtaken \/ \A j \in 1..(k - 1) : conn[hellos[j]].dev # conn[c].dev
          /\ hellos' = Without(hellos, k)
    /\ conn' = [conn EXCEPT ![c].server = "pumping"]
    /\ session' = [session EXCEPT ![c] = TRUE]
    /\ devices' = [devices EXCEPT ![conn[c].dev] = c]
    /\ announced' = [announced EXCEPT ![conn[c].dev] = TRUE]
    /\ task' = Woken
    /\ UNCHANGED <<deviceVars, held, bound>>

\* _on_connect 380-401: wrong path, token or protocol version, or no hello in time.
Refuse(c) ==
    /\ conn[c].server = "hello"
    /\ conn' = [conn EXCEPT ![c].server = "over"]
    /\ \E k \in DOMAIN hellos : hellos[k] = c /\ hellos' = Without(hellos, k)
    /\ UNCHANGED deviceVars /\ UnchangedServer

\* The bye event: the session is dead and still registered.
Bye(c) ==
    /\ conn[c].server = "pumping" /\ conn[c].bye
    /\ conn' = [conn EXCEPT ![c].bye = FALSE]
    /\ session' = [session EXCEPT ![c] = FALSE]
    /\ UNCHANGED <<deviceVars, hellos, devices, announced>>
    /\ UNCHANGED toolVars

\* `self._devices.get(did) is session`
StillHolds(c) == devices[conn[c].dev] = c

Forgotten(c) == [devices EXCEPT ![conn[c].dev] = None]

\* _notify_change, only for the session that was removed.
TellGone(c) ==
    IF StillHolds(c) THEN [announced EXCEPT ![conn[c].dev] = FALSE] ELSE announced

\* _on_connect 415-425: the pump returns and the session leaves the registry.
Teardown(c) ==
    /\ conn[c].server = "pumping"
    /\ conn' = [conn EXCEPT ![c].server = "over"]
    /\ session' = [session EXCEPT ![c] = FALSE]
    /\ devices' = IF StillHolds(c) THEN Forgotten(c) ELSE devices
    /\ announced' = TellGone(c)
    /\ UNCHANGED <<deviceVars, hellos>>
    /\ UNCHANGED toolVars

\* The close arrives, or the keepalive gives up on a socket nobody answers on.
PumpEnd(c) == conn[c].device = "closed" /\ Teardown(c)

\* The keepalive, or a lost frame, ends a connection the device still takes for open.
CutOff(c) == conn[c].device = "open" /\ Teardown(c)

-----------------------------------------------------------------------------
(* Its users *)

UnchangedBridge == UNCHANGED <<deviceVars, conn, hellos, serverVars>>

\* connect_device and connect_cb, up to the first await: an id that is not there is
\* answered at once.
Connect(t, d) ==
    /\ task[t].pc = "idle"
    /\ GetDevice(d) # None
    /\ task' = [task EXCEPT ![t] = [pc |-> "connecting", dev |-> d, on |-> GetDevice(d),
                                    binds |-> TRUE]]
    /\ UNCHANGED <<held, bound>> /\ UnchangedBridge

\* register_client_tools rebinds the screen tools; nothing is bound when the configure
\* failed; a session lost after it is recovered by the new controller.
Bind(t, c) ==
    /\ held' = [held EXCEPT ![task[t].dev] = c]
    /\ bound' = task[t].dev
    /\ task' = [task EXCEPT ![t] = Idle]

Connected(t) ==
    /\ task[t].pc = "connecting"
    /\ \/ session[task[t].on] /\ Bind(t, task[t].on)
       \/ /\ ~session[task[t].on]
          /\ \/ task' = [task EXCEPT ![t] = Idle]
             \/ task' = [task EXCEPT ![t].pc = "match"]
          /\ UNCHANGED <<held, bound>>
    /\ UnchangedBridge

\* _observe_and_follow: a dead session is recovered from, a live one is not.
Recovers(t) == bound # Nobody /\ ~session[held[bound]]

Use(t) ==
    /\ task[t].pc = "idle"
    /\ Recovers(t)
    /\ task' = [task EXCEPT ![t] = [pc |-> "match", dev |-> bound, on |-> None,
                                    binds |-> FALSE]]
    /\ UNCHANGED <<held, bound>> /\ UnchangedBridge

\* wait_for_device: what is there now, or park on the condition.
Match(t) ==
    LET c == GetDevice(task[t].dev) IN
    /\ task[t].pc \in {"match", "woken"}
    /\ task' = IF c # None THEN [task EXCEPT ![t].pc = "found", ![t].on = c]
               ELSE [task EXCEPT ![t].pc = "parked"]
    /\ UNCHANGED <<held, bound>> /\ UnchangedBridge

\* RECONNECT_TIMEOUT_S: the tool call fails, its controller keeps the dead session.
GiveUp(t) ==
    /\ task[t].pc \in {"parked", "woken"}
    /\ task' = [task EXCEPT ![t] = Idle]
    /\ UNCHANGED <<held, bound>> /\ UnchangedBridge

\* _recover_session adopts what the wait returned, which may have died since.
Adopt(t) ==
    /\ task[t].pc = "found"
    /\ IF task[t].binds THEN Bind(t, task[t].on)
       ELSE /\ held' = [held EXCEPT ![task[t].dev] = task[t].on]
            /\ task' = [task EXCEPT ![t] = Idle]
            /\ UNCHANGED bound
    /\ UnchangedBridge

-----------------------------------------------------------------------------
Device(d) == Start(d) \/ Stop(d) \/ Dial(d) \/ Redial(d)
Network(c) == Open(c) \/ Lose(c) \/ CutOff(c) \/ Refuse(c)
Serve(c) == Register(c) \/ Bye(c) \/ PumpEnd(c)
Tool(t) == Match(t) \/ Connected(t) \/ Adopt(t) \/ Use(t)

Next ==
    \/ \E d \in Devices : Device(d)
    \/ \E c \in Conns : Network(c) \/ Serve(c)
    \/ \E t \in Tasks : Tool(t) \/ GiveUp(t) \/ \E d \in Devices : Connect(t, d)

Spec == Init /\ [][Next]_vars

\* The event loop runs what is ready, a closed socket is noticed (the keepalive bounds
\* it), and a tool is called again and again.  Nothing is assumed of the operator, the
\* network or the dial loop.
FairSpec ==
    /\ Spec
    /\ \A c \in Conns : WF_vars(Register(c)) /\ WF_vars(Bye(c)) /\ WF_vars(PumpEnd(c))
    /\ \A t \in Tasks : WF_vars(Match(t)) /\ WF_vars(Connected(t)) /\ WF_vars(Adopt(t))
                        /\ WF_vars(Use(t))

-----------------------------------------------------------------------------
(* Properties *)

\* The registry holds no session whose pump has returned (312-313): what list_devices
\* offers the operator is a connection the server still reads.
NoGhost ==
    \A d \in Devices : devices[d] # None =>
        conn[devices[d]].server = "pumping" /\ conn[devices[d]].dev = d

\* "a newer reconnect that already replaced it must not be evicted by the old socket's
\* teardown" (417-419): an id leaves the registry only with the session it names.
EvictsOnlyItself ==
    [][\A d \in Devices : devices[d] # None /\ devices'[d] = None =>
            conn'[devices[d]].server = "over"]_vars

\* What the operator was told of a device, "available" or "left", is what the registry
\* says: no "left" for a device that has dialled in again, none missing (153-161).
AnnouncementsTrue == \A d \in Devices : announced[d] = (devices[d] # None)

\* No wake-up is lost: a recovery is parked on the condition only while its device is
\* away, whichever devices others wait for (345-358).
NoLostWakeup ==
    \A t \in Tasks : task[t].pc = "parked" => GetDevice(task[t].dev) = None

\* The device is up: its current socket is open, the server has not given it up, and it
\* has no other.
Up(d, c) ==
    /\ webSocket[d] = c
    /\ conn[c].device = "open" /\ conn[c].server # "over"
    /\ \A e \in Conns \ {c} : conn[e].dev = d => conn[e].device # "open"

\* "recovering here alone makes a flap a brief pause rather than a stuck 'device
\* offline'" (controller.py:167-168): once the driven device stays up, the controller
\* ends up on its connection, whatever half-open or dead session it held.
FlapIsAPause ==
    \A d \in Devices, c \in Conns :
        <>[](Up(d, c) /\ bound = d) => <>[](held[d] = c)
=============================================================================

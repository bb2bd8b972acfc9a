--------------------------- MODULE RegistryProofs ---------------------------
(***************************************************************************)
(* Proofs about the registry: for any devices, tool calls and connections, *)
(* in any order of hellos, it names only connections that are read, an id  *)
(* leaves it only with its own session, what the operator was told is what *)
(* it says, and no parked recovery misses a device that is there.          *)
(***************************************************************************)
EXTENDS Registry, TLAPS

\* The part of TypeOK the arguments below use.
Types ==
    /\ conn \in [Conns -> Link]
    /\ dialled \in 0..MaxConn
    /\ devices \in [Devices -> Conns \cup {None}]
    /\ session \in [Conns -> BOOLEAN]
    /\ announced \in [Devices -> BOOLEAN]
    /\ task \in [Tasks -> Call]
    /\ held \in [Devices -> Conns \cup {None}]
    /\ bound \in Devices \cup {Nobody}

\* A connection has a server end only once it opened, and a device once it was dialled.
LinksInOrder ==
    \A c \in Conns :
        /\ c > dialled => conn[c].device = "unused"
        /\ conn[c].device \in {"unused", "dialling"} => conn[c].server = "none"
        /\ conn[c].device # "unused" => conn[c].dev \in Devices

\* A tool call under way has a device.
CallsInOrder == \A t \in Tasks : task[t].pc # "idle" => task[t].dev \in Devices

RegistryInv == Types /\ LinksInOrder /\ CallsInOrder /\ NoGhost

LEMMA NoneIsNoConn == None \notin Conns /\ \A c \in Conns : c # None
BY RegistryAssumption DEF None, Conns

LEMMA LinkUpdates ==
  ASSUME conn \in [Conns -> Link], NEW c \in Conns
  PROVE  /\ \A x \in {"unused", "dialling", "open", "closed"} :
              [conn EXCEPT ![c].device = x] \in [Conns -> Link]
         /\ \A x \in {"none", "hello", "pumping", "over"} :
              [conn EXCEPT ![c].server = x] \in [Conns -> Link]
         /\ \A x \in BOOLEAN : [conn EXCEPT ![c].bye = x] \in [Conns -> Link]
         /\ \A x \in Devices : [conn EXCEPT ![c].dev = x] \in [Conns -> Link]
BY DEF Link

LEMMA CallUpdates ==
  ASSUME task \in [Tasks -> Call], NEW t \in Tasks
  PROVE  /\ \A r \in Call : [task EXCEPT ![t] = r] \in [Tasks -> Call]
         /\ \A x \in {"idle", "connecting", "match", "parked", "woken", "found"} :
              [task EXCEPT ![t].pc = x] \in [Tasks -> Call]
         /\ \A x \in Conns : [task EXCEPT ![t].pc = "found", ![t].on = x] \in [Tasks -> Call]
BY DEF Call

LEMMA GetDeviceType ==
  ASSUME Types, NEW d \in Devices
  PROVE  GetDevice(d) \in Conns \cup {None}
BY DEF GetDevice, Types

LEMMA TypesStep == RegistryInv /\ [Next]_vars => Types'
<1> SUFFICES ASSUME RegistryInv, [Next]_vars PROVE Types'
  OBVIOUS
<1> USE RegistryAssumption
<1>0. Types /\ LinksInOrder /\ CallsInOrder
  BY DEF RegistryInv
<1>a. Idle \in Call
  BY DEF Idle, Call
<1>1. ASSUME NEW d \in Devices, Device(d) PROVE Types'
  <2>1. CASE Start(d) \/ Redial(d)
    <3>1. UNCHANGED <<dialled, conn, serverVars, toolVars>>
      BY <2>1 DEF Start, Redial, UnchangedServer
    <3> QED
      BY <1>0, <3>1 DEF Types, serverVars, toolVars
  <2>2. CASE Stop(d)
    <3>1. conn' = conn \/ conn' = [conn EXCEPT ![webSocket[d]].device = "closed",
                                              ![webSocket[d]].bye = TRUE]
      BY <2>2 DEF Stop
    <3>2. conn' \in [Conns -> Link]
      BY <1>0, <3>1 DEF Types, Link
    <3> QED
      BY <1>0, <2>2, <3>2 DEF Stop, Types, UnchangedServer, serverVars, toolVars
  <2>3. CASE Dial(d)
    <3>1. dialled + 1 \in Conns /\ dialled' \in 0..MaxConn
      BY <1>0, <2>3 DEF Dial, Types, Conns
    <3>2. conn' \in [Conns -> Link]
      BY <1>0, <2>3, <3>1 DEF Dial, Types, Link
    <3> QED
      BY <1>0, <2>3, <3>1, <3>2 DEF Dial, Types, UnchangedServer, serverVars, toolVars
  <2> QED
    BY <1>1, <2>1, <2>2, <2>3 DEF Device
<1>2. ASSUME NEW c \in Conns, Network(c) \/ Serve(c) PROVE Types'
  <2>0. conn[c].device # "unused" => conn[c].dev \in Devices
    BY <1>0 DEF LinksInOrder
  <2>1. CASE Open(c) \/ Lose(c)
    <3>1. conn' \in [Conns -> Link]
      BY <1>0, <2>1 DEF Open, Lose, Types, Link
    <3> QED
      BY <1>0, <2>1, <3>1 DEF Open, Lose, Types, UnchangedServer, serverVars, toolVars,
                              deviceVars
  <2>2. CASE Refuse(c)
    <3>1. conn' \in [Conns -> Link]
      BY <1>0, <2>2, LinkUpdates DEF Refuse, Types
    <3> QED
      BY <1>0, <2>2, <3>1 DEF Refuse, Types, UnchangedServer, serverVars, toolVars, deviceVars
  <2>3. CASE Register(c)
    <3>1. conn' \in [Conns -> Link]
      BY <1>0, <2>3, LinkUpdates DEF Register, Types
    <3>2. task' \in [Tasks -> Call]
      BY <1>0, <2>3 DEF Register, Woken, Types, Call
    <3> QED
      BY <1>0, <2>3, <3>1, <3>2 DEF Register, Types, deviceVars
  <2>4. CASE Bye(c)
    <3>1. conn' \in [Conns -> Link]
      BY <1>0, <2>4, LinkUpdates DEF Bye, Types
    <3> QED
      BY <1>0, <2>4, <3>1 DEF Bye, Types, toolVars, deviceVars
  <2>5. CASE Teardown(c)
    <3>1. conn' \in [Conns -> Link]
      BY <1>0, <2>5, LinkUpdates DEF Teardown, Types
    <3>2. devices' \in [Devices -> Conns \cup {None}]
      BY <1>0, <2>5 DEF Teardown, Forgotten, Types
    <3>3. announced' \in [Devices -> BOOLEAN]
      BY <1>0, <2>5 DEF Teardown, TellGone, Types
    <3> QED
      BY <1>0, <2>5, <3>1, <3>2, <3>3 DEF Teardown, Types, toolVars, deviceVars
  <2> QED
    BY <1>2, <2>1, <2>2, <2>3, <2>4, <2>5 DEF Network, Serve, PumpEnd, CutOff
<1>3. ASSUME NEW t \in Tasks, Tool(t) \/ GiveUp(t) \/ \E d \in Devices : Connect(t, d)
      PROVE  Types'
  <2>1. UnchangedBridge
    BY <1>3 DEF Tool, GiveUp, Connect, Match, Connected, Adopt, Use
  <2>2. \E r \in Call : task' = [task EXCEPT ![t] = r]
    <3>1. CASE Match(t)
      <4>1. task[t].dev \in Devices
        BY <1>0, <3>1 DEF Match, CallsInOrder
      <4>2. GetDevice(task[t].dev) \in Conns \cup {None}
        BY <1>0, <4>1, GetDeviceType
      <4>3. CASE GetDevice(task[t].dev) # None
        BY <1>0, <3>1, <4>2, <4>3 DEF Match, Types, Call
      <4>4. CASE GetDevice(task[t].dev) = None
        BY <1>0, <3>1, <4>4 DEF Match, Types, Call
      <4> QED
        BY <4>3, <4>4
    <3>2. CASE Connected(t)
      BY <1>0, <1>a, <3>2 DEF Connected, Bind, Types, Call
    <3>3. CASE Adopt(t)
      BY <1>0, <1>a, <3>3 DEF Adopt, Bind, Types
    <3>4. CASE Use(t)
      BY <1>0, <3>4 DEF Use, Types, Call, Conns, None
    <3>5. CASE GiveUp(t)
      BY <1>a, <3>5 DEF GiveUp
    <3>6. CASE \E d \in Devices : Connect(t, d)
      BY <1>0, <3>6, GetDeviceType DEF Connect, Call
    <3> QED
      BY <1>3, <3>1, <3>2, <3>3, <3>4, <3>5, <3>6 DEF Tool
  <2>3. held' \in [Devices -> Conns \cup {None}] /\ bound' \in Devices \cup {Nobody}
    BY <1>0, <1>3 DEF Tool, GiveUp, Connect, Match, Connected, Adopt, Use, Bind, Types, Call
  <2>4. task' \in [Tasks -> Call]
    BY <1>0, <2>2 DEF Types
  <2> QED
    BY <1>0, <2>1, <2>3, <2>4 DEF UnchangedBridge, deviceVars, serverVars, Types
<1>4. CASE UNCHANGED vars
  BY <1>0, <1>4 DEF vars, deviceVars, serverVars, toolVars, Types
<1> QED
  BY <1>1, <1>2, <1>3, <1>4 DEF Next

\* What the tool calls do leaves the connections and the registry alone.
LEMMA ToolsOnly ==
  ASSUME NEW t \in Tasks, Tool(t) \/ GiveUp(t) \/ \E d \in Devices : Connect(t, d)
  PROVE  UNCHANGED <<conn, dialled, devices, session, announced>>
BY DEF Tool, GiveUp, Connect, Match, Connected, Adopt, Use, UnchangedBridge, deviceVars,
       serverVars

LEMMA LinksStep == RegistryInv /\ [Next]_vars => LinksInOrder'
<1> SUFFICES ASSUME RegistryInv, [Next]_vars PROVE LinksInOrder'
  OBVIOUS
<1> USE RegistryAssumption
<1>0. /\ Types /\ LinksInOrder /\ conn \in [Conns -> Link] /\ dialled \in Nat
  BY DEF RegistryInv, Types
<1>1. ASSUME NEW d \in Devices, Device(d) PROVE LinksInOrder'
  <2>1. CASE Start(d) \/ Redial(d)
    BY <1>0, <2>1 DEF Start, Redial, LinksInOrder
  <2>2. CASE Stop(d)
    <3>1. /\ UNCHANGED dialled
          /\ \/ conn' = conn
             \/ /\ conn[webSocket[d]].device = "open"
                /\ conn' = [conn EXCEPT ![webSocket[d]].device = "closed",
                                        ![webSocket[d]].bye = TRUE]
      BY <2>2 DEF Stop
    <3> QED
      BY <1>0, <3>1 DEF LinksInOrder, Link
  <2>3. CASE Dial(d)
    <3>1. /\ dialled + 1 \in Conns /\ dialled' = dialled + 1
          /\ conn' = [conn EXCEPT ![dialled + 1].dev = d, ![dialled + 1].device = "dialling"]
      BY <1>0, <2>3 DEF Dial, Conns
    <3>2. conn[dialled + 1].server = "none"
      BY <1>0, <3>1 DEF LinksInOrder
    <3> QED
      BY <1>0, <3>1, <3>2 DEF LinksInOrder, Link, Conns
  <2> QED
    BY <1>1, <2>1, <2>2, <2>3 DEF Device
<1>2. ASSUME NEW c \in Conns, Network(c) \/ Serve(c) PROVE LinksInOrder'
  <2>0. UNCHANGED dialled
    BY <1>2 DEF Network, Serve, PumpEnd, CutOff, Open, Lose, Refuse, Register, Bye, Teardown,
                deviceVars
  <2>1. CASE Open(c)
    BY <1>0, <2>0, <2>1 DEF Open, LinksInOrder, Link
  <2>2. CASE Lose(c)
    BY <1>0, <2>0, <2>2 DEF Lose, LinksInOrder, Link
  <2>3. CASE Refuse(c) \/ Register(c) \/ Teardown(c)
    BY <1>0, <2>0, <2>3 DEF Refuse, Register, Teardown, LinksInOrder, Link
  <2>4. CASE Bye(c)
    BY <1>0, <2>0, <2>4 DEF Bye, LinksInOrder, Link
  <2> QED
    BY <1>2, <2>1, <2>2, <2>3, <2>4 DEF Network, Serve, PumpEnd, CutOff
<1>3. ASSUME NEW t \in Tasks, Tool(t) \/ GiveUp(t) \/ \E d \in Devices : Connect(t, d)
      PROVE  LinksInOrder'
  BY <1>0, <1>3, ToolsOnly DEF LinksInOrder
<1>4. CASE UNCHANGED vars
  BY <1>0, <1>4 DEF vars, deviceVars, LinksInOrder
<1> QED
  BY <1>1, <1>2, <1>3, <1>4 DEF Next

LEMMA CallsStep == RegistryInv /\ [Next]_vars => CallsInOrder'
<1> SUFFICES ASSUME RegistryInv, [Next]_vars PROVE CallsInOrder'
  OBVIOUS
<1>0. Types /\ CallsInOrder /\ task \in [Tasks -> Call]
  BY DEF RegistryInv, Types
<1>1. ASSUME NEW d \in Devices, Device(d) PROVE CallsInOrder'
  BY <1>0, <1>1 DEF Device, Start, Stop, Dial, Redial, UnchangedServer, toolVars, CallsInOrder
<1>2. ASSUME NEW c \in Conns, Network(c) \/ Serve(c) PROVE CallsInOrder'
  <2>1. CASE Register(c)
    BY <1>0, <2>1 DEF Register, Woken, CallsInOrder, Call
  <2>2. CASE Open(c) \/ Lose(c) \/ Refuse(c) \/ Bye(c) \/ Teardown(c)
    BY <1>0, <2>2 DEF Open, Lose, Refuse, Bye, Teardown, UnchangedServer, toolVars,
                      CallsInOrder
  <2> QED
    BY <1>2, <2>1, <2>2 DEF Network, Serve, PumpEnd, CutOff
<1>3. ASSUME NEW t \in Tasks, Tool(t) \/ GiveUp(t) \/ \E d \in Devices : Connect(t, d)
      PROVE  CallsInOrder'
  <2>1. CASE Match(t) \/ GiveUp(t)
    BY <1>0, <2>1 DEF Match, GiveUp, CallsInOrder, Call, Idle
  <2>2. CASE Connected(t)
    BY <1>0, <2>2 DEF Connected, Bind, CallsInOrder, Call, Idle
  <2>3. CASE Adopt(t)
    BY <1>0, <2>3 DEF Adopt, Bind, CallsInOrder, Call, Idle
  <2>4. CASE Use(t)
    <3>1. bound \in Devices
      BY <1>0, <2>4 DEF Use, Recovers, Types
    <3> QED
      BY <1>0, <2>4, <3>1 DEF Use, CallsInOrder
  <2>5. CASE \E d \in Devices : Connect(t, d)
    BY <1>0, <2>5 DEF Connect, CallsInOrder
  <2> QED
    BY <1>3, <2>1, <2>2, <2>3, <2>4, <2>5 DEF Tool
<1>4. CASE UNCHANGED vars
  BY <1>0, <1>4 DEF vars, toolVars, CallsInOrder
<1> QED
  BY <1>1, <1>2, <1>3, <1>4 DEF Next

\* The teardown of a connection: its own entry goes, every other stays.
LEMMA TeardownEvicts ==
  ASSUME RegistryInv, NEW c \in Conns, Teardown(c), NEW d \in Devices
  PROVE  /\ devices'[d] = IF devices[d] = c THEN None ELSE devices[d]
         /\ announced'[d] = IF devices[d] = c THEN FALSE ELSE announced[d]
<1>0. /\ conn[c].device # "unused" => conn[c].dev \in Devices
      /\ conn[c].device \in {"unused", "dialling"} => conn[c].server = "none"
      /\ devices \in [Devices -> Conns \cup {None}]
      /\ announced \in [Devices -> BOOLEAN]
  BY DEF RegistryInv, LinksInOrder, Types
<1>1. conn[c].server = "pumping" /\ conn[c].dev \in Devices
  BY <1>0 DEF Teardown
<1>2. devices[d] = c => conn[c].dev = d
  BY NoneIsNoConn DEF RegistryInv, NoGhost
<1>3. CASE StillHolds(c)
  BY <1>0, <1>1, <1>2, <1>3 DEF Teardown, StillHolds, Forgotten, TellGone
<1>4. CASE ~StillHolds(c)
  BY <1>0, <1>1, <1>2, <1>4 DEF Teardown, StillHolds, TellGone
<1> QED
  BY <1>3, <1>4

LEMMA NoGhostStep == RegistryInv /\ [Next]_vars => NoGhost'
<1> SUFFICES ASSUME RegistryInv, [Next]_vars PROVE NoGhost'
  OBVIOUS
<1>0. /\ Types /\ LinksInOrder /\ NoGhost
      /\ conn \in [Conns -> Link] /\ devices \in [Devices -> Conns \cup {None}]
  BY DEF RegistryInv, Types
<1>1. ASSUME NEW d \in Devices, Device(d) PROVE NoGhost'
  <2>1. CASE Start(d) \/ Redial(d)
    BY <1>0, <2>1 DEF Start, Redial, NoGhost, UnchangedServer, serverVars
  <2>2. CASE Stop(d)
    <3>1. /\ UNCHANGED devices
          /\ \/ conn' = conn
             \/ conn' = [conn EXCEPT ![webSocket[d]].device = "closed",
                                     ![webSocket[d]].bye = TRUE]
      BY <2>2 DEF Stop, UnchangedServer, serverVars
    <3> QED
      BY <1>0, <3>1 DEF NoGhost, Link
  <2>3. CASE Dial(d)
    <3>1. /\ dialled + 1 \in Conns /\ UNCHANGED devices
          /\ conn' = [conn EXCEPT ![dialled + 1].dev = d, ![dialled + 1].device = "dialling"]
      BY <1>0, <2>3, RegistryAssumption DEF Dial, Conns, UnchangedServer, serverVars, Types
    <3>2. conn[dialled + 1].server = "none"
      BY <1>0, <3>1, RegistryAssumption DEF LinksInOrder, Types
    <3> QED
      BY <1>0, <3>1, <3>2 DEF NoGhost, Link
  <2> QED
    BY <1>1, <2>1, <2>2, <2>3 DEF Device
<1>2. ASSUME NEW c \in Conns, Network(c) \/ Serve(c) PROVE NoGhost'
  <2>0. /\ conn[c].device # "unused" => conn[c].dev \in Devices
        /\ conn[c].device \in {"unused", "dialling"} => conn[c].server = "none"
    BY <1>0 DEF LinksInOrder
  <2>1. CASE Open(c) \/ Lose(c) \/ Refuse(c)
    <3>1. UNCHANGED devices /\ (conn[c].server = "pumping" => conn'[c].server = "pumping")
      BY <1>0, <2>0, <2>1 DEF Open, Lose, Refuse, UnchangedServer, serverVars, Link
    <3> QED
      BY <1>0, <2>0, <2>1, <3>1 DEF Open, Lose, Refuse, NoGhost, Link, UnchangedServer,
                                    serverVars
  <2>2. CASE Register(c)
    <3>1. conn[c].dev \in Devices
      BY <2>0, <2>2 DEF Register
    <3> QED
      BY <1>0, <2>2, <3>1 DEF Register, NoGhost, Link
  <2>3. CASE Bye(c)
    BY <1>0, <2>3 DEF Bye, NoGhost, Link
  <2>4. CASE Teardown(c)
    <3>1. \A d \in Devices : devices'[d] = IF devices[d] = c THEN None ELSE devices[d]
      BY <2>4, TeardownEvicts
    <3> QED
      BY <1>0, <2>4, <3>1 DEF Teardown, NoGhost, Link
  <2> QED
    BY <1>2, <2>1, <2>2, <2>3, <2>4 DEF Network, Serve, PumpEnd, CutOff
<1>3. ASSUME NEW t \in Tasks, Tool(t) \/ GiveUp(t) \/ \E d \in Devices : Connect(t, d)
      PROVE  NoGhost'
  BY <1>0, <1>3, ToolsOnly DEF NoGhost
<1>4. CASE UNCHANGED vars
  BY <1>0, <1>4 DEF vars, serverVars, NoGhost
<1> QED
  BY <1>1, <1>2, <1>3, <1>4 DEF Next

LEMMA InitRegistry == Init => RegistryInv
<1> SUFFICES ASSUME Init PROVE RegistryInv
  OBVIOUS
<1>1. Types
  BY RegistryAssumption DEF Init, Types, Link, Call, Idle
<1>2. LinksInOrder
  BY DEF Init, LinksInOrder
<1>3. CallsInOrder /\ NoGhost
  BY DEF Init, CallsInOrder, NoGhost, Idle
<1> QED
  BY <1>1, <1>2, <1>3 DEF RegistryInv

LEMMA RegistryInvStep == RegistryInv /\ [Next]_vars => RegistryInv'
BY TypesStep, LinksStep, CallsStep, NoGhostStep DEF RegistryInv

\* NoGhost of Registry: an id names a connection of its own that the server still reads.
THEOREM RegistryIsLive == Spec => []NoGhost
<1>1. RegistryInv => NoGhost
  BY DEF RegistryInv
<1> QED
  BY <1>1, InitRegistry, RegistryInvStep, PTL DEF Spec

-----------------------------------------------------------------------------
\* The rest of TypeOK: the device's end, and the hellos on their way.
DialTypes ==
    /\ loop \in [Devices -> {"stopped", "dial", "await"}]
    /\ awaited \in [Devices -> Conns \cup {None}]
    /\ webSocket \in [Devices -> Conns \cup {None}]
    /\ hellos \in Seq(Conns)

LEMMA WithoutType ==
  ASSUME NEW S, NEW q \in Seq(S), NEW k \in DOMAIN q
  PROVE  Without(q, k) \in Seq(S)
<1>1. k \in 1..Len(q) /\ Len(q) \in Nat
  OBVIOUS
<1>2. SubSeq(q, 1, k - 1) \in Seq(S)
  <2>1. \A j \in 1..(k - 1) : q[j] \in S
    BY <1>1
  <2> QED
    BY <1>1, <2>1
<1>3. SubSeq(q, k + 1, Len(q)) \in Seq(S)
  <2>1. \A j \in (k + 1)..Len(q) : q[j] \in S
    BY <1>1
  <2> QED
    BY <1>1, <2>1
<1> QED
  BY <1>2, <1>3 DEF Without

LEMMA DialTypesStep == RegistryInv /\ DialTypes /\ [Next]_vars => DialTypes'
<1> SUFFICES ASSUME RegistryInv, DialTypes, [Next]_vars PROVE DialTypes'
  OBVIOUS
<1> USE DEF DialTypes
<1>1. ASSUME NEW d \in Devices, Device(d) PROVE DialTypes'
  <2>1. CASE Dial(d)
    <3>1. dialled + 1 \in Conns
      BY <2>1, RegistryAssumption DEF Dial, RegistryInv, Types, Conns
    <3> QED
      BY <2>1, <3>1 DEF Dial
  <2> QED
    BY <1>1, <2>1 DEF Device, Start, Stop, Redial
<1>2. ASSUME NEW c \in Conns, Network(c) \/ Serve(c) PROVE DialTypes'
  <2>1. CASE Open(c)
    <3>1. hellos' \in Seq(Conns)
      BY <2>1 DEF Open
    <3> QED
      BY <2>1, <3>1 DEF Open
  <2>2. CASE Register(c) \/ Refuse(c)
    <3>1. UNCHANGED deviceVars
      BY <2>2 DEF Register, Refuse
    <3>2. PICK k \in DOMAIN hellos : hellos' = Without(hellos, k)
      BY <2>2 DEF Register, Refuse
    <3>3. hellos' \in Seq(Conns)
      BY <3>2, WithoutType
    <3> QED
      BY <3>1, <3>3 DEF deviceVars
  <2>3. CASE Lose(c) \/ Bye(c) \/ Teardown(c)
    BY <2>3 DEF Lose, Bye, Teardown, deviceVars
  <2> QED
    BY <1>2, <2>1, <2>2, <2>3 DEF Network, Serve, PumpEnd, CutOff
<1>3. ASSUME NEW t \in Tasks, Tool(t) \/ GiveUp(t) \/ \E d \in Devices : Connect(t, d)
      PROVE  DialTypes'
  <2>1. UnchangedBridge
    BY <1>3 DEF Tool, GiveUp, Connect, Match, Connected, Adopt, Use
  <2> QED
    BY <2>1 DEF UnchangedBridge, deviceVars
<1>4. CASE UNCHANGED vars
  BY <1>4 DEF vars, deviceVars
<1> QED
  BY <1>1, <1>2, <1>3, <1>4 DEF Next

\* TypeOK of Registry: a hello, a socket, an awaited close and a registered session name a
\* connection that was dialled, a tool call under way names a device.
THEOREM TypeCorrect == Spec => []TypeOK
<1>1. Init => DialTypes
  <2> SUFFICES ASSUME Init PROVE DialTypes
    OBVIOUS
  <2>1. hellos = <<>> /\ <<>> \in Seq(Conns)
    BY DEF Init
  <2> QED
    BY <2>1 DEF Init, DialTypes
<1>2. RegistryInv /\ DialTypes => TypeOK
  BY DEF RegistryInv, Types, CallsInOrder, DialTypes, TypeOK
<1> QED
  BY <1>1, <1>2, InitRegistry, RegistryInvStep, DialTypesStep, PTL DEF Spec

-----------------------------------------------------------------------------
\* What a step does to the registry and to what the operator was told of it.
LEMMA RegistrySteps ==
  ASSUME RegistryInv, [Next]_vars
  PROVE  \/ UNCHANGED <<devices, announced>>
         \/ \E c \in Conns : Register(c) /\ conn[c].dev \in Devices
         \/ \E c \in Conns : Teardown(c)
<1>1. ASSUME NEW d \in Devices, Device(d) PROVE UNCHANGED <<devices, announced>>
  BY <1>1 DEF Device, Start, Stop, Dial, Redial, UnchangedServer, serverVars
<1>2. ASSUME NEW c \in Conns, Network(c) \/ Serve(c)
      PROVE  \/ UNCHANGED <<devices, announced>>
             \/ Register(c) /\ conn[c].dev \in Devices
             \/ Teardown(c)
  <2>1. Register(c) => conn[c].dev \in Devices
    BY DEF Register, RegistryInv, LinksInOrder
  <2>2. CASE Open(c) \/ Lose(c) \/ Refuse(c) \/ Bye(c)
    BY <2>2 DEF Open, Lose, Refuse, Bye, UnchangedServer, serverVars
  <2> QED
    BY <1>2, <2>1, <2>2 DEF Network, Serve, PumpEnd, CutOff
<1>3. ASSUME NEW t \in Tasks, Tool(t) \/ GiveUp(t) \/ \E d \in Devices : Connect(t, d)
      PROVE  UNCHANGED <<devices, announced>>
  BY <1>3, ToolsOnly
<1>4. CASE UNCHANGED vars
  BY <1>4 DEF vars, serverVars
<1> QED
  BY <1>1, <1>2, <1>3, <1>4 DEF Next

\* AnnouncementsTrue of Registry: a register announces, a teardown only what it removed.
THEOREM OperatorIsToldTheTruth == Spec => []AnnouncementsTrue
<1>1. Init => AnnouncementsTrue
  BY DEF Init, AnnouncementsTrue
<1>2. RegistryInv /\ AnnouncementsTrue /\ [Next]_vars => AnnouncementsTrue'
  <2> SUFFICES ASSUME RegistryInv, AnnouncementsTrue, [Next]_vars, NEW d \in Devices
               PROVE  announced'[d] = (devices'[d] # None)
    BY DEF AnnouncementsTrue
  <2>0. /\ announced[d] = (devices[d] # None)
        /\ announced \in [Devices -> BOOLEAN] /\ devices \in [Devices -> Conns \cup {None}]
    BY DEF AnnouncementsTrue, RegistryInv, Types
  <2>1. CASE UNCHANGED <<devices, announced>>
    BY <2>0, <2>1
  <2>2. ASSUME NEW c \in Conns, Register(c), conn[c].dev \in Devices
        PROVE  announced'[d] = (devices'[d] # None)
    BY <2>0, <2>2, NoneIsNoConn DEF Register
  <2>3. ASSUME NEW c \in Conns, Teardown(c) PROVE announced'[d] = (devices'[d] # None)
    BY <2>0, <2>3, TeardownEvicts
  <2> QED
    BY <2>1, <2>2, <2>3, RegistrySteps
<1> QED
  BY <1>1, <1>2, InitRegistry, RegistryInvStep, PTL DEF Spec

\* EvictsOnlyItself of Registry: the old socket's teardown never evicts the reconnect that
\* replaced it (417-419).
THEOREM NoWrongEviction == Spec => EvictsOnlyItself
<1>1. RegistryInv /\ [Next]_vars =>
        [\A d \in Devices : devices[d] # None /\ devices'[d] = None =>
            conn'[devices[d]].server = "over"]_vars
  <2> SUFFICES ASSUME RegistryInv, [Next]_vars, NEW d \in Devices, devices[d] # None,
                      devices'[d] = None
               PROVE  conn'[devices[d]].server = "over"
    OBVIOUS
  <2>1. ASSUME NEW c \in Conns, Register(c), conn[c].dev \in Devices PROVE FALSE
    BY <2>1, NoneIsNoConn DEF Register, RegistryInv, Types
  <2>2. ASSUME NEW c \in Conns, Teardown(c) PROVE conn'[devices[d]].server = "over"
    <3>1. devices[d] = c
      BY <2>2, TeardownEvicts
    <3> QED
      BY <2>2, <3>1 DEF Teardown, RegistryInv, Types, Link
  <2> QED
    BY <2>1, <2>2, RegistrySteps
<1> QED
  BY <1>1, InitRegistry, RegistryInvStep, PTL DEF Spec, EvictsOnlyItself

-----------------------------------------------------------------------------
\* NoLostWakeup of Registry: only a registration can make a device available, and it wakes
\* whoever is parked (407-409, 345-358).
THEOREM NoWaitMissesItsDevice == Spec => []NoLostWakeup
<1>1. Init => NoLostWakeup
  BY DEF Init, NoLostWakeup, Idle
<1>2. RegistryInv /\ NoLostWakeup /\ [Next]_vars => NoLostWakeup'
  <2> SUFFICES ASSUME RegistryInv, NoLostWakeup, [Next]_vars, NEW t \in Tasks,
                      task'[t].pc = "parked"
               PROVE  GetDevice(task[t].dev)' = None
    BY DEF NoLostWakeup
  <2>0. /\ task \in [Tasks -> Call] /\ devices \in [Devices -> Conns \cup {None}]
        /\ task[t].pc = "parked" => GetDevice(task[t].dev) = None
        /\ task[t].pc # "idle" => task[t].dev \in Devices
    BY DEF RegistryInv, Types, NoLostWakeup, CallsInOrder
  <2>1. ASSUME NEW c \in Conns, Register(c) PROVE FALSE
    BY <2>0, <2>1 DEF Register, Woken, Call
  <2>2. CASE UNCHANGED <<task, devices>> /\ \A c \in Conns : session'[c] => session[c]
    BY <2>0, <2>2 DEF GetDevice, RegistryInv, Types
  <2>3. ASSUME NEW d \in Devices, Device(d)
        PROVE  UNCHANGED <<task, devices>> /\ \A c \in Conns : session'[c] => session[c]
    BY <2>3 DEF Device, Start, Stop, Dial, Redial, UnchangedServer, serverVars, toolVars
  <2>4. ASSUME NEW c \in Conns, Open(c) \/ Lose(c) \/ Refuse(c) \/ Bye(c)
        PROVE  UNCHANGED <<task, devices>> /\ \A e \in Conns : session'[e] => session[e]
    BY <2>4 DEF Open, Lose, Refuse, Bye, UnchangedServer, serverVars, toolVars, RegistryInv,
                Types
  <2>5. ASSUME NEW c \in Conns, Teardown(c) PROVE GetDevice(task[t].dev)' = None
    <3>1. task' = task /\ session' = [session EXCEPT ![c] = FALSE]
      BY <2>5 DEF Teardown, toolVars
    <3>2. task[t].dev \in Devices /\ GetDevice(task[t].dev) = None
      BY <2>0, <3>1
    <3>3. devices'[task[t].dev] \in {None, devices[task[t].dev]}
      BY <2>5, <3>2, TeardownEvicts
    <3> QED
      BY <2>0, <3>1, <3>2, <3>3 DEF GetDevice, RegistryInv, Types
  <2>6. ASSUME NEW u \in Tasks, Tool(u) \/ GiveUp(u) \/ \E d \in Devices : Connect(u, d)
        PROVE  GetDevice(task[t].dev)' = None
    <3>1. UNCHANGED <<devices, session>>
      BY <2>6, ToolsOnly
    <3>2. CASE task'[t] = task[t]
      BY <2>0, <3>1, <3>2 DEF GetDevice
    <3>3. CASE task'[t] # task[t]
      <4>1. u = t
        BY <2>0, <2>6, <3>3 DEF Tool, GiveUp, Connect, Match, Connected, Adopt, Bind, Use
      <4>2. Match(t) /\ GetDevice(task[t].dev) = None
        BY <2>0, <2>6, <4>1 DEF Tool, GiveUp, Connect, Match, Connected, Adopt, Bind, Use, Idle,
                                Call
      <4>3. task'[t].dev = task[t].dev
        BY <2>0, <4>2 DEF Match, Call
      <4> QED
        BY <3>1, <4>2, <4>3 DEF GetDevice
    <3> QED
      BY <3>2, <3>3
  <2>7. CASE UNCHANGED vars
    BY <2>0, <2>7 DEF vars, serverVars, toolVars, GetDevice
  <2> QED
    BY <2>1, <2>2, <2>3, <2>4, <2>5, <2>6, <2>7 DEF Next, Network, Serve, PumpEnd, CutOff
<1> QED
  BY <1>1, <1>2, InitRegistry, RegistryInvStep, PTL DEF Spec
=============================================================================

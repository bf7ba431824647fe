----------------------- MODULE ForwarderServerProofs -----------------------
(***************************************************************************)
(* What holds of ForwarderServer for any number of connections, devices    *)
(* and ports.  Everything rests on one inductive invariant, Inv: which     *)
(* connections the map, the handler and the running tasks can stand for.   *)
(***************************************************************************)
EXTENDS ForwarderServer, TLAPS

\* The handler's connection: its stream is the handler's, and no other task has it.
HandlerOwnsCur ==
  /\ pc \in {"read", "bind", "respond"} => cur # NoConn
  /\ cur # NoConn => pc \in {"read", "join", "bind", "respond"} /\ stream[cur] = "handler"

\* A connection that has not started a stream has no task to cancel.
NoTaskBeforeStart ==
  \A c \in Conns : stream[c] \in {"none", "backlog", "handler"}
    => udp[c] = "none" /\ c \notin cancelled

\* Tasks are joined by remove_connection and remove_all_connections only.
JoinsInPlace == pc \notin {"join", "drain"} => joining = {}

\* Once remove_connection has returned, the handler's device has no entry until it
\* makes one itself.
DeviceIsFree ==
  pc \in {"join", "bind", "respond"} /\ cur # NoConn =>
    device[cur] \in Devices /\ connections[device[cur]] = NoConn

\* An entry of the map names a connection that asked for that device, has started
\* its stream and has not been cancelled.
EntriesAreLive ==
  \A d \in Devices : connections[d] # NoConn =>
    /\ device[connections[d]] = d
    /\ stream[connections[d]] \in {"watched", "dropped"}
    /\ connections[d] \notin cancelled

\* The tasks of a connection know its device.
TasksKnowDevice ==
  \A c \in Conns : udp[c] = "running" \/ stream[c] = "watched" => device[c] \in Devices

Inv ==
  /\ TypeOK
  /\ HandlerOwnsCur
  /\ NoTaskBeforeStart
  /\ JoinsInPlace
  /\ DeviceIsFree
  /\ EntriesAreLive
  /\ TasksKnowDevice
  /\ StreamsAreOwned
  /\ OneStreamPerDevice
  /\ EndIsNoticed

-----------------------------------------------------------------------------
(***************************************************************************)
(* Inv is inductive: one lemma for the initial state, then one per action  *)
(* that moves a connection between the handler, the map and the tasks, and *)
(* one for all the actions that leave the map and its owners alone.        *)
(***************************************************************************)

\* The server starts with no connection anywhere.
LEMMA InitInv == Init => Inv
<1> SUFFICES ASSUME Init PROVE Inv
  OBVIOUS
<1>1. TypeOK
  <2>1. notices \in Seq(Devices)
    BY DEF Init
  <2>2. connections \in [Devices -> Conns \cup {NoConn}]
    BY DEF Init
  <2>3. /\ stream \in [Conns -> {"none", "backlog", "handler", "watched", "dropped"}]
        /\ udp \in [Conns -> {"none", "running", "done"}]
    BY DEF Init
  <2>4. /\ device \in [Conns -> Devices \cup {NoDevice}]
        /\ port \in [Conns -> Ports \cup {AnyPort}]
    BY DEF Init
  <2> QED
    BY <2>1, <2>2, <2>3, <2>4 DEF Init, TypeOK, PCs
<1>2. HandlerOwnsCur /\ JoinsInPlace /\ DeviceIsFree
  BY DEF Init, HandlerOwnsCur, JoinsInPlace, DeviceIsFree
<1>3. NoTaskBeforeStart /\ EntriesAreLive /\ TasksKnowDevice
  BY DEF Init, NoTaskBeforeStart, EntriesAreLive, TasksKnowDevice
<1>4. StreamsAreOwned /\ OneStreamPerDevice /\ EndIsNoticed
  BY DEF Init, StreamsAreOwned, OneStreamPerDevice, EndIsNoticed
<1> QED
  BY <1>1, <1>2, <1>3, <1>4 DEF Inv

\* The clients come and go, the handler gives its stream up or goes on to its next
\* await, the process exits: no entry of the map and no task changes hands.
LEMMA QuietStepsInv ==
  ASSUME Inv,
         \/ \E c \in Conns : Connect(c) \/ HangUp(c) \/ Accept(c)
         \/ ReadFails \/ HandleList \/ Bind \/ BindFails \/ RespondFails
         \/ InterruptUnseen \/ PanicExits
  PROVE  Inv'
<1>1. ASSUME NEW c \in Conns, Connect(c) PROVE Inv'
  BY <1>1, ServerAssumption DEF Connect, PCs, Inv, TypeOK, HandlerOwnsCur,
    NoTaskBeforeStart, JoinsInPlace, DeviceIsFree, EntriesAreLive,
    TasksKnowDevice, StreamsAreOwned, OneStreamPerDevice, EndIsNoticed
<1>2. ASSUME NEW c \in Conns, HangUp(c) PROVE Inv'
  BY <1>2, ServerAssumption DEF HangUp, PCs, Inv, TypeOK, HandlerOwnsCur,
    NoTaskBeforeStart, JoinsInPlace, DeviceIsFree, EntriesAreLive,
    TasksKnowDevice, StreamsAreOwned, OneStreamPerDevice, EndIsNoticed
<1>3. ASSUME NEW c \in Conns, Accept(c) PROVE Inv'
  BY <1>3, ServerAssumption DEF Accept, PCs, Inv, TypeOK, HandlerOwnsCur,
    NoTaskBeforeStart, JoinsInPlace, DeviceIsFree, EntriesAreLive,
    TasksKnowDevice, StreamsAreOwned, OneStreamPerDevice, EndIsNoticed
<1>4. ASSUME DropStream /\ pc \in {"read", "bind", "respond"} PROVE Inv'
  BY <1>4, ServerAssumption DEF DropStream, PCs, Inv, TypeOK, HandlerOwnsCur,
    NoTaskBeforeStart, JoinsInPlace, DeviceIsFree, EntriesAreLive,
    TasksKnowDevice, StreamsAreOwned, OneStreamPerDevice, EndIsNoticed
<1>5. ASSUME Bind PROVE Inv'
  BY <1>5, ServerAssumption DEF Bind, PCs, Inv, TypeOK, HandlerOwnsCur,
    NoTaskBeforeStart, JoinsInPlace, DeviceIsFree, EntriesAreLive,
    TasksKnowDevice, StreamsAreOwned, OneStreamPerDevice, EndIsNoticed
<1>6. ASSUME InterruptUnseen PROVE Inv'
  BY <1>6, ServerAssumption DEF InterruptUnseen, PCs, Inv, TypeOK,
    HandlerOwnsCur, NoTaskBeforeStart, JoinsInPlace, DeviceIsFree,
    EntriesAreLive, TasksKnowDevice, StreamsAreOwned, OneStreamPerDevice,
    EndIsNoticed
<1>7. ASSUME PanicExits PROVE Inv'
  BY <1>7, ServerAssumption DEF PanicExits, PCs, Inv, TypeOK, HandlerOwnsCur,
    NoTaskBeforeStart, JoinsInPlace, DeviceIsFree, EntriesAreLive,
    TasksKnowDevice, StreamsAreOwned, OneStreamPerDevice, EndIsNoticed
<1> QED
  BY <1>1, <1>2, <1>3, <1>4, <1>5, <1>6, <1>7
     DEF ReadFails, HandleList, BindFails, RespondFails

\* A request takes the device's entry out of the map: its tasks go from being
\* registered to being joined.
LEMMA HandleRequestInv ==
  ASSUME Inv,
         NEW d \in Devices, NEW p \in RequestPorts(d), HandleRequest(d, p)
  PROVE  Inv'
<1>1. TypeOK'
  BY ServerAssumption DEF HandleRequest, RemoveConnection, Inv, TypeOK,
    HandlerOwnsCur, PCs, RequestPorts
<1>2. HandlerOwnsCur' /\ JoinsInPlace' /\ DeviceIsFree'
  BY ServerAssumption DEF HandleRequest, RemoveConnection, Inv,
    HandlerOwnsCur, JoinsInPlace, DeviceIsFree, TypeOK
<1>3. NoTaskBeforeStart'
  BY ServerAssumption DEF HandleRequest, RemoveConnection, Inv,
    NoTaskBeforeStart, EntriesAreLive, TypeOK
<1>4. EntriesAreLive'
  BY ServerAssumption DEF HandleRequest, RemoveConnection, Inv,
    EntriesAreLive, HandlerOwnsCur, TypeOK
<1>5. TasksKnowDevice' /\ OneStreamPerDevice'
  BY ServerAssumption DEF HandleRequest, RemoveConnection, Inv,
    TasksKnowDevice, OneStreamPerDevice, HandlerOwnsCur, NoTaskBeforeStart,
    TypeOK
<1>6. StreamsAreOwned'
  BY ServerAssumption DEF HandleRequest, RemoveConnection, Inv,
    StreamsAreOwned, HandlerOwnsCur, NoTaskBeforeStart, JoinsInPlace,
    TasksKnowDevice, TypeOK
<1>7. EndIsNoticed'
  BY ServerAssumption DEF HandleRequest, RemoveConnection, Inv, EndIsNoticed,
    TypeOK
<1> QED
  BY <1>1, <1>2, <1>3, <1>4, <1>5, <1>6, <1>7 DEF Inv

\* A notice does the same for the device it names, with no handler involved.
LEMMA HandleNoticeInv ==
  ASSUME Inv,
         HandleNotice
  PROVE  Inv'
<1>1. TypeOK'
  BY ServerAssumption DEF HandleNotice, RemoveConnection, Inv, TypeOK, PCs
<1>2. HandlerOwnsCur' /\ JoinsInPlace' /\ DeviceIsFree'
  BY ServerAssumption DEF HandleNotice, RemoveConnection, Inv, HandlerOwnsCur,
    JoinsInPlace, DeviceIsFree, TypeOK
<1>3. NoTaskBeforeStart'
  BY ServerAssumption DEF HandleNotice, RemoveConnection, Inv,
    NoTaskBeforeStart, EntriesAreLive, TypeOK
<1>4. EntriesAreLive'
  BY ServerAssumption DEF HandleNotice, RemoveConnection, Inv, EntriesAreLive,
    TypeOK
<1>5. TasksKnowDevice' /\ OneStreamPerDevice'
  BY ServerAssumption DEF HandleNotice, RemoveConnection, Inv,
    TasksKnowDevice, OneStreamPerDevice, TypeOK
<1>6. StreamsAreOwned'
  BY ServerAssumption DEF HandleNotice, RemoveConnection, Inv,
    StreamsAreOwned, JoinsInPlace, TasksKnowDevice, TypeOK
<1>7. EndIsNoticed'
  <2> SUFFICES ASSUME NEW d \in Devices, connections'[d] # NoConn,
                      stream'[connections'[d]] = "dropped"
               PROVE  \E i \in DOMAIN notices' : notices'[i] = d
    BY DEF EndIsNoticed
  <2>1. notices # <<>> /\ notices \in Seq(Devices) /\ Head(notices) \in Devices
    BY DEF Inv, TypeOK, HandleNotice
  <2>2. d # Head(notices) /\ connections[d] = connections'[d]
    BY <2>1 DEF HandleNotice, RemoveConnection, Inv, TypeOK
  <2>3. PICK i \in DOMAIN notices : notices[i] = d
    BY <2>2 DEF HandleNotice, Inv, EndIsNoticed
  <2>4. i \in 2 .. Len(notices)
    BY <2>1, <2>2, <2>3
  <2>5. i - 1 \in DOMAIN Tail(notices) /\ Tail(notices)[i - 1] = d
    BY <2>1, <2>3, <2>4
  <2> QED
    BY <2>5 DEF HandleNotice
<1> QED
  BY <1>1, <1>2, <1>3, <1>4, <1>5, <1>6, <1>7 DEF Inv

\* Ctrl-C takes every entry out of the map at once.
LEMMA InterruptInv ==
  ASSUME Inv,
         Interrupt
  PROVE  Inv'
<1>1. TypeOK'
  BY ServerAssumption DEF Interrupt, Inv, TypeOK, PCs
<1>2. HandlerOwnsCur' /\ JoinsInPlace' /\ DeviceIsFree'
  BY ServerAssumption DEF Interrupt, Inv, HandlerOwnsCur, JoinsInPlace,
    DeviceIsFree, TypeOK
<1>3. NoTaskBeforeStart'
  BY ServerAssumption DEF Interrupt, Inv, NoTaskBeforeStart, EntriesAreLive,
    TypeOK
<1>4. EntriesAreLive' /\ EndIsNoticed'
  BY ServerAssumption DEF Interrupt, Inv, EntriesAreLive, EndIsNoticed, TypeOK
<1>5. TasksKnowDevice' /\ OneStreamPerDevice'
  BY ServerAssumption DEF Interrupt, Inv, TasksKnowDevice, OneStreamPerDevice,
    TypeOK
<1>6. StreamsAreOwned'
  BY ServerAssumption DEF Interrupt, Inv, StreamsAreOwned, JoinsInPlace,
    TasksKnowDevice, TypeOK
<1> QED
  BY <1>1, <1>2, <1>3, <1>4, <1>5, <1>6 DEF Inv

\* A wait for tasks ends when they are done: none of them is running any more.
LEMMA JoinedInv ==
  ASSUME Inv,
         Joined
  PROVE  Inv'
<1>1. TypeOK'
  BY ServerAssumption DEF Joined, Inv, TypeOK, PCs
<1>2. HandlerOwnsCur' /\ JoinsInPlace' /\ DeviceIsFree'
  BY ServerAssumption DEF Joined, Inv, HandlerOwnsCur, JoinsInPlace,
    DeviceIsFree, TypeOK
<1>3. NoTaskBeforeStart' /\ EntriesAreLive' /\ TasksKnowDevice' /\ OneStreamPerDevice' /\ EndIsNoticed'
  BY ServerAssumption DEF Joined, Inv, NoTaskBeforeStart, EntriesAreLive,
    TasksKnowDevice, OneStreamPerDevice, EndIsNoticed, TypeOK
<1>4. StreamsAreOwned'
  BY DEF Joined, Inv, StreamsAreOwned, TasksDone, TypeOK
<1> QED
  BY <1>1, <1>2, <1>3, <1>4 DEF Inv

\* So does the last one, and whoever waited for accept() is refused.
LEMMA DrainedInv ==
  ASSUME Inv,
         Drained
  PROVE  Inv'
<1>1. TypeOK'
  BY ServerAssumption DEF Drained, Inv, TypeOK, PCs
<1>2. HandlerOwnsCur' /\ JoinsInPlace' /\ DeviceIsFree'
  BY ServerAssumption DEF Drained, Inv, HandlerOwnsCur, JoinsInPlace,
    DeviceIsFree, TypeOK
<1>3. NoTaskBeforeStart' /\ EntriesAreLive' /\ TasksKnowDevice' /\ OneStreamPerDevice' /\ EndIsNoticed'
  BY ServerAssumption DEF Drained, Inv, NoTaskBeforeStart, EntriesAreLive,
    TasksKnowDevice, OneStreamPerDevice, EndIsNoticed, TypeOK
<1>4. StreamsAreOwned'
  BY DEF Drained, Inv, StreamsAreOwned, TasksDone, TypeOK
<1> QED
  BY <1>1, <1>2, <1>3, <1>4 DEF Inv

\* A panic of listen() forgets every connection; what was running runs on.
LEMMA HandlerPanicsInv ==
  ASSUME Inv,
         HandlerPanics
  PROVE  Inv'
<1>1. TypeOK'
  BY ServerAssumption DEF HandlerPanics, Inv, TypeOK, PCs
<1>2. HandlerOwnsCur' /\ JoinsInPlace' /\ DeviceIsFree' /\ StreamsAreOwned' /\ OneStreamPerDevice'
  BY ServerAssumption DEF HandlerPanics, Inv, HandlerOwnsCur, JoinsInPlace,
    DeviceIsFree, StreamsAreOwned, OneStreamPerDevice, TypeOK
<1>3. NoTaskBeforeStart' /\ EntriesAreLive' /\ TasksKnowDevice' /\ EndIsNoticed'
  BY ServerAssumption DEF HandlerPanics, Inv, NoTaskBeforeStart, EntriesAreLive,
    TasksKnowDevice, EndIsNoticed, TypeOK
<1> QED
  BY <1>1, <1>2, <1>3 DEF Inv

\* No task is running for the device of a handler that is past its join: a
\* registered one would have an entry, a cancelled one would be joined still.
LEMMA NobodyHasHandlersDevice ==
  ASSUME Inv, pc \in {"bind", "respond"}, NEW c \in Conns, udp[c] = "running"
  PROVE  device[c] # device[cur]
<1>1. cur # NoConn /\ joining = {}
  BY DEF Inv, HandlerOwnsCur, JoinsInPlace
<1>2. connections[device[cur]] = NoConn
  BY <1>1 DEF Inv, DeviceIsFree
<1>3. connections[device[c]] = c
  BY <1>1 DEF Inv, StreamsAreOwned
<1> QED
  BY <1>2, <1>3, ServerAssumption

\* The tasks of a new stream are the only ones of its device, and are registered.
LEMMA StartStreamInv ==
  ASSUME Inv,
         StartStream
  PROVE  Inv'
<1>1. TypeOK'
  BY ServerAssumption DEF StartStream, Inv, TypeOK, HandlerOwnsCur, PCs
<1>2. HandlerOwnsCur' /\ JoinsInPlace' /\ DeviceIsFree'
  BY ServerAssumption DEF StartStream, Inv, HandlerOwnsCur, JoinsInPlace,
    DeviceIsFree, TypeOK
<1>3. NoTaskBeforeStart'
  BY ServerAssumption DEF StartStream, Inv, NoTaskBeforeStart, HandlerOwnsCur,
    TypeOK
<1>4. EntriesAreLive' /\ TasksKnowDevice'
  BY ServerAssumption DEF StartStream, Inv, EntriesAreLive, TasksKnowDevice,
    HandlerOwnsCur, NoTaskBeforeStart, DeviceIsFree, TypeOK
<1>5. StreamsAreOwned'
  BY ServerAssumption, NobodyHasHandlersDevice DEF StartStream, Inv,
    StreamsAreOwned, HandlerOwnsCur, NoTaskBeforeStart, DeviceIsFree,
    JoinsInPlace, TasksKnowDevice, TypeOK
<1>6. OneStreamPerDevice'
  BY ServerAssumption, NobodyHasHandlersDevice DEF StartStream, Inv,
    OneStreamPerDevice, HandlerOwnsCur, TypeOK
<1>7. EndIsNoticed'
  BY ServerAssumption DEF StartStream, Inv, EndIsNoticed, HandlerOwnsCur,
    EntriesAreLive, TypeOK
<1> QED
  BY <1>1, <1>2, <1>3, <1>4, <1>5, <1>6, <1>7 DEF Inv

\* A UDP task that ends, for whatever reason, leaves everything else as it was.
LEMMA UdpEndsInv ==
  ASSUME Inv, NEW c \in Conns, UdpStops(c) \/ UdpFails(c)
  PROVE  Inv'
  BY DEF UdpStops, UdpFails, PCs, Inv, TypeOK, HandlerOwnsCur,
    NoTaskBeforeStart, JoinsInPlace, DeviceIsFree, EntriesAreLive,
    TasksKnowDevice, StreamsAreOwned, OneStreamPerDevice, EndIsNoticed

\* A stream that ends leaves a notice behind.
LEMMA StreamEndsInv ==
  ASSUME Inv,
         NEW c \in Conns, StreamEnds(c)
  PROVE  Inv'
<1>1. TypeOK'
  BY ServerAssumption DEF StreamEnds, Inv, TypeOK, TasksKnowDevice, PCs
<1>2. HandlerOwnsCur' /\ JoinsInPlace' /\ DeviceIsFree'
  BY ServerAssumption DEF StreamEnds, Inv, HandlerOwnsCur, JoinsInPlace,
    DeviceIsFree, TypeOK
<1>3. NoTaskBeforeStart' /\ EntriesAreLive' /\ TasksKnowDevice'
  BY ServerAssumption DEF StreamEnds, Inv, NoTaskBeforeStart, EntriesAreLive,
    TasksKnowDevice, TypeOK
<1>4. StreamsAreOwned' /\ OneStreamPerDevice'
  BY ServerAssumption DEF StreamEnds, Inv, StreamsAreOwned,
    OneStreamPerDevice, TypeOK
<1>5. EndIsNoticed'
  BY ServerAssumption DEF StreamEnds, Inv, EndIsNoticed, EntriesAreLive,
    TasksKnowDevice, TypeOK
<1> QED
  BY <1>1, <1>2, <1>3, <1>4, <1>5 DEF Inv

\* Every step preserves Inv.
LEMMA NextInv == Inv /\ [Next]_vars => Inv'
<1> SUFFICES ASSUME Inv, [Next]_vars PROVE Inv'
  OBVIOUS
<1>1. CASE UNCHANGED vars
  BY <1>1 DEF vars, PCs, Inv, TypeOK, HandlerOwnsCur, NoTaskBeforeStart,
    JoinsInPlace, DeviceIsFree, EntriesAreLive, TasksKnowDevice,
    StreamsAreOwned, OneStreamPerDevice, EndIsNoticed
<1>2. CASE Next
  BY <1>2, QuietStepsInv, HandleRequestInv, HandleNoticeInv, InterruptInv,
     JoinedInv, DrainedInv, HandlerPanicsInv, StartStreamInv, UdpEndsInv,
     StreamEndsInv DEF Next
<1> QED
  BY <1>1, <1>2

\* Inv holds throughout.
THEOREM Invariance == Spec => []Inv
<1>1. Init => Inv
  BY InitInv
<1>2. Inv /\ [Next]_vars => Inv'
  BY NextInv
<1> QED
  BY <1>1, <1>2, PTL DEF Spec
-----------------------------------------------------------------------------
(***************************************************************************)
(* What Inv gives.                                                         *)
(***************************************************************************)

\* Every variable keeps its type: in particular only ids of devices ever go through
\* the channel.
THEOREM TypeCorrect == Spec => []TypeOK
<1>1. Inv => TypeOK
  BY DEF Inv
<1> QED
  BY <1>1, Invariance, PTL

\* No two UDP tasks have a device open, for any number of clients that take it from
\* each other.
THEOREM Exclusion == Spec => []OneStreamPerDevice
<1>1. Inv => OneStreamPerDevice
  BY DEF Inv
<1> QED
  BY <1>1, Invariance, PTL

\* Every running UDP task is registered, or cancelled and being joined.
THEOREM Ownership == Spec => []StreamsAreOwned
<1>1. Inv => StreamsAreOwned
  BY DEF Inv
<1> QED
  BY <1>1, Invariance, PTL

\* An entry whose stream has ended has a notice on its way.
THEOREM NoEntryForgotten == Spec => []EndIsNoticed
<1>1. Inv => EndIsNoticed
  BY DEF Inv
<1> QED
  BY <1>1, Invariance, PTL

\* A handler binds its socket after the last socket of its device is closed.
THEOREM ClosedBeforeBind == Spec => []DeviceClosedBeforeBind
<1>1. Inv => DeviceClosedBeforeBind
  BY NobodyHasHandlersDevice DEF DeviceClosedBeforeBind, Bound
<1> QED
  BY <1>1, Invariance, PTL

-----------------------------------------------------------------------------
(***************************************************************************)
(* ForwarderServer implements DeviceLease: holder is the connection whose  *)
(* UDP task runs, served the connections that have had one.                *)
(***************************************************************************)

\* One streaming connection is the holder, none is no holder.
LEMMA OnlyOfValues ==
  /\ OnlyOf({}) = NoConn
  /\ \A c \in Conns : OnlyOf({c}) = c
BY DEF OnlyOf

\* Steps after which the same connections are streaming do not move a lease.
LEMMA SameStreamsStutter ==
  ASSUME \A d \in Devices : Streaming(d)' = Streaming(d), udp' = udp
  PROVE  UNCHANGED Lease!vars
<1>1. \A d \in Devices : Holder(d)' = Holder(d)
  BY DEF Holder
<1> QED
  BY <1>1 DEF Lease!vars

\* A stream that starts takes the lease of its device, which nobody has.
LEMMA StartStreamAcquires ==
  ASSUME Inv, StartStream
  PROVE  \E d \in Devices, c \in Conns : Lease!Acquire(d, c)
<1>1. PICK c \in Conns, d \in Devices : c = cur /\ d = device[cur]
  BY DEF StartStream, Inv, TypeOK, HandlerOwnsCur, DeviceIsFree
<1>2. /\ udp[c] = "none"
      /\ udp' = [udp EXCEPT ![c] = "running"]
      /\ device' = device
      /\ device[c] = d
  BY <1>1 DEF StartStream, Inv, HandlerOwnsCur, NoTaskBeforeStart
<1>3. Streaming(d) = {}
  BY <1>1, NobodyHasHandlersDevice DEF StartStream, Streaming
<1>4. Streaming(d)' = {c}
  BY <1>2, <1>3 DEF Streaming, Inv, TypeOK
<1>5. \A e \in Devices \ {d} : Streaming(e)' = Streaming(e)
  BY <1>2 DEF Streaming, Inv, TypeOK
<1>6. /\ Holder(d) = NoConn /\ Holder(d)' = c
      /\ \A e \in Devices \ {d} : Holder(e)' = Holder(e)
  BY <1>3, <1>4, <1>5, OnlyOfValues DEF Holder
<1>7. {x \in Conns : udp[x] # "none"}' = {x \in Conns : udp[x] # "none"} \cup {c}
  BY <1>2 DEF Inv, TypeOK
<1>8. Lease!Acquire(d, c)
  BY <1>2, <1>6, <1>7 DEF Lease!Acquire
<1> QED
  BY <1>8

\* A UDP task that ends gives the lease of its device back.
LEMMA UdpEndsReleases ==
  ASSUME Inv, NEW c \in Conns, UdpStops(c) \/ UdpFails(c)
  PROVE  \E d \in Devices : Lease!Release(d)
<1>1. PICK d \in Devices : d = device[c]
  BY DEF UdpStops, UdpFails, Inv, TasksKnowDevice
<1>2. /\ udp[c] = "running"
      /\ udp' = [udp EXCEPT ![c] = "done"]
      /\ device' = device
  BY DEF UdpStops, UdpFails
<1>3. Streaming(d) = {c}
  BY <1>1, <1>2 DEF Streaming, Inv, OneStreamPerDevice
<1>4. Streaming(d)' = {}
  BY <1>2, <1>3 DEF Streaming, Inv, TypeOK
<1>5. \A e \in Devices \ {d} : Streaming(e)' = Streaming(e)
  BY <1>1, <1>2 DEF Streaming, Inv, TypeOK
<1>6. /\ Holder(d) # NoConn /\ Holder(d)' = NoConn
      /\ \A e \in Devices \ {d} : Holder(e)' = Holder(e)
  BY <1>3, <1>4, <1>5, OnlyOfValues, ServerAssumption DEF Holder
<1>7. UNCHANGED {x \in Conns : udp[x] # "none"}
  <2>1. \A x \in Conns : udp'[x] # "none" <=> udp[x] # "none"
    BY <1>2 DEF Inv, TypeOK
  <2> QED
    BY <2>1
<1>8. Lease!Release(d)
  <2>1. [e \in Devices |-> Holder(e)][d] # NoConn
    BY <1>6
  <2>2. \A e \in Devices : Holder(e)' = IF e = d THEN NoConn ELSE Holder(e)
    BY <1>6
  <2> QED
    BY <1>7, <2>1, <2>2 DEF Lease!Release
<1> QED
  BY <1>8

\* No other step starts or ends a UDP task, or changes the device of one that runs.
LEMMA OtherStepsStutter ==
  ASSUME Inv, [Next]_vars, ~StartStream,
         \A c \in Conns : ~(UdpStops(c) \/ UdpFails(c))
  PROVE  UNCHANGED Lease!vars
<1>1. udp' = udp
  <2>1. CASE \E c \in Conns : Connect(c) \/ HangUp(c) \/ Accept(c) \/ StreamEnds(c)
    BY <2>1 DEF Connect, HangUp, Accept, StreamEnds
  <2>2. CASE \E d \in Devices : \E p \in RequestPorts(d) : HandleRequest(d, p)
    BY <2>2 DEF HandleRequest
  <2>3. CASE \/ ReadFails \/ HandleList \/ HandlerPanics \/ PanicExits \/ Joined
             \/ Bind \/ BindFails \/ RespondFails
    BY <2>3 DEF ReadFails, HandleList, HandlerPanics, PanicExits, Joined, Bind,
      BindFails, RespondFails, DropStream
  <2>4. CASE HandleNotice \/ Interrupt \/ InterruptUnseen \/ Drained
    BY <2>4 DEF HandleNotice, Interrupt, InterruptUnseen, Drained
  <2>5. CASE UNCHANGED vars
    BY <2>5 DEF vars
  <2> QED
    BY <2>1, <2>2, <2>3, <2>4, <2>5 DEF Next
<1>2. \A c \in Conns : udp[c] = "running" => device'[c] = device[c]
  <2>1. CASE \E d \in Devices : \E p \in RequestPorts(d) : HandleRequest(d, p)
    BY <2>1 DEF HandleRequest, Inv, TypeOK, HandlerOwnsCur, NoTaskBeforeStart
  <2>2. CASE device' = device
    BY <2>2
  <2> QED
    BY <2>1, <2>2 DEF Next, vars, Connect, HangUp, Accept, DropStream, ReadFails,
      HandleList, HandlerPanics, PanicExits, Joined, Bind, BindFails, RespondFails,
      HandleNotice, Interrupt, InterruptUnseen, Drained, StreamEnds
<1>3. \A d \in Devices : Streaming(d)' = Streaming(d)
  BY <1>1, <1>2 DEF Streaming
<1> QED
  BY <1>1, <1>3, SameStreamsStutter

\* The server hands its devices out as DeviceLease promises.
THEOREM LeaseImplemented == Spec => LeaseSpec
<1>1. Init => Lease!Init
  <2> SUFFICES ASSUME Init PROVE Lease!Init
    OBVIOUS
  <2>1. \A d \in Devices : Holder(d) = NoConn
    BY OnlyOfValues DEF Init, Streaming, Holder
  <2> QED
    BY <2>1 DEF Init, Lease!Init
<1>2. Inv /\ Inv' /\ [Next]_vars => [Lease!Next]_(Lease!vars)
  <2> SUFFICES ASSUME Inv, Inv', [Next]_vars PROVE [Lease!Next]_(Lease!vars)
    OBVIOUS
  <2>1. CASE StartStream
    BY <2>1, StartStreamAcquires DEF Lease!Next
  <2>2. ASSUME NEW c \in Conns, UdpStops(c) \/ UdpFails(c)
        PROVE  Lease!Next
    BY <2>2, UdpEndsReleases DEF Lease!Next
  <2> QED
    BY <2>1, <2>2, OtherStepsStutter
<1> QED
  BY <1>1, <1>2, Invariance, PTL DEF Spec, LeaseSpec, Lease!Spec
=============================================================================

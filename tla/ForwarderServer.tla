-------------------------- MODULE ForwarderServer --------------------------
(***************************************************************************)
(* The control plane of audio_forwarder's server, src/src/server.rs.       *)
(*                                                                         *)
(* One task runs listen(): a loop around a select! over the TCP listener,  *)
(* the channel on which ended streams are announced, and Ctrl-C.  It runs  *)
(* a whole handler before it comes back to the select!.  pc says at which  *)
(* await it stands, cur whose connection it is handling.                   *)
(*                                                                         *)
(* A connection that starts a stream gets two tasks on other threads: the  *)
(* UDP task that owns the audio device (udp), and the socket task that     *)
(* watches the TCP stream (stream[c] = "watched") and announces its end on *)
(* the channel (notices).  The map connections holds, per device id, the   *)
(* connection whose tasks are to be cancelled and joined.                  *)
(*                                                                         *)
(* What happens between two awaits of the listen() task is one step: the   *)
(* other tasks share nothing with it but the cancellation tokens and the   *)
(* channel.                                                                *)
(***************************************************************************)
EXTENDS Naturals, Sequences

CONSTANTS
  Conns,            \* the TCP connections that clients open
  Devices,          \* the device ids, "host|device|direction"
  OutputDevices,    \* the ids of direction Output: only their requests name a port
  Ports,            \* the UDP ports that firewall_udp_addr may ask for
  AnyPort,          \* port 0: the system picks a free one
  NoConn,           \* no connection
  NoDevice,         \* the device of a connection that has not asked for one
  EnumerationFails  \* whether the host's list of audio devices can fail, or change under a handler

ASSUME ServerAssumption ==
  /\ NoConn \notin Conns
  /\ NoDevice \notin Devices
  /\ AnyPort \notin Ports
  /\ OutputDevices \subseteq Devices
  /\ EnumerationFails \in BOOLEAN

VARIABLES
  pc,           \* where the listen() task stands
  cur,          \* the connection its handler is about, or NoConn
  joining,      \* the connections whose tasks it is waiting for
  connections,  \* Server.connections: the connection registered for a device id
  notices,      \* the channel of device ids whose stream has ended
  stream,       \* who owns the server's end of the TCP stream
  peerEnded,    \* the connections the client has closed (or broken)
  udp,          \* the UDP task: "none", "running" or "done"
  cancelled,    \* the connections whose cancellation token is set
  device,       \* the device id a connection asked for
  port,         \* the UDP port it asked for
  interrupted   \* Ctrl-C has been pressed

vars == <<pc, cur, joining, connections, notices, stream, peerEnded, udp,
          cancelled, device, port, interrupted>>

PCs == {"select", "read", "join", "bind", "respond", "drain", "stopped",
        "panicked", "exited"}

TypeOK ==
  /\ pc \in PCs
  /\ cur \in Conns \cup {NoConn}
  /\ joining \subseteq Conns
  /\ connections \in [Devices -> Conns \cup {NoConn}]
  /\ notices \in Seq(Devices)
  /\ stream \in [Conns -> {"none", "backlog", "handler", "watched", "dropped"}]
  /\ peerEnded \subseteq Conns
  /\ udp \in [Conns -> {"none", "running", "done"}]
  /\ cancelled \subseteq Conns
  /\ device \in [Conns -> Devices \cup {NoDevice}]
  /\ port \in [Conns -> Ports \cup {AnyPort}]
  /\ interrupted \in BOOLEAN

Init ==
  /\ pc = "select"
  /\ cur = NoConn
  /\ joining = {}
  /\ connections = [d \in Devices |-> NoConn]
  /\ notices = <<>>
  /\ stream = [c \in Conns |-> "none"]
  /\ peerEnded = {}
  /\ udp = [c \in Conns |-> "none"]
  /\ cancelled = {}
  /\ device = [c \in Conns |-> NoDevice]
  /\ port = [c \in Conns |-> AnyPort]
  /\ interrupted = FALSE

-----------------------------------------------------------------------------
(***************************************************************************)
(* The clients, as the server sees them.                                   *)
(***************************************************************************)

\* A client connects: the kernel queues the connection for accept(), as long as
\* listen() has the listener.
Connect(c) ==
  /\ pc \notin {"stopped", "panicked", "exited"}
  /\ stream[c] = "none"
  /\ stream' = [stream EXCEPT ![c] = "backlog"]
  /\ UNCHANGED <<pc, cur, joining, connections, notices, peerEnded, udp,
                 cancelled, device, port, interrupted>>

\* A client stops or breaks off.  What it sent before can still be read.
HangUp(c) ==
  /\ stream[c] # "none"
  /\ c \notin peerEnded
  /\ peerEnded' = peerEnded \cup {c}
  /\ UNCHANGED <<pc, cur, joining, connections, notices, stream, udp,
                 cancelled, device, port, interrupted>>

-----------------------------------------------------------------------------
(***************************************************************************)
(* The listen() task.                                                      *)
(***************************************************************************)

\* listener.accept() wins the select!.
Accept(c) ==
  /\ pc = "select"
  /\ stream[c] = "backlog"
  /\ pc' = "read"
  /\ cur' = c
  /\ stream' = [stream EXCEPT ![c] = "handler"]
  /\ UNCHANGED <<joining, connections, notices, peerEnded, udp, cancelled,
                 device, port, interrupted>>

\* The handler returns without having started a stream: it drops framed_stream
\* (and the UDP socket, if it had bound one).
DropStream ==
  /\ pc' = "select"
  /\ cur' = NoConn
  /\ stream' = [stream EXCEPT ![cur] = "dropped"]
  /\ UNCHANGED <<joining, connections, notices, peerEnded, udp, cancelled,
                 device, port, interrupted>>

\* Mutant of ReadFails: the wait for the request has no timeout.
ReadFailsAtStreamEndOnly ==
  /\ pc = "read"
  /\ cur \in peerEnded
  /\ DropStream

\* SERVER_TIMEOUT passes, the stream ends or does not decode, the message is not
\* a request, its udp_addr does not parse, or the device asked for is not there.
ReadFails ==
  /\ pc = "read"
  /\ DropStream

\* A List request is answered and the stream dropped.
HandleList ==
  /\ pc = "read"
  /\ DropStream

\* handle_list_msg unwraps the device list, and get_device the device at a position
\* that the host's next enumeration may no longer have (StreamSetup).  The panic takes
\* listen() down: the map, the channel, the listener and all streams are dropped
\* and the socket tasks with them.  No token is set, and the UDP tasks are on
\* threads of their own, which go on.
HandlerPanics ==
  /\ pc = "read"
  /\ EnumerationFails
  /\ pc' = "panicked"
  /\ cur' = NoConn
  /\ connections' = [d \in Devices |-> NoConn]
  /\ notices' = <<>>
  /\ stream' = [c \in Conns |-> IF stream[c] = "none" THEN "none" ELSE "dropped"]
  /\ UNCHANGED <<joining, peerEnded, udp, cancelled, device, port, interrupted>>

\* The process is over once the runtime is dropped, which waits for every
\* blocking task.
PanicExits ==
  /\ pc = "panicked"
  /\ \A c \in Conns : udp[c] # "running"
  /\ pc' = "exited"
  /\ UNCHANGED <<cur, joining, connections, notices, stream, peerEnded, udp,
                 cancelled, device, port, interrupted>>

\* Mutant of RemoveConnection: does not look whether the map has the device.
RemoveConnectionUnchecked(d) ==
  /\ connections' = [connections EXCEPT ![d] = NoConn]
  /\ joining' = {connections[d]}
  /\ cancelled' = cancelled \cup (joining' \ {NoConn})
  /\ pc' = "join"

\* Mutant of RemoveConnection: joins the tasks without setting their token.
RemoveConnectionNoCancel(d) ==
  /\ connections' = [connections EXCEPT ![d] = NoConn]
  /\ joining' = {connections[d]} \ {NoConn}
  /\ pc' = "join"
  /\ UNCHANGED cancelled

\* Mutant of RemoveConnection: looks the connection up and leaves it in the map.
RemoveConnectionKeepsEntry(d) ==
  /\ joining' = {connections[d]} \ {NoConn}
  /\ cancelled' = cancelled \cup joining'
  /\ pc' = "join"
  /\ UNCHANGED connections

\* remove_connection: takes the device's connection out of the map, sets its
\* token and goes to wait for its tasks.
RemoveConnection(d) ==
  /\ connections' = [connections EXCEPT ![d] = NoConn]
  /\ joining' = {connections[d]} \ {NoConn}
  /\ cancelled' = cancelled \cup joining'
  /\ pc' = "join"

\* The ports a request for device d may name.
RequestPorts(d) == IF d \in OutputDevices THEN Ports \cup {AnyPort} ELSE {AnyPort}

\* Mutant of HandleRequest: nobody is removed, StartStream overwrites the entry.
HandleRequestWithoutRemoval(d, p) ==
  /\ pc = "read"
  /\ device' = [device EXCEPT ![cur] = d]
  /\ port' = [port EXCEPT ![cur] = p]
  /\ pc' = "bind"
  /\ UNCHANGED <<cur, joining, connections, notices, stream, peerEnded, udp,
                 cancelled, interrupted>>

\* A SendAudio (input device) or ReceiveAudio (output device) request: whoever
\* has the device is removed first.
HandleRequest(d, p) ==
  /\ pc = "read"
  /\ device' = [device EXCEPT ![cur] = d]
  /\ port' = [port EXCEPT ![cur] = p]
  /\ RemoveConnection(d)
  /\ UNCHANGED <<cur, notices, stream, peerEnded, udp, interrupted>>

\* Mutant of TasksDone: does not wait.
TasksDoneAtOnce(cs) == cs \subseteq Conns

\* Mutant of TasksDone: waits for the socket tasks only.
SocketTasksDone(cs) == \A c \in cs : stream[c] # "watched"

TasksDone(cs) == \A c \in cs : udp[c] # "running" /\ stream[c] # "watched"

\* join_all returns: back to the handler, or to the select!.
Joined ==
  /\ pc = "join"
  /\ TasksDone(joining)
  /\ joining' = {}
  /\ pc' = IF cur = NoConn THEN "select" ELSE "bind"
  /\ UNCHANGED <<cur, connections, notices, stream, peerEnded, udp, cancelled,
                 device, port, interrupted>>

\* The connections that own a bound UDP socket.
Bound == {c \in Conns : udp[c] = "running"} \cup
         (IF pc = "respond" THEN {cur} ELSE {})

\* UdpSocket::bind succeeds: a port asked for by number must be free.
Bind ==
  /\ pc = "bind"
  /\ port[cur] # AnyPort => \A c \in Bound : port[c] # port[cur]
  /\ pc' = "respond"
  /\ UNCHANGED <<cur, joining, connections, notices, stream, peerEnded, udp,
                 cancelled, device, port, interrupted>>

\* The firewall address does not parse, or somebody has the port: the connection
\* that had the device is gone already.
BindFails ==
  /\ pc = "bind"
  /\ DropStream

\* The response is sent.  Both tasks are spawned and registered; framed_stream
\* moves to the socket task and the UDP socket to the UDP task.
StartStream ==
  /\ pc = "respond"
  /\ udp' = [udp EXCEPT ![cur] = "running"]
  /\ stream' = [stream EXCEPT ![cur] = "watched"]
  /\ connections' = [connections EXCEPT ![device[cur]] = cur]
  /\ pc' = "select"
  /\ cur' = NoConn
  /\ UNCHANGED <<joining, notices, peerEnded, cancelled, device, port,
                 interrupted>>

\* The client is gone and the response cannot be sent.
RespondFails ==
  /\ pc = "respond"
  /\ cur \in peerEnded
  /\ DropStream

\* Mutant of HandleNotice: empties the channel for the sake of one notice.
HandleNoticeTakingAll ==
  /\ pc = "select"
  /\ notices # <<>>
  /\ notices' = <<>>
  /\ RemoveConnection(Head(notices))
  /\ UNCHANGED <<cur, stream, peerEnded, udp, device, port, interrupted>>

\* receiver.recv_async() wins the select!: the device's connection is removed,
\* whichever it is by now.
HandleNotice ==
  /\ pc = "select"
  /\ notices # <<>>
  /\ notices' = Tail(notices)
  /\ RemoveConnection(Head(notices))
  /\ UNCHANGED <<cur, stream, peerEnded, udp, device, port, interrupted>>

\* Mutant of Interrupt: drains the map and sets no token.
InterruptWithoutCancel ==
  /\ pc = "select"
  /\ interrupted' = TRUE
  /\ joining' = {connections[d] : d \in Devices} \ {NoConn}
  /\ connections' = [d \in Devices |-> NoConn]
  /\ pc' = "drain"
  /\ UNCHANGED <<cur, notices, stream, peerEnded, udp, cancelled, device, port>>

\* ctrl_c() wins the select!: remove_all_connections drains the map, sets all
\* tokens and goes to wait for all tasks.
Interrupt ==
  /\ pc = "select"
  /\ interrupted' = TRUE
  /\ joining' = {connections[d] : d \in Devices} \ {NoConn}
  /\ cancelled' = cancelled \cup joining'
  /\ connections' = [d \in Devices |-> NoConn]
  /\ pc' = "drain"
  /\ UNCHANGED <<cur, notices, stream, peerEnded, udp, device, port>>

\* Ctrl-C while a handler runs: no ctrl_c() future is there to see it, and the
\* one of the next select! only sees later ones.
InterruptUnseen ==
  /\ pc \in {"read", "join", "bind", "respond"}
  /\ ~interrupted
  /\ interrupted' = TRUE
  /\ UNCHANGED <<pc, cur, joining, connections, notices, stream, peerEnded,
                 udp, cancelled, device, port>>

\* All tasks are joined and listen() returns; who still waits for accept() is
\* refused.
Drained ==
  /\ pc = "drain"
  /\ TasksDone(joining)
  /\ joining' = {}
  /\ pc' = "stopped"
  /\ stream' = [c \in Conns |-> IF stream[c] = "backlog" THEN "dropped" ELSE stream[c]]
  /\ UNCHANGED <<cur, connections, notices, peerEnded, udp, cancelled, device,
                 port, interrupted>>

-----------------------------------------------------------------------------
(***************************************************************************)
(* The tasks of a connection.                                              *)
(***************************************************************************)

\* UdpServer::send_audio or receive_audio sees the token and returns: the audio
\* device and the UDP socket are closed.
UdpStops(c) ==
  /\ udp[c] = "running"
  /\ c \in cancelled
  /\ udp' = [udp EXCEPT ![c] = "done"]
  /\ UNCHANGED <<pc, cur, joining, connections, notices, stream, peerEnded,
                 cancelled, device, port, interrupted>>

\* It returns an error (the format is not supported, the device cannot be
\* opened), which is logged and told to nobody.
UdpFails(c) ==
  /\ udp[c] = "running"
  /\ udp' = [udp EXCEPT ![c] = "done"]
  /\ UNCHANGED <<pc, cur, joining, connections, notices, stream, peerEnded,
                 cancelled, device, port, interrupted>>

\* Mutant of StreamEnds: announces only the streams that were cancelled.
StreamEndsQuietly(c) ==
  /\ stream[c] = "watched"
  /\ c \in cancelled \cup peerEnded
  /\ stream' = [stream EXCEPT ![c] = "dropped"]
  /\ notices' = IF c \in cancelled THEN Append(notices, device[c]) ELSE notices
  /\ UNCHANGED <<pc, cur, joining, connections, peerEnded, udp, cancelled,
                 device, port, interrupted>>

\* wait_for_stream_end: the token is set or the client's stream has ended.
\* Either way the device id goes to the channel and the stream is dropped.
StreamEnds(c) ==
  /\ stream[c] = "watched"
  /\ c \in cancelled \cup peerEnded
  /\ stream' = [stream EXCEPT ![c] = "dropped"]
  /\ notices' = Append(notices, device[c])
  /\ UNCHANGED <<pc, cur, joining, connections, peerEnded, udp, cancelled,
                 device, port, interrupted>>

-----------------------------------------------------------------------------
Next ==
  \/ \E c \in Conns : Connect(c) \/ HangUp(c) \/ Accept(c)
                      \/ UdpStops(c) \/ UdpFails(c) \/ StreamEnds(c)
  \/ \E d \in Devices : \E p \in RequestPorts(d) : HandleRequest(d, p)
  \/ ReadFails \/ HandleList \/ HandlerPanics \/ PanicExits
  \/ Joined \/ Bind \/ BindFails \/ StartStream \/ RespondFails
  \/ HandleNotice \/ Interrupt \/ InterruptUnseen \/ Drained

Spec == Init /\ [][Next]_vars
(***************************************************************************)
(* The timeout bounds the wait for a request, and the other awaits of a    *)
(* handler complete.  select! polls its branches in random order, so a     *)
(* branch that is ready again and again is taken.  A UDP task looks at its *)
(* token between packets; the tasks of a connection have threads of their  *)
(* own.  Nothing obliges a client, a failure or a Ctrl-C.                  *)
(***************************************************************************)
Fairness ==
  /\ WF_vars(ReadFails)
  /\ WF_vars(Joined)
  /\ WF_vars(Bind \/ BindFails)
  /\ WF_vars(StartStream \/ RespondFails)
  /\ WF_vars(Drained)
  /\ WF_vars(PanicExits)
  /\ SF_vars(HandleNotice)
  /\ \A c \in Conns : SF_vars(Accept(c)) /\ WF_vars(UdpStops(c)) /\ WF_vars(StreamEnds(c))

FairSpec == Spec /\ Fairness

-----------------------------------------------------------------------------
(***************************************************************************)
(* Safety.                                                                 *)
(***************************************************************************)

\* Two UDP tasks never have the same audio device open.  It rests on
\* remove_connection waiting for the old task before the handler goes on, while
\* clients take devices from each other, streams end and notices arrive late.
OneStreamPerDevice ==
  \A c1, c2 \in Conns :
    udp[c1] = "running" /\ udp[c2] = "running" /\ device[c1] = device[c2]
      => c1 = c2

\* No UDP task is ever out of the server's hands: it is the one registered for
\* its device and not cancelled, or it is cancelled and being waited for.  Were an
\* entry of the map overwritten or dropped, its device would stay open for good.
\* (A panic of listen() does exactly that; see PanicIsTheEnd.)
StreamsAreOwned ==
  pc # "panicked" =>
    \A c \in Conns : udp[c] = "running" =>
      IF c \in cancelled THEN c \in joining ELSE connections[device[c]] = c

\* When the stream of a registered connection has ended, a notice for its device
\* is still on its way, however many notices other connections of the device have
\* left there: no entry outlives its stream for good.
EndIsNoticed ==
  \A d \in Devices :
    connections[d] # NoConn /\ stream[connections[d]] = "dropped"
      => \E i \in DOMAIN notices : notices[i] = d

\* When a handler binds its UDP socket no socket is open for its device, so a
\* client that asks again for the same device and firewall port does not run into
\* its own old socket.
DeviceClosedBeforeBind ==
  pc = "bind" => \A c \in Bound : device[c] # device[cur]

\* The connection whose UDP task has the device open.
Streaming(d) == {c \in Conns : udp[c] = "running" /\ device[c] = d}

OnlyOf(cs) == IF cs = {} THEN NoConn ELSE CHOOSE c \in cs : TRUE

Holder(d) == OnlyOf(Streaming(d))

Lease == INSTANCE DeviceLease WITH
  holder <- [d \in Devices |-> Holder(d)],
  served <- {c \in Conns : udp[c] # "none"}

\* The server hands its devices out as DeviceLease promises: never from one
\* connection straight to another, and to a connection at most once.
LeaseSpec == Lease!Spec

-----------------------------------------------------------------------------
(***************************************************************************)
(* Liveness, under FairSpec.                                               *)
(***************************************************************************)

\* The listen() task always comes back to its select!: no handler and no wait
\* for tasks holds it for ever.
KeepsListening == []<>(pc \in {"select", "stopped", "exited"})

\* When a client has gone, its audio device is closed in the end, wherever in its
\* handler, its stream or its removal the connection was.
DeviceReclaimed ==
  \A c \in Conns : c \in peerEnded ~> [](udp[c] # "running")

\* A connection waiting in the backlog is accepted while the server runs, however
\* long the clients before it make it wait.
BacklogServed ==
  \A c \in Conns : stream[c] = "backlog" ~> (stream[c] # "backlog" \/ pc = "drain")

\* A Ctrl-C that select! sees ends the server, with every device closed.
ShutdownCompletes ==
  pc = "drain" ~> (pc = "stopped" /\ \A c \in Conns : udp[c] # "running")

-----------------------------------------------------------------------------
(***************************************************************************)
(* What the documentation says and the code does not do.                   *)
(***************************************************************************)

\* "Clients will remain connected until they are stopped" (README.md): a stream is
\* cancelled only when its own client has gone, when a request for the same device
\* takes its place, or when the server is told to stop.
ConnectedUntilStopped ==
  [][\A c \in cancelled' \ cancelled :
       c \in peerEnded \/ (pc = "read" /\ connections[device'[cur]] = c) \/ pc' = "drain"]_vars

\* "The server ... will continue to listen ... until it is stopped" (README.md):
\* being told to stop, it stops.
InterruptStops == interrupted ~> pc = "stopped"

\* "Restart=on-failure" (scripts/audio-forwarder.service): a server that has
\* panicked is over, so that the system can start it again.
PanicIsTheEnd == pc = "panicked" ~> pc = "exited"
=============================================================================

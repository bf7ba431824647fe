-------------------------- MODULE ForwarderSystem --------------------------
(***************************************************************************)
(* A server and its clients, joined by their TCP streams: what the clients *)
(* do to a connection (peerEnded) is what the server sees of them, and     *)
(* what the server does to it (stream, answered) is what a client sees.    *)
(***************************************************************************)
EXTENDS Naturals, Sequences

CONSTANTS
  Conns, Devices, OutputDevices, Ports, AnyPort, NoConn, NoDevice, EnumerationFails

ASSUME SystemAssumption ==
  /\ NoConn \notin Conns
  /\ NoDevice \notin Devices
  /\ AnyPort \notin Ports
  /\ OutputDevices \subseteq Devices
  /\ EnumerationFails \in BOOLEAN

VARIABLES
  \* the server's
  pc, cur, joining, connections, notices, stream, udp, cancelled, device, port,
  interrupted,
  \* the clients'
  goal, phase, task, told, spent,
  peerEnded,  \* the connections closed by their client
  answered    \* the connections on which the server has sent its response

serverVars == <<pc, cur, joining, connections, notices, stream, udp, cancelled,
                device, port, interrupted>>
clientVars == <<goal, phase, task, told, spent>>
vars == <<serverVars, clientVars, peerEnded, answered>>

Server == INSTANCE ForwarderServer

Client == INSTANCE ForwarderClient WITH
  closed <- peerEnded,
  ended <- {c \in Conns : stream[c] = "dropped"}

TypeOK == Server!TypeOK /\ Client!TypeOK /\ answered \subseteq Conns

Init == Server!Init /\ Client!Init /\ answered = {}

-----------------------------------------------------------------------------
\* A client connects to a server that listens; connections come in with the request.
Connect(c) ==
  /\ Client!Start(c)
  /\ Server!Connect(c)
  /\ UNCHANGED answered

\* A client's own step: closing the connection is all that the server sees of it.
ClientStep(c) ==
  /\ Client!Step(c)
  /\ peerEnded' # peerEnded => Server!HangUp(c)
  /\ UNCHANGED <<serverVars, answered>>

\* A client gets what it asked for, or nothing.
Serve ==
  /\ cur # NoConn
  /\ UNCHANGED clientVars
  /\ \/ /\ goal[cur] = "list"
        /\ Server!HandleList
        /\ answered' = answered \cup {cur}
     \/ /\ Server!HandlerPanics
        /\ UNCHANGED answered
     \/ /\ goal[cur] = "audio"
        /\ \E d \in Devices : \E p \in Server!RequestPorts(d) : Server!HandleRequest(d, p)
        /\ UNCHANGED answered
     \/ /\ Server!StartStream
        /\ answered' = answered \cup {cur}

\* Everything else the server does sends nothing.
ServerStep ==
  /\ \/ \E c \in Conns : \/ Server!Accept(c) \/ Server!UdpStops(c)
                         \/ Server!UdpFails(c) \/ Server!StreamEnds(c)
     \/ Server!ReadFails \/ Server!PanicExits \/ Server!Joined \/ Server!Bind
     \/ Server!BindFails \/ Server!RespondFails \/ Server!HandleNotice
     \/ Server!Interrupt \/ Server!InterruptUnseen \/ Server!Drained
  /\ UNCHANGED <<clientVars, answered>>

Next ==
  \/ \E c \in Conns : Connect(c) \/ ClientStep(c)
  \/ Serve
  \/ ServerStep

Spec == Init /\ [][Next]_vars

FairSpec == Spec /\ Server!Fairness /\ Client!Fairness

-----------------------------------------------------------------------------
\* A client whose stream the server has cancelled (another client took its device, or
\* the server was stopped) does not go on streaming into the void.
CancelledClientsStop == \A c \in Conns : c \in cancelled ~> Client!Over(c)

\* No client waits for a response for ever, not even list_remote(), which has no timeout
\* and relies on the server's handlers all coming to an end.
ClientsAreAnswered ==
  \A c \in Conns : phase[c] = "waiting" ~> phase[c] # "waiting"

\* Once a client is over its device is free, however it ended and whether or not the
\* server had taken up its request by then.
DevicesFollowClients == \A c \in Conns : Client!Over(c) ~> [](udp[c] # "running")
=============================================================================

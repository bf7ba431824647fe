----------------------- MODULE ForwarderSystemProofs -----------------------
(***************************************************************************)
(* What holds of a server and its clients together, for any number of      *)
(* clients and devices.                                                    *)
(*                                                                         *)
(* ForwarderServerProofs is about a server whose clients may do anything.  *)
(* Real clients do less: a step of the system is a step of that server or  *)
(* one that it does not see, so that all that was proved of it holds here. *)
(***************************************************************************)
EXTENDS ForwarderSystem, TLAPS

FP == INSTANCE ForwarderServerProofs

-----------------------------------------------------------------------------
(***************************************************************************)
(* The server among its clients.                                           *)
(***************************************************************************)

\* Whatever the clients and the server do together is a step of the server with some
\* clients, or nothing to it.
LEMMA ServerSteps == [Next]_vars => [Server!Next]_Server!vars
<1> SUFFICES ASSUME [Next]_vars
             PROVE  Server!Next \/ UNCHANGED Server!vars
  OBVIOUS
<1>1. CASE UNCHANGED vars
  BY <1>1 DEF vars, serverVars, Server!vars
<1>2. ASSUME NEW c \in Conns, Connect(c)
      PROVE  Server!Next
  BY <1>2 DEF Connect, Server!Next
<1>3. ASSUME NEW c \in Conns, ClientStep(c)
      PROVE  Server!Next \/ UNCHANGED Server!vars
  <2>1. CASE peerEnded' # peerEnded
    BY <1>3, <2>1 DEF ClientStep, Server!Next
  <2>2. CASE peerEnded' = peerEnded
    BY <1>3, <2>2 DEF ClientStep, serverVars, Server!vars
  <2> QED
    BY <2>1, <2>2
<1>4. CASE Serve
  BY <1>4 DEF Serve, Server!Next
<1>5. CASE ServerStep
  BY <1>5 DEF ServerStep, Server!Next
<1> QED
  BY <1>1, <1>2, <1>3, <1>4, <1>5 DEF Next

\* The server of the system is the server of ForwarderServer: nothing its clients do to
\* it, and nothing it does for them, is beyond that module.
THEOREM ServerImplemented == Spec => Server!Spec
<1>1. Init => Server!Init
  BY DEF Init
<1>2. [Next]_vars => [Server!Next]_Server!vars
  BY ServerSteps
<1> QED
  BY <1>1, <1>2, PTL DEF Spec, Server!Spec

\* The steps of the server in ForwarderSystem are those its own module proves about.
LEMMA SameServer == Server!Next => FP!Next
  BY DEF Server!Next, FP!Next, Server!Connect, FP!Connect, Server!HangUp, FP!HangUp,
         Server!Accept, FP!Accept, Server!DropStream, FP!DropStream, Server!ReadFails,
         FP!ReadFails, Server!HandleList, FP!HandleList, Server!HandlerPanics,
         FP!HandlerPanics, Server!PanicExits, FP!PanicExits, Server!RemoveConnection,
         FP!RemoveConnection, Server!RequestPorts, FP!RequestPorts,
         Server!HandleRequest, FP!HandleRequest, Server!TasksDone, FP!TasksDone,
         Server!Joined, FP!Joined, Server!Bound, FP!Bound, Server!Bind, FP!Bind,
         Server!BindFails, FP!BindFails, Server!StartStream, FP!StartStream,
         Server!RespondFails, FP!RespondFails, Server!HandleNotice, FP!HandleNotice,
         Server!Interrupt, FP!Interrupt, Server!InterruptUnseen, FP!InterruptUnseen,
         Server!Drained, FP!Drained, Server!UdpStops, FP!UdpStops, Server!UdpFails,
         FP!UdpFails, Server!StreamEnds, FP!StreamEnds

-----------------------------------------------------------------------------
(***************************************************************************)
(* The inductive invariant: the server's own, and the clients' types.      *)
(***************************************************************************)

Inv ==
  /\ FP!Inv
  /\ Client!TypeOK
  /\ answered \subseteq Conns

\* The system starts with all clients idle.
LEMMA InitInv == Init => Inv
<1> SUFFICES ASSUME Init PROVE Inv
  OBVIOUS
<1>1. FP!Inv
  BY SystemAssumption, FP!InitInv DEF Init, Server!Init, FP!Init, Server!PCs, FP!PCs
<1>2. Client!TypeOK /\ answered \subseteq Conns
  BY DEF Init, Client!Init, Client!TypeOK, Client!Phases
<1> QED
  BY <1>1, <1>2 DEF Inv

\* What the server does to the system leaves its own invariant.
LEMMA ServerInv ==
  ASSUME Inv, [Next]_vars
  PROVE  FP!Inv'
<1>1. [FP!Next]_FP!vars
  BY ServerSteps, SameServer DEF Server!vars, FP!vars
<1> QED
  BY <1>1, SystemAssumption, FP!NextInv DEF Inv

\* A step of a client leaves its types.
LEMMA ClientStepInv ==
  ASSUME Inv, NEW c \in Conns, Client!Step(c) \/ Client!Start(c)
  PROVE  Client!TypeOK'
<1> USE DEF Inv, Client!TypeOK, Client!Phases
<1>1. CASE \/ Client!Start(c) \/ Client!TimesOut(c) \/ Client!NoResponse(c)
           \/ Client!ResponseIsLast(c) \/ Client!Killed(c)
  BY <1>1 DEF Client!Start, Client!TimesOut, Client!NoResponse, Client!ResponseIsLast,
              Client!Killed, Client!Exit
<1>2. CASE Client!Streams(c)
  BY <1>2 DEF Client!Streams
<1>3. CASE Client!ServerEnds(c) \/ Client!CtrlC(c)
  BY <1>3 DEF Client!ServerEnds, Client!CtrlC, Client!ToldToStop
<1>4. CASE Client!TaskResult(c)
  BY <1>4 DEF Client!TaskResult
<1>5. CASE Client!Shutdown(c) \/ Client!ShutdownFails(c)
  BY <1>5 DEF Client!Shutdown, Client!ShutdownFails
<1>6. CASE Client!Join(c)
  BY <1>6 DEF Client!Join
<1>7. CASE Client!TaskStops(c) \/ Client!TaskFails(c)
  BY <1>7 DEF Client!TaskStops, Client!TaskFails
<1> QED
  BY <1>1, <1>2, <1>3, <1>4, <1>5, <1>6, <1>7 DEF Client!Step

\* Every step preserves Inv.
LEMMA NextInv == Inv /\ [Next]_vars => Inv'
<1> SUFFICES ASSUME Inv, [Next]_vars PROVE Inv'
  OBVIOUS
<1>1. FP!Inv'
  BY ServerInv
<1>2. answered' \subseteq Conns
  <2>1. CASE Serve
    <3>1. cur \in Conns
      BY <2>1 DEF Serve, Inv, FP!Inv, FP!TypeOK
    <3> QED
      BY <2>1, <3>1 DEF Serve, Inv
  <2>2. CASE ServerStep \/ UNCHANGED vars \/ \E c \in Conns : Connect(c) \/ ClientStep(c)
    BY <2>2 DEF ServerStep, vars, Connect, ClientStep, Inv
  <2> QED
    BY <2>1, <2>2 DEF Next
<1>3. Client!TypeOK'
  <2>1. CASE \E c \in Conns : Connect(c) \/ ClientStep(c)
    BY <2>1, ClientStepInv DEF Connect, ClientStep
  <2>2. CASE Serve \/ ServerStep \/ UNCHANGED vars
    <3>1. UNCHANGED clientVars
      BY <2>2 DEF Serve, ServerStep, vars
    <3>2. peerEnded' \subseteq Conns
      BY <1>1 DEF FP!Inv, FP!TypeOK
    <3> QED
      BY <3>1, <3>2 DEF clientVars, Inv, Client!TypeOK
  <2> QED
    BY <2>1, <2>2 DEF Next
<1> QED
  BY <1>1, <1>2, <1>3 DEF Inv

\* Inv holds throughout.
THEOREM Invariance == Spec => []Inv
<1>1. Init => Inv
  BY InitInv
<1>2. Inv /\ [Next]_vars => Inv'
  BY NextInv
<1> QED
  BY <1>1, <1>2, PTL DEF Spec

-----------------------------------------------------------------------------
(***************************************************************************)
(* What Inv gives.                                                         *)
(***************************************************************************)

\* Every variable of the server and of its clients keeps its type.
THEOREM TypeCorrect == Spec => []TypeOK
<1>1. Inv => TypeOK
  BY DEF Inv, FP!Inv, FP!TypeOK, FP!PCs, Server!TypeOK, Server!PCs, TypeOK
<1> QED
  BY <1>1, Invariance, PTL

\* With real clients, too, no two UDP tasks have a device open and none is out of the
\* server's hands, unless listen() has panicked.
THEOREM DevicesInHand == Spec => [](Server!OneStreamPerDevice /\ Server!StreamsAreOwned)
<1>1. Inv => Server!OneStreamPerDevice /\ Server!StreamsAreOwned
  BY DEF Inv, FP!Inv, FP!OneStreamPerDevice, FP!StreamsAreOwned,
         Server!OneStreamPerDevice, Server!StreamsAreOwned
<1> QED
  BY <1>1, Invariance, PTL

\* The system implements DeviceLease: whatever its clients do, a device is acquired only
\* when it is free, and at most once for a connection.
THEOREM SystemLeases == Spec => FP!LeaseSpec
<1>1. Server!Init => FP!Init
  BY DEF Server!Init, FP!Init, Server!PCs, FP!PCs
<1>2. [Server!Next]_Server!vars => [FP!Next]_FP!vars
  BY SameServer DEF Server!vars, FP!vars
<1>3. Server!Spec => FP!Spec
  BY <1>1, <1>2, PTL DEF Server!Spec, FP!Spec
<1>4. FP!Spec => FP!LeaseSpec
  BY SystemAssumption, FP!LeaseImplemented
<1> QED
  BY <1>3, <1>4, ServerImplemented, PTL
=============================================================================

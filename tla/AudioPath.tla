----------------------------- MODULE AudioPath -----------------------------
(***************************************************************************)
(* A whole stream: an AudioSender, the network, an AudioReceiver.  It does *)
(* not matter which end is the server's: client.rs and server.rs run the   *)
(* same two functions.                                                     *)
(*                                                                         *)
(* The network is UDP's.  What was once on the wire may arrive late, twice *)
(* or never: wire is never emptied, and Deliver takes any packet of it at  *)
(* any time.  The receiver does not look at where a packet comes from: on  *)
(* a port that firewall_udp_addr has named, those of the sender it has     *)
(* displaced, which may not have stopped yet, arrive as well (Strays).     *)
(***************************************************************************)
EXTENDS Integers, Sequences

CONSTANTS
  Channels, Room, Capacity, CallbackSizes, MaxCaptured,
  PlayoutCapacity, InboxCapacity, OutputSizes, Silence, NoPacket,
  Strays   \* datagrams of an earlier sender, whose samples are all written 0

VARIABLES
  \* the sender's
  captured, buffer, spinning, permit, task, sequence, packet, wire, cancelled,
  \* the receiver's
  inbox, held, last, playout, output, playing, stopping,
  heard   \* the last sample of this stream the output device was given, or 0

sendVars == <<captured, buffer, spinning, permit, task, sequence, packet, wire,
              cancelled>>
recvVars == <<inbox, held, last, playout, output, playing, stopping>>
vars == <<sendVars, recvVars, heard>>

\* What packet_buffer can take of a datagram: both ends have the same MTU.
Datagrams ==
  {d \in [kind : {"audio", "tiny", "ragged"}, seq : Nat, slots : Seq(Nat)] :
     Len(d.slots) <= Room}

\* What the two ends assume, and that the playout buffer takes a packet.
ASSUME PathAssumption ==
  /\ Channels \in {1, 2}
  /\ Room \in Nat /\ Room >= 2
  /\ Capacity \in Nat \ {0}
  /\ CallbackSizes \subseteq Nat \ {0}
  /\ MaxCaptured \in Nat
  /\ PlayoutCapacity \in Nat /\ PlayoutCapacity >= Room
  /\ InboxCapacity \in Nat \ {0}
  /\ OutputSizes \subseteq Nat \ {0}
  /\ NoPacket \notin Datagrams
  /\ Strays \subseteq Datagrams
  /\ \A p \in Strays : \A i \in DOMAIN p.slots : p.slots[i] = 0

S == INSTANCE AudioSender
R == INSTANCE AudioReceiver WITH Incoming <- Datagrams

Init == S!Init /\ R!Init /\ heard = 0

-----------------------------------------------------------------------------
\* The datagram a packet of the sender is.
Datagram(p) == [kind |-> "audio", seq |-> p.seq, slots |-> p.slots]

Send == S!Next /\ UNCHANGED <<recvVars, heard>>

\* The network delivers a packet, for the first time or again.
Deliver(p) == R!Arrive(Datagram(p)) /\ UNCHANGED <<sendVars, heard>>

\* A packet of an earlier sender arrives.
DeliverStray(p) == R!Arrive(p) /\ UNCHANGED <<sendVars, heard>>

TakePacket ==
  /\ R!Receive \/ R!ReceiveFails \/ R!Cancel \/ R!CancelSeen
  /\ UNCHANGED <<sendVars, heard>>

\* The positions in slots of samples of this stream.
Own(slots) == {i \in DOMAIN slots : slots[i] \notin {Silence, 0}}

Play(n) ==
  /\ R!OutputCallback(n)
  /\ heard' = IF Own(output') = {} THEN heard
              ELSE output'[CHOOSE i \in Own(output') : \A j \in Own(output') : j <= i]
  /\ UNCHANGED sendVars

Next ==
  \/ Send
  \/ \E p \in wire : Deliver(p)
  \/ \E p \in Strays : DeliverStray(p)
  \/ TakePacket
  \/ \E n \in OutputSizes : Play(n)

Spec == Init /\ [][Next]_vars

-----------------------------------------------------------------------------
\* What waits to be played is in the order it was captured in and younger than
\* anything that was played, whatever the network loses, repeats or reorders,
\* whatever either buffer drops, and whoever else sends to the port: an earlier
\* sender's samples are heard in between and make packets late, but let none in that
\* the order check would have kept out.
PlayoutInOrder ==
  \A i \in Own(playout) :
    /\ playout[i] > heard
    /\ \A j \in 1 .. i - 1 : playout[j] <= playout[i]

\* Mono samples are heard on both channels at once: a frame is the same sample twice,
\* and no loss, overflow or underrun shifts the frames against the device's.
MonoOnBothSides ==
  Channels = 1 =>
    \A i \in DOMAIN playout : i % 2 = 1 =>
      i + 1 \in DOMAIN playout /\ playout[i] = playout[i + 1]

Stream == INSTANCE SampleStream

\* A stream keeps the promise of SampleStream, an earlier sender's samples apart.
StreamSpec == Stream!Spec

\* "Received audio packet out of order" (udp_server.rs, the description of a
\* counter): the very first packet that arrives cannot be out of order.
FirstIsInOrder == held = NoPacket /\ inbox # <<>> => ~R!Late(Head(inbox))
=============================================================================

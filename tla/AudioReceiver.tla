--------------------------- MODULE AudioReceiver ---------------------------
(***************************************************************************)
(* UdpServer::receive_audio, src/src/udp_server.rs: from the UDP socket to *)
(* the output device.                                                      *)
(*                                                                         *)
(* The task takes packets from the socket, in the order the network        *)
(* delivers them, and appends the samples of those that are not late to    *)
(* audio_buffer (playout); the device's callback takes them out, under the *)
(* same mutex.  What the task does with one packet touches the shared      *)
(* buffer once, at the end, so it is one step.                             *)
(*                                                                         *)
(* A packet is what a datagram holds: a number and slots of one f32 each,  *)
(* or something too short for a number ("tiny"), or a number and bytes     *)
(* that are no whole slots ("ragged").                                     *)
(***************************************************************************)
EXTENDS Integers, Sequences

CONSTANTS
  Incoming,         \* the packets that may arrive
  PlayoutCapacity,  \* of audio_buffer, in slots
  InboxCapacity,    \* of the socket's receive queue, in packets
  OutputSizes,      \* how many slots the device may ask for at once
  Silence,          \* EQUILIBRIUM, what the device plays for want of samples
  NoPacket          \* the packet buffer before the first packet

ASSUME ReceiverAssumption ==
  /\ PlayoutCapacity \in Nat \ {0}
  /\ InboxCapacity \in Nat \ {0}
  /\ OutputSizes \subseteq Nat \ {0}
  /\ NoPacket \notin Incoming
  /\ \A p \in Incoming :
       /\ p.kind \in {"audio", "tiny", "ragged"}
       /\ p.seq \in Nat
       /\ p.slots \in Seq(Nat) /\ Len(p.slots) <= PlayoutCapacity

VARIABLES
  inbox,        \* the socket's receive queue
  held,         \* packet_buffer and packet_length: the last packet received
  last,         \* sequence_number
  playout,      \* audio_buffer
  output,       \* what the last callback of the device was given
  playing,      \* FALSE once inner_receive_audio has returned
  stopping      \* the cancellation token is set

recvVars == <<inbox, held, last, playout, output, playing, stopping>>

TypeOK ==
  /\ inbox \in Seq(Incoming) /\ Len(inbox) <= InboxCapacity
  /\ held \in Incoming \cup {NoPacket}
  /\ last \in Nat
  /\ playout \in Seq(Nat) /\ Len(playout) <= PlayoutCapacity
  /\ output \in Seq(Nat \cup {Silence})
  /\ playing \in BOOLEAN
  /\ stopping \in BOOLEAN

Init ==
  /\ inbox = <<>>
  /\ held = NoPacket
  /\ last = 0
  /\ playout = <<>>
  /\ output = <<>>
  /\ playing = TRUE
  /\ stopping = FALSE

-----------------------------------------------------------------------------
\* The network delivers a packet; the socket drops it when its queue is full.
Arrive(p) ==
  /\ playing
  /\ Len(inbox) < InboxCapacity
  /\ inbox' = Append(inbox, p)
  /\ UNCHANGED <<held, last, playout, output, playing, stopping>>

\* Mutant of Late: lets the last number pass once more.
LateStrictly(p) == p.seq < last

\* A packet is late when its number is not beyond the last one taken.
Late(p) == p.seq <= last

\* Mutant of MakeRoom: lets the buffer grow.
MakeNoRoom(queue, n) == IF Len(queue) + n > PlayoutCapacity THEN queue ELSE queue

\* Mutant of MakeRoom: pops once more than it has to.
MakeRoomAndOneMore(queue, n) ==
  IF Len(queue) + n > PlayoutCapacity
  THEN SubSeq(queue, Len(queue) + n - PlayoutCapacity + 2, Len(queue))
  ELSE queue

\* What is left of a queue when its oldest slots have made way for n more.
MakeRoom(queue, n) ==
  IF Len(queue) + n > PlayoutCapacity
  THEN SubSeq(queue, Len(queue) + n - PlayoutCapacity + 1, Len(queue))
  ELSE queue

\* The body of the loop after the select!: the packet in packet_buffer is looked at,
\* whether this round has received it or an earlier one.
Process(p) ==
  IF p = NoPacket \/ p.kind = "tiny" \/ Late(p)
  THEN UNCHANGED <<last, playout>>
  ELSE /\ last' = p.seq
       /\ playout' = IF p.kind = "ragged" THEN playout
                     ELSE MakeRoom(playout, Len(p.slots)) \o p.slots

\* recv_from returns a packet.
Receive ==
  /\ playing
  /\ inbox # <<>>
  /\ held' = Head(inbox)
  /\ inbox' = Tail(inbox)
  /\ Process(held')
  /\ UNCHANGED <<output, playing, stopping>>

\* recv_from returns an error: packet_buffer and packet_length are the last ones.
ReceiveFails ==
  /\ playing
  /\ Process(held)
  /\ UNCHANGED <<inbox, held, output, playing, stopping>>

\* The token is set by whoever owns the stream.
Cancel ==
  /\ ~stopping
  /\ stopping' = TRUE
  /\ UNCHANGED <<inbox, held, last, playout, output, playing>>

\* Mutant of CancelSeen: looks at the socket first.
CancelSeenWhenIdle ==
  /\ playing
  /\ stopping
  /\ inbox = <<>>
  /\ playing' = FALSE
  /\ UNCHANGED <<inbox, held, last, playout, output, stopping>>

\* cancel_token.cancelled() wins the select!.
CancelSeen ==
  /\ playing
  /\ stopping
  /\ playing' = FALSE
  /\ UNCHANGED <<inbox, held, last, playout, output, stopping>>

\* The device's callback fills n slots, with silence when the buffer runs out.
OutputCallback(n) ==
  /\ playing
  /\ output' = [i \in 1 .. n |-> IF i <= Len(playout) THEN playout[i] ELSE Silence]
  /\ playout' = SubSeq(playout, n + 1, Len(playout))
  /\ UNCHANGED <<inbox, held, last, playing, stopping>>

-----------------------------------------------------------------------------
Next ==
  \/ \E p \in Incoming : Arrive(p)
  \/ Receive \/ ReceiveFails \/ Cancel \/ CancelSeen
  \/ \E n \in OutputSizes : OutputCallback(n)

Spec == Init /\ [][Next]_recvVars

(***************************************************************************)
(* select! polls in random order, so a queue that is never empty does not  *)
(* hide the token, nor errors the queue.                                   *)
(***************************************************************************)
Fairness ==
  /\ SF_recvVars(Receive)
  /\ SF_recvVars(CancelSeen)

FairSpec == Spec /\ Fairness

-----------------------------------------------------------------------------
(***************************************************************************)
(* Safety, whatever the network delivers.                                  *)
(***************************************************************************)

\* A receive error, which leaves the last packet in the packet buffer, never has that
\* packet's samples played again.
ErrorsReplayNothing == [][ReceiveFails => UNCHANGED <<last, playout>>]_recvVars

\* Packets of whole stereo frames keep the frames whole: neither an overflow nor a
\* device that asks for more than there is ever parts the two channels.  It says
\* nothing of a full stereo packet of send_audio, whose 365 slots end in half a frame.
FramesWhole ==
  (\A p \in Incoming : Len(p.slots) % 2 = 0) /\ (\A n \in OutputSizes : n % 2 = 0)
    /\ PlayoutCapacity % 2 = 0
    => Len(playout) % 2 = 0

-----------------------------------------------------------------------------
(***************************************************************************)
(* Liveness, under FairSpec.                                               *)
(***************************************************************************)

\* A stream that is cancelled stops, whatever arrives meanwhile.
CancelStops == stopping ~> ~playing
=============================================================================

---------------------------- MODULE AudioSender ----------------------------
(***************************************************************************)
(* UdpServer::send_audio, src/src/udp_server.rs: from the input device to  *)
(* the UDP socket.                                                         *)
(*                                                                         *)
(* Two threads share audio_buffer, under a mutex, and a Notify.  The       *)
(* device's callback appends what it captured and leaves a permit; the     *)
(* task takes the permit and empties the buffer into packets.  It keeps    *)
(* the mutex while it waits for the socket, so that the callback waits     *)
(* too.                                                                    *)
(*                                                                         *)
(* A sample is its number: the device captures 1, 2, 3, ...  In a stereo   *)
(* stream the odd ones are the left channel's.  A packet has Room slots of *)
(* one f32 each.                                                           *)
(***************************************************************************)
EXTENDS Integers, Sequences

CONSTANTS
  Channels,       \* of the input device: 1 or 2
  Room,           \* slots in a packet: (MTU - 8) / 4
  Capacity,       \* of audio_buffer, in samples
  CallbackSizes,  \* how many samples the device may deliver at once
  MaxCaptured     \* bound: the device delivers no more samples than this

ASSUME SenderAssumption ==
  /\ Channels \in {1, 2}
  /\ Room \in Nat /\ Room >= 2
  /\ Capacity \in Nat \ {0}
  /\ CallbackSizes \subseteq Nat \ {0}
  /\ MaxCaptured \in Nat

VARIABLES
  captured,   \* how many samples the device has delivered
  buffer,     \* audio_buffer
  spinning,   \* the callback is in its truncation loop for good, mutex in hand
  permit,     \* the permit of notify
  task,       \* where the task stands
  sequence,   \* sequence_number
  packet,     \* the packet the task is sending, when task = "sending"
  wire,       \* the packets that went out
  cancelled   \* the cancellation token is set

sendVars == <<captured, buffer, spinning, permit, task, sequence, packet, wire,
              cancelled>>

Samples == 1 .. MaxCaptured

Packets == [seq : Nat, slots : Seq(Samples)]

TypeOK ==
  /\ captured \in 0 .. MaxCaptured
  /\ buffer \in Seq(Samples) /\ Len(buffer) <= Capacity
  /\ spinning \in BOOLEAN
  /\ permit \in BOOLEAN
  /\ task \in {"select", "locking", "sending", "stopped"}
  /\ sequence \in Nat
  /\ packet \in Packets
  /\ wire \subseteq Packets
  /\ cancelled \in BOOLEAN

Init ==
  /\ captured = 0
  /\ buffer = <<>>
  /\ spinning = FALSE
  /\ permit = FALSE
  /\ task = "select"
  /\ sequence = 0
  /\ packet = [seq |-> 0, slots |-> <<>>]
  /\ wire = {}
  /\ cancelled = FALSE

-----------------------------------------------------------------------------
(***************************************************************************)
(* The callback of the input device.                                       *)
(***************************************************************************)

\* The device runs as long as inner_send_audio, and the callback gets the mutex
\* when the task is not in its sending loop.
CallbackRuns == task \in {"select", "locking"} /\ ~spinning

\* Mutant of DropOldest: does not count the samples that are coming.
DropOldestLate(buf, n, cap) ==
  IF Len(buf) > cap THEN SubSeq(buf, Len(buf) - cap + 1, Len(buf)) ELSE buf

\* Mutant of DropOldest: drops at the wrong end.
DropYoungest(buf, n, cap) ==
  IF Len(buf) + n > cap THEN SubSeq(buf, 1, cap - n) ELSE buf

\* What is left of a buffer when its oldest samples have made way for n more.
DropOldest(buf, n, cap) ==
  IF Len(buf) + n > cap THEN SubSeq(buf, Len(buf) + n - cap + 1, Len(buf)) ELSE buf

\* Mutant of InputCallback: does not notify.
InputCallbackSilent(n) ==
  /\ CallbackRuns
  /\ n <= Capacity
  /\ captured + n <= MaxCaptured
  /\ captured' = captured + n
  /\ buffer' = DropOldest(buffer, n, Capacity) \o [i \in 1 .. n |-> captured + i]
  /\ UNCHANGED <<permit, spinning, task, sequence, packet, wire, cancelled>>

\* The device delivers n samples.
InputCallback(n) ==
  /\ CallbackRuns
  /\ n <= Capacity
  /\ captured + n <= MaxCaptured
  /\ captured' = captured + n
  /\ buffer' = DropOldest(buffer, n, Capacity) \o [i \in 1 .. n |-> captured + i]
  /\ permit' = TRUE
  /\ UNCHANGED <<spinning, task, sequence, packet, wire, cancelled>>

\* It delivers more than the buffer can ever hold: the loop that makes room pops an
\* empty buffer and goes on.
InputCallbackSpins(n) ==
  /\ CallbackRuns
  /\ n > Capacity
  /\ spinning' = TRUE
  /\ buffer' = <<>>
  /\ UNCHANGED <<captured, permit, task, sequence, packet, wire, cancelled>>

-----------------------------------------------------------------------------
(***************************************************************************)
(* The task.                                                               *)
(***************************************************************************)

\* The slots a sample takes: one of a mono stream goes to both channels.
Width == IF Channels = 1 THEN 2 ELSE 1

\* Mutant of Takes: the guard of the loop forgets the sample it is about to add.
TakesOneMore(n) ==
  CHOOSE k \in 0 .. n :
    /\ k = n \/ Width * k > Room
    /\ k = 0 \/ Width * (k - 1) <= Room

\* How many of n samples go into a packet: the loop stops at the first k where the
\* buffer is empty or not even two slots are left.
Takes(n) ==
  CHOOSE k \in 0 .. n :
    /\ k = n \/ Width * k + 2 > Room
    /\ k = 0 \/ Width * (k - 1) + 2 <= Room

\* The slots that the first k samples of a buffer fill.
Slots(buf, k) == [i \in 1 .. Width * k |-> buf[(i + Width - 1) \div Width]]

\* Mutant of NextPacket: one packet per notification.
NextPacketOnce ==
  IF buffer = <<>> \/ task = "sending"
  THEN /\ task' = "select"
       /\ UNCHANGED <<buffer, sequence, packet>>
  ELSE LET k == Takes(Len(buffer)) IN
       /\ task' = "sending"
       /\ packet' = [seq |-> sequence, slots |-> Slots(buffer, k)]
       /\ buffer' = SubSeq(buffer, k + 1, Len(buffer))
       /\ sequence' = sequence + 1

\* Mutant of NextPacket: numbers the rounds of the loop, not the packets.
NextPacketSameNumber ==
  IF buffer = <<>>
  THEN /\ task' = "select"
       /\ UNCHANGED <<buffer, sequence, packet>>
  ELSE LET k == Takes(Len(buffer)) IN
       /\ task' = "sending"
       /\ packet' = [seq |-> sequence, slots |-> Slots(buffer, k)]
       /\ buffer' = SubSeq(buffer, k + 1, Len(buffer))
       /\ sequence' = IF task = "locking" THEN sequence + 1 ELSE sequence

\* The body of the sending loop, once the mutex is taken: the next packet is made
\* and handed to the socket; with nothing left the mutex is released.
NextPacket ==
  IF buffer = <<>>
  THEN /\ task' = "select"
       /\ UNCHANGED <<buffer, sequence, packet>>
  ELSE LET k == Takes(Len(buffer)) IN
       /\ task' = "sending"
       /\ packet' = [seq |-> sequence, slots |-> Slots(buffer, k)]
       /\ buffer' = SubSeq(buffer, k + 1, Len(buffer))
       /\ sequence' = sequence + 1

\* notify.notified() wins the select!.
Notified ==
  /\ task = "select"
  /\ permit
  /\ permit' = FALSE
  /\ task' = "locking"
  /\ UNCHANGED <<captured, buffer, spinning, sequence, packet, wire, cancelled>>

\* The task gets the mutex.
Lock ==
  /\ task = "locking"
  /\ ~spinning
  /\ NextPacket
  /\ UNCHANGED <<captured, spinning, permit, wire, cancelled>>

\* send_to returns.  When it fails the packet is lost, and counted.
SendReturns ==
  /\ task = "sending"
  /\ wire' \in {wire, wire \cup {packet}}
  /\ NextPacket
  /\ UNCHANGED <<captured, spinning, permit, cancelled>>

\* The token is set by whoever owns the stream.
Cancel ==
  /\ ~cancelled
  /\ cancelled' = TRUE
  /\ UNCHANGED <<captured, buffer, spinning, permit, task, sequence, packet, wire>>

\* Mutant of CancelSeen: a biased select! that asks notify first.
CancelSeenUnnotified ==
  /\ task = "select"
  /\ cancelled
  /\ ~permit
  /\ ~spinning
  /\ task' = "stopped"
  /\ UNCHANGED <<captured, buffer, spinning, permit, sequence, packet, wire,
                 cancelled>>

\* cancel_token.cancelled() wins the select!.  Returning drops the device's stream,
\* which waits for a callback that is running.
CancelSeen ==
  /\ task = "select"
  /\ cancelled
  /\ ~spinning
  /\ task' = "stopped"
  /\ UNCHANGED <<captured, buffer, spinning, permit, sequence, packet, wire,
                 cancelled>>

-----------------------------------------------------------------------------
Next ==
  \/ \E n \in CallbackSizes : InputCallback(n) \/ InputCallbackSpins(n)
  \/ Notified \/ Lock \/ SendReturns \/ Cancel \/ CancelSeen

Spec == Init /\ [][Next]_sendVars

(***************************************************************************)
(* The socket takes or refuses a packet in finite time.  The device leaves *)
(* the mutex free between its callbacks, and select! polls in random       *)
(* order.  Nothing obliges the device to deliver or the owner to cancel.   *)
(***************************************************************************)
Fairness ==
  /\ WF_sendVars(SendReturns)
  /\ WF_sendVars(Notified)
  /\ SF_sendVars(Lock)
  /\ SF_sendVars(CancelSeen)

FairSpec == Spec /\ Fairness

-----------------------------------------------------------------------------
(***************************************************************************)
(* Safety.                                                                 *)
(***************************************************************************)

\* Samples never wait in the buffer for a task that sleeps: when the task goes back
\* to its select! with the mutex free, whatever arrived meanwhile has left a permit.
NobodyWaitsUnnotified ==
  task = "select" /\ buffer # <<>> => permit

\* The buffer holds the latest samples, in order and without a gap, however often it
\* was truncated: what overflow costs is the oldest of them.
BufferIsLatest ==
  \A i \in DOMAIN buffer : buffer[i] = captured - Len(buffer) + i

\* Every sample on the wire is younger than all samples of packets with smaller
\* numbers and older than all that are still to be sent: a receiver can put packets
\* in order by their number alone.
NumbersFollowSamples ==
  \A p \in wire :
    /\ p.seq < sequence
    /\ \A i \in DOMAIN p.slots :
         /\ \A q \in wire : p.seq < q.seq =>
              \A j \in DOMAIN q.slots : p.slots[i] < q.slots[j]
         /\ \A j \in DOMAIN buffer : p.slots[i] < buffer[j]

\* A packet fits the MTU and is never empty.
PacketsFit == \A p \in wire : Len(p.slots) \in 1 .. Room

-----------------------------------------------------------------------------
(***************************************************************************)
(* Liveness, under FairSpec, up to the case that the device delivers more  *)
(* at once than the buffer can hold: after that nothing moves any more.    *)
(***************************************************************************)

\* A captured sample does not stay in the buffer: it is sent or dropped for a younger
\* one, unless the stream is stopped.
SamplesMoveOn ==
  \A s \in Samples :
    (\E i \in DOMAIN buffer : buffer[i] = s)
      ~> (task = "stopped" \/ spinning \/ \A i \in DOMAIN buffer : buffer[i] # s)

\* A stream that is cancelled stops, even if the device delivers all the time.
CancelStops == cancelled ~> (task = "stopped" \/ spinning)
=============================================================================

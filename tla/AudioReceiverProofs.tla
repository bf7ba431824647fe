------------------------ MODULE AudioReceiverProofs ------------------------
(***************************************************************************)
(* What holds of AudioReceiver for any packets the network may deliver, in *)
(* any order and any number, and any sizes of the buffers.                 *)
(***************************************************************************)
EXTENDS AudioReceiver, SequenceTheorems, TLAPS

-----------------------------------------------------------------------------
(***************************************************************************)
(* Queues that lose their oldest elements.                                 *)
(***************************************************************************)

\* A queue without its first k elements.
LEMMA Dropped ==
  ASSUME NEW E, NEW q \in Seq(E), NEW k \in Nat
  PROVE  LET rest == SubSeq(q, k + 1, Len(q)) IN
         /\ rest \in Seq(E)
         /\ Len(rest) = IF k <= Len(q) THEN Len(q) - k ELSE 0
         /\ \A i \in DOMAIN rest : i + k \in DOMAIN q /\ rest[i] = q[i + k]
  OBVIOUS

\* Room for n slots is made at the old end of the buffer, and no more than it takes.
LEMMA RoomMade ==
  ASSUME NEW E, NEW q \in Seq(E), Len(q) <= PlayoutCapacity,
         NEW n \in Nat, n <= PlayoutCapacity
  PROVE  /\ MakeRoom(q, n) \in Seq(E)
         /\ Len(MakeRoom(q, n)) + n <= PlayoutCapacity
         /\ \E k \in Nat : /\ k <= Len(q)
                           /\ Len(MakeRoom(q, n)) = Len(q) - k
                           /\ \A i \in DOMAIN MakeRoom(q, n) : MakeRoom(q, n)[i] = q[i + k]
                           /\ k = 0 \/ k = Len(q) + n - PlayoutCapacity
<1>1. PlayoutCapacity \in Nat /\ Len(q) \in Nat
  BY ReceiverAssumption
<1>2. CASE Len(q) + n <= PlayoutCapacity
  <2>1. MakeRoom(q, n) = q
    BY <1>1, <1>2 DEF MakeRoom
  <2> QED
    BY <1>1, <1>2, <2>1
<1>3. CASE Len(q) + n > PlayoutCapacity
  <2> DEFINE k == Len(q) + n - PlayoutCapacity
  <2>1. k \in Nat /\ k <= Len(q)
    BY <1>1, <1>3
  <2>2. MakeRoom(q, n) = SubSeq(q, k + 1, Len(q))
    BY <1>1, <1>3 DEF MakeRoom
  <2> HIDE DEF k
  <2>3. /\ MakeRoom(q, n) \in Seq(E)
        /\ Len(MakeRoom(q, n)) = Len(q) - k
        /\ \A i \in DOMAIN MakeRoom(q, n) : MakeRoom(q, n)[i] = q[i + k]
    BY <2>1, <2>2, Dropped
  <2>4. Len(MakeRoom(q, n)) + n <= PlayoutCapacity
    BY <1>1, <2>1, <2>3 DEF k
  <2> QED
    BY <2>1, <2>3, <2>4 DEF k
<1> QED
  BY <1>1, <1>2, <1>3

-----------------------------------------------------------------------------
(***************************************************************************)
(* The inductive invariant: types, the bounds of the buffers among them,   *)
(* and that the packet in packet_buffer has been dealt with.               *)
(***************************************************************************)

\* Looking at the packet in packet_buffer once more changes nothing: it is too short
\* for a number, or its number is not beyond the last one.
HeldIsDone == held = NoPacket \/ held.kind = "tiny" \/ Late(held)

Inv == TypeOK /\ HeldIsDone

\* The receiver starts with nothing received.
LEMMA InitInv == Init => Inv
<1> SUFFICES ASSUME Init PROVE Inv
  OBVIOUS
<1>1. Len(playout) = 0 /\ Len(inbox) = 0
  BY DEF Init
<1>2. TypeOK
  <2>1. inbox = <<>> /\ playout = <<>> /\ output = <<>>
    BY DEF Init
  <2>2. inbox \in Seq(Incoming) /\ playout \in Seq(Nat) /\ output \in Seq(Nat \cup {Silence})
    BY <2>1, EmptySeq
  <2>3. Len(inbox) <= InboxCapacity /\ Len(playout) <= PlayoutCapacity
    BY <1>1, ReceiverAssumption
  <2>4. held \in Incoming \cup {NoPacket} /\ last \in Nat
        /\ playing \in BOOLEAN /\ stopping \in BOOLEAN
    BY DEF Init
  <2> QED
    BY <2>2, <2>3, <2>4 DEF TypeOK
<1>3. HeldIsDone
  BY DEF Init, HeldIsDone
<1> QED
  BY <1>2, <1>3 DEF Inv

\* Whatever packet is looked at, the buffer keeps its type and its bound, and a second
\* look would change nothing.
LEMMA ProcessInv ==
  ASSUME Inv, NEW p \in Incoming \cup {NoPacket}, Process(p)
  PROVE  /\ last' \in Nat
         /\ playout' \in Seq(Nat) /\ Len(playout') <= PlayoutCapacity
         /\ p = NoPacket \/ p.kind = "tiny" \/ Late(p)'
<1>1. CASE p = NoPacket \/ p.kind = "tiny" \/ Late(p)
  <2>1. UNCHANGED <<last, playout>>
    BY <1>1 DEF Process
  <2> QED
    BY <1>1, <2>1 DEF Inv, TypeOK, Late
<1>2. CASE ~(p = NoPacket \/ p.kind = "tiny" \/ Late(p))
  <2> DEFINE n == Len(p.slots)
             made == MakeRoom(playout, n)
  <2>1. /\ p \in Incoming /\ p.seq \in Nat
        /\ p.slots \in Seq(Nat) /\ n \in Nat /\ n <= PlayoutCapacity
    BY <1>2, ReceiverAssumption
  <2>2. /\ last' = p.seq
        /\ playout' = IF p.kind = "ragged" THEN playout ELSE made \o p.slots
    BY <1>2 DEF Process
  <2>3. playout \in Seq(Nat) /\ Len(playout) \in Nat /\ Len(playout) <= PlayoutCapacity
    BY DEF Inv, TypeOK
  <2>4. made \in Seq(Nat) /\ Len(made) + n <= PlayoutCapacity
    <3> HIDE DEF n, made
    <3> QED
      BY <2>1, <2>3, RoomMade DEF made
  <2>5. Late(p)'
    BY <2>1, <2>2 DEF Late
  <2>6. CASE p.kind = "ragged"
    BY <2>1, <2>2, <2>3, <2>5, <2>6
  <2>7. CASE p.kind # "ragged"
    <3>1. playout' \in Seq(Nat) /\ Len(playout') = Len(made) + n
      <4>1. playout' = made \o p.slots
        BY <2>2, <2>7
      <4> HIDE DEF made
      <4> QED
        BY <2>1, <2>4, <4>1, ConcatProperties DEF n
    <3>2. Len(playout') <= PlayoutCapacity
      BY <2>4, <3>1
    <3> QED
      BY <2>1, <2>2, <2>5, <3>1, <3>2
  <2> QED
    BY <2>6, <2>7
<1> QED
  BY <1>1, <1>2

\* A packet that arrives.
LEMMA ArriveInv ==
  ASSUME Inv, NEW p \in Incoming, Arrive(p)
  PROVE  Inv'
<1>1. inbox' \in Seq(Incoming) /\ Len(inbox') <= InboxCapacity
  BY ReceiverAssumption DEF Inv, TypeOK, Arrive
<1> QED
  BY <1>1 DEF Arrive, Inv, TypeOK, HeldIsDone, Late

\* The packet received is the one looked at.
LEMMA ReceiveInv ==
  ASSUME Inv, Receive
  PROVE  Inv'
<1>1. /\ inbox \in Seq(Incoming) /\ inbox # <<>>
      /\ held' = Head(inbox) /\ inbox' = Tail(inbox)
  BY DEF Inv, TypeOK, Receive
<1>2. /\ held' \in Incoming
      /\ inbox' \in Seq(Incoming) /\ Len(inbox') <= InboxCapacity
  <2>1. Len(Tail(inbox)) = Len(inbox) - 1 /\ Len(inbox) \in Nat
    BY <1>1
  <2>2. Len(inbox) <= InboxCapacity
    BY DEF Inv, TypeOK
  <2>3. Head(inbox) \in Incoming /\ Tail(inbox) \in Seq(Incoming)
    BY <1>1
  <2> QED
    BY <1>1, <2>1, <2>2, <2>3, ReceiverAssumption
<1>3. PICK p \in Incoming : p = held'
  BY <1>2
<1>4. Process(p)
  BY <1>3 DEF Receive
<1>5. /\ last' \in Nat
      /\ playout' \in Seq(Nat) /\ Len(playout') <= PlayoutCapacity
      /\ p = NoPacket \/ p.kind = "tiny" \/ Late(p)'
  BY <1>4, ProcessInv
<1>6. HeldIsDone'
  BY <1>3, <1>5 DEF HeldIsDone, Late
<1> QED
  BY <1>2, <1>5, <1>6 DEF Receive, Inv, TypeOK

\* After an error the packet in packet_buffer is looked at again: to no effect.
LEMMA ReceiveFailsChangesNothing ==
  ASSUME Inv, ReceiveFails
  PROVE  UNCHANGED recvVars
  BY DEF Inv, HeldIsDone, ReceiveFails, Process, recvVars

\* The device takes slots out of the buffer.
LEMMA OutputCallbackInv ==
  ASSUME Inv, NEW n \in OutputSizes, OutputCallback(n)
  PROVE  Inv'
<1>1. n \in Nat /\ playout \in Seq(Nat) /\ Len(playout) \in Nat
  BY ReceiverAssumption DEF Inv, TypeOK
<1>2. /\ playout' \in Seq(Nat)
      /\ Len(playout') = IF n <= Len(playout) THEN Len(playout) - n ELSE 0
  BY <1>1, Dropped DEF OutputCallback
<1>3. Len(playout') <= PlayoutCapacity
  <2>1. Len(playout) <= PlayoutCapacity /\ PlayoutCapacity \in Nat
    BY ReceiverAssumption DEF Inv, TypeOK
  <2> DEFINE a == Len(playout)
  <2> HIDE DEF a
  <2> QED
    BY <1>1, <1>2, <2>1 DEF a
<1>4. output' \in Seq(Nat \cup {Silence})
  <2> DEFINE slot(i) == IF i <= Len(playout) THEN playout[i] ELSE Silence
  <2>1. \A i \in 1 .. n : slot(i) \in Nat \cup {Silence}
    BY <1>1
  <2>2. output' = [i \in 1 .. n |-> slot(i)]
    BY DEF OutputCallback
  <2> HIDE DEF slot
  <2> QED
    BY <1>1, <2>1, <2>2
<1> QED
  BY <1>2, <1>3, <1>4 DEF OutputCallback, Inv, TypeOK, HeldIsDone, Late

\* Every step preserves Inv.
LEMMA NextInv == Inv /\ [Next]_recvVars => Inv'
<1> SUFFICES ASSUME Inv, [Next]_recvVars PROVE Inv'
  OBVIOUS
<1>1. ASSUME UNCHANGED recvVars PROVE Inv'
  BY <1>1 DEF recvVars, Inv, TypeOK, HeldIsDone, Late
<1>2. CASE Cancel \/ CancelSeen
  BY <1>2 DEF Cancel, CancelSeen, Inv, TypeOK, HeldIsDone, Late
<1>3. CASE ReceiveFails
  BY <1>1, <1>3, ReceiveFailsChangesNothing
<1>4. CASE \E p \in Incoming : Arrive(p)
  BY <1>4, ArriveInv
<1>5. CASE \E n \in OutputSizes : OutputCallback(n)
  BY <1>5, OutputCallbackInv
<1>6. CASE Receive
  BY <1>6, ReceiveInv
<1> QED
  BY <1>1, <1>2, <1>3, <1>4, <1>5, <1>6 DEF Next

\* Inv holds throughout.
THEOREM Invariance == Spec => []Inv
<1>1. Init => Inv
  BY InitInv
<1>2. Inv /\ [Next]_recvVars => Inv'
  BY NextInv
<1> QED
  BY <1>1, <1>2, PTL DEF Spec

-----------------------------------------------------------------------------
(***************************************************************************)
(* What Inv gives.                                                         *)
(***************************************************************************)

\* Every variable keeps its type; in particular neither the socket's queue nor
\* audio_buffer ever grows beyond its capacity, whatever the network delivers.
THEOREM TypeCorrect == Spec => []TypeOK
<1>1. Inv => TypeOK
  BY DEF Inv
<1> QED
  BY <1>1, Invariance, PTL

\* No error of recv_from has samples played again, however many there are and
\* whatever packet was received last.
THEOREM NoReplay == Spec => ErrorsReplayNothing
<1>1. Inv /\ [Next]_recvVars => [ReceiveFails => UNCHANGED <<last, playout>>]_recvVars
  BY ReceiveFailsChangesNothing DEF recvVars
<1> QED
  BY <1>1, Invariance, PTL DEF Spec, ErrorsReplayNothing
=============================================================================

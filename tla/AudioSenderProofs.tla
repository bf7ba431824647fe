------------------------- MODULE AudioSenderProofs -------------------------
(***************************************************************************)
(* What holds of AudioSender for any sizes of the buffer, of the packets   *)
(* and of what the device delivers, and for any number of samples.         *)
(***************************************************************************)
EXTENDS AudioSender, SequenceTheorems, TLAPS

-----------------------------------------------------------------------------
(***************************************************************************)
(* How many samples a packet takes and which slots they fill.              *)
(***************************************************************************)

\* A sample takes one slot or two.
LEMMA Widths == Width \in {1, 2} /\ (Width = 2 <=> Channels = 1)
  BY SenderAssumption DEF Width

\* From n samples, n > 0, a packet takes at least one, and no more than fit its slots:
\* the loop that fills it stops somewhere, and not before its first sample.
LEMMA TakesSome ==
  ASSUME NEW n \in Nat, n > 0
  PROVE  Takes(n) \in 1 .. n /\ Width * Takes(n) \in 1 .. Room
<1> DEFINE full == IF Width = 2 THEN Room \div 2 ELSE Room - 1
           k == IF n <= full THEN n ELSE full
<1>1. Room \in Nat /\ Room >= 2
  BY SenderAssumption
<1>2. full \in Nat /\ Width * full + 2 > Room /\ Width * (full - 1) + 2 <= Room
  BY <1>1, Widths
<1>3. k \in 0 .. n
  BY <1>2
<1> HIDE DEF full
<1>4. Width * (k - 1) + 2 <= Room
  BY <1>1, <1>2, Widths
<1>5. k = n \/ Width * k + 2 > Room
  BY <1>2
<1> HIDE DEF k
<1>6. /\ Takes(n) \in 0 .. n
      /\ Takes(n) = n \/ Width * Takes(n) + 2 > Room
      /\ Takes(n) = 0 \/ Width * (Takes(n) - 1) + 2 <= Room
  BY <1>3, <1>4, <1>5 DEF Takes
<1> DEFINE t == Takes(n)
<1> HIDE DEF t
<1>7. t \in 0 .. n /\ (t = n \/ Width * t + 2 > Room) /\ (t = 0 \/ Width * (t - 1) + 2 <= Room)
  BY <1>6 DEF t
<1>8. t \in 1 .. n /\ Width * t \in 1 .. Room
  BY <1>1, <1>7, Widths
<1> QED
  BY <1>8 DEF t

\* The sample in slot i of a packet.
SampleAt(i) == (i + Width - 1) \div Width

\* The first and the second slot of a mono stream's frame.
OneFrame(i, j) == Channels = 1 /\ i % 2 = 1 /\ j = i + 1

\* The slots of k samples hold those samples, in their order; a mono one fills the two
\* slots of a frame.
LEMMA SlotsHold ==
  ASSUME NEW k \in Nat, NEW buf \in Seq(Samples), k <= Len(buf)
  PROVE  /\ Slots(buf, k) \in Seq(Samples)
         /\ Len(Slots(buf, k)) = Width * k
         /\ \A i \in 1 .. Width * k : SampleAt(i) \in 1 .. k /\ Slots(buf, k)[i] = buf[SampleAt(i)]
         /\ \A i, j \in 1 .. Width * k :
              i < j /\ ~OneFrame(i, j) => SampleAt(i) < SampleAt(j)
         /\ Channels = 1 => \A i \in 1 .. Width * k : i % 2 = 1 =>
              i + 1 \in 1 .. Width * k /\ SampleAt(i + 1) = SampleAt(i)
<1>1. \A i \in 1 .. Width * k : SampleAt(i) \in 1 .. k
  BY Widths DEF SampleAt
<1>2. \A i, j \in 1 .. Width * k :
        i < j /\ ~OneFrame(i, j) => SampleAt(i) < SampleAt(j)
  BY Widths DEF SampleAt, OneFrame
<1>3. Channels = 1 => \A i \in 1 .. Width * k : i % 2 = 1 =>
        i + 1 \in 1 .. Width * k /\ SampleAt(i + 1) = SampleAt(i)
  BY Widths DEF SampleAt
<1>4. Slots(buf, k) = [i \in 1 .. Width * k |-> buf[SampleAt(i)]]
  BY DEF Slots, SampleAt
<1>5. Width * k \in Nat
  BY Widths
<1> HIDE DEF SampleAt
<1>6. \A i \in 1 .. Width * k : buf[SampleAt(i)] \in Samples
  BY <1>1
<1>7. Slots(buf, k) \in Seq(Samples) /\ Len(Slots(buf, k)) = Width * k
  BY <1>4, <1>5, <1>6
<1> QED
  BY <1>1, <1>2, <1>3, <1>4, <1>7

\* A buffer without its first k samples.
LEMMA Dropped ==
  ASSUME NEW E, NEW q \in Seq(E), NEW k \in Nat, k <= Len(q)
  PROVE  LET rest == SubSeq(q, k + 1, Len(q)) IN
         /\ rest \in Seq(E)
         /\ Len(rest) = Len(q) - k
         /\ \A i \in DOMAIN rest : i + k \in DOMAIN q /\ rest[i] = q[i + k]
  OBVIOUS

\* Two sequences, one after the other.
LEMMA Joined ==
  ASSUME NEW E, NEW q \in Seq(E), NEW r \in Seq(E)
  PROVE  /\ q \o r \in Seq(E)
         /\ Len(q \o r) = Len(q) + Len(r)
         /\ \A i \in DOMAIN (q \o r) :
              \/ i \in DOMAIN q /\ (q \o r)[i] = q[i]
              \/ i - Len(q) \in DOMAIN r /\ (q \o r)[i] = r[i - Len(q)]
  OBVIOUS

\* Room for n samples is made at the old end of the buffer.
LEMMA OldestDropped ==
  ASSUME NEW q \in Seq(Samples), Len(q) <= Capacity, NEW n \in Nat, n <= Capacity
  PROVE  \E k \in 0 .. Len(q) :
           /\ DropOldest(q, n, Capacity) \in Seq(Samples)
           /\ Len(DropOldest(q, n, Capacity)) = Len(q) - k
           /\ Len(q) - k + n <= Capacity
           /\ \A i \in DOMAIN DropOldest(q, n, Capacity) :
                i + k \in DOMAIN q /\ DropOldest(q, n, Capacity)[i] = q[i + k]
<1>1. Capacity \in Nat /\ Len(q) \in Nat
  BY SenderAssumption
<1>2. CASE Len(q) + n <= Capacity
  <2>1. DropOldest(q, n, Capacity) = q
    BY <1>1, <1>2 DEF DropOldest
  <2> QED
    BY <1>1, <1>2, <2>1
<1>3. CASE Len(q) + n > Capacity
  <2> DEFINE k == Len(q) + n - Capacity
             rest == DropOldest(q, n, Capacity)
  <2>1. k \in Nat /\ k <= Len(q) /\ Len(q) - k + n <= Capacity
    BY <1>1, <1>3
  <2>2. rest = SubSeq(q, k + 1, Len(q))
    BY <1>1, <1>3 DEF DropOldest
  <2> HIDE DEF k, rest
  <2>3. /\ rest \in Seq(Samples) /\ Len(rest) = Len(q) - k
        /\ \A i \in DOMAIN rest : i + k \in DOMAIN q /\ rest[i] = q[i + k]
    BY <2>1, <2>2, Dropped
  <2> QED
    BY <1>1, <2>1, <2>3 DEF rest
<1> QED
  BY <1>1, <1>2, <1>3, SMTT(30)

\* A stereo stream that has more than a packet to send fills it but for one slot.  The
\* MTU of the code leaves room for 366 samples, so a full packet has 365, an odd number:
\* it ends with half a frame, and its loss swaps left and right.
THEOREM StereoPacketsEndInHalfAFrame ==
  ASSUME Channels = 2, NEW n \in Nat, n >= Room
  PROVE  /\ Takes(n) = Room - 1
         /\ Room % 2 = 0 => Takes(n) % 2 = 1
<1> DEFINE k == Room - 1
<1>1. Room \in Nat /\ Room >= 2 /\ Width = 1
  BY SenderAssumption DEF Width
<1>2. k \in 0 .. n /\ Width * k + 2 > Room /\ Width * (k - 1) + 2 <= Room
  BY <1>1
<1> HIDE DEF k
<1>3. /\ Takes(n) \in 0 .. n
      /\ Takes(n) = n \/ Width * Takes(n) + 2 > Room
      /\ Takes(n) = 0 \/ Width * (Takes(n) - 1) + 2 <= Room
  BY <1>2 DEF Takes
<1>4. Takes(n) = Room - 1
  BY <1>1, <1>3
<1> QED
  BY <1>1, <1>4

-----------------------------------------------------------------------------
(***************************************************************************)
(* The inductive invariant.  What PacketsFit and NumbersFollowSamples say  *)
(* of the packets on the wire holds of the one in the socket's hands, too; *)
(* and a packet holds what was captured, in order.                         *)
(***************************************************************************)

\* The packets made whose sending has not failed yet.
Live == wire \cup {p \in {packet} : task = "sending"}

\* A packet has at least one slot and no more than fit.
LiveFit == \A p \in Live : Len(p.slots) \in 1 .. Room

\* All samples of p are older than all of q.
Older(p, q) ==
  \A i \in DOMAIN p.slots : \A j \in DOMAIN q.slots : p.slots[i] < q.slots[j]

\* All samples of p are older than all in the buffer.
OlderThanBuffer(p) ==
  \A i \in DOMAIN p.slots : \A j \in DOMAIN buffer : p.slots[i] < buffer[j]

LiveInOrder ==
  \A p \in Live :
    /\ p.seq < sequence
    /\ \A q \in Live : p.seq < q.seq => Older(p, q)
    /\ OlderThanBuffer(p)

\* The samples of a packet were captured, and are in the order they were captured in.
Ascends(slots) ==
  \A i, j \in DOMAIN slots : i < j /\ ~OneFrame(i, j) => slots[i] < slots[j]

WereCaptured(slots) == \A i \in DOMAIN slots : slots[i] <= captured

LiveCaptured == \A p \in Live : Ascends(p.slots) /\ WereCaptured(p.slots)

\* In a mono stream's packet every sample fills a frame.
Paired(slots) ==
  /\ Len(slots) % 2 = 0
  /\ \A i \in DOMAIN slots : i % 2 = 1 =>
       i + 1 \in DOMAIN slots /\ slots[i] = slots[i + 1]

LivePaired == Channels = 1 => \A p \in Live : Paired(p.slots)

Inv ==
  /\ TypeOK
  /\ NobodyWaitsUnnotified
  /\ BufferIsLatest
  /\ LiveFit
  /\ LiveInOrder
  /\ LiveCaptured
  /\ LivePaired

\* The sender starts with nothing captured and nothing sent.
LEMMA InitInv == Init => Inv
<1> SUFFICES ASSUME Init PROVE Inv
  OBVIOUS
<1>1. buffer = <<>> /\ wire = {} /\ Live = {}
  BY DEF Init, Live
<1>2. TypeOK
  <2>1. buffer \in Seq(Samples) /\ Len(buffer) = 0
    BY <1>1, EmptySeq
  <2>2. packet \in Packets
    BY EmptySeq DEF Init, Packets
  <2>3. captured \in 0 .. MaxCaptured /\ Len(buffer) <= Capacity /\ sequence \in Nat
    BY <2>1, SenderAssumption DEF Init
  <2>4. /\ spinning \in BOOLEAN /\ permit \in BOOLEAN /\ cancelled \in BOOLEAN
        /\ task \in {"select", "locking", "sending", "stopped"}
        /\ wire \subseteq Packets
    BY DEF Init
  <2> QED
    BY <2>1, <2>2, <2>3, <2>4 DEF TypeOK
<1>3. NobodyWaitsUnnotified /\ BufferIsLatest
  BY <1>1 DEF NobodyWaitsUnnotified, BufferIsLatest
<1>4. LiveFit /\ LiveInOrder /\ LiveCaptured /\ LivePaired
  BY <1>1 DEF LiveFit, LiveInOrder, LiveCaptured, LivePaired
<1> QED
  BY <1>2, <1>3, <1>4 DEF Inv

\* A step that moves the task and touches neither the samples nor the packets; who is
\* notified does not go back to sleep.
LEMMA TaskMovesInv ==
  ASSUME Inv, UNCHANGED <<captured, buffer, sequence, packet, wire>>,
         spinning' = spinning, cancelled' \in BOOLEAN, permit' \in BOOLEAN,
         task' = task \/ task' \in {"locking", "stopped"},
         task' = "select" => permit' = permit
  PROVE  Inv'
<1>1. Live' \subseteq Live
  BY DEF Live
<1>2. TypeOK'
  BY DEF Inv, TypeOK
<1>3. NobodyWaitsUnnotified' /\ BufferIsLatest'
  BY DEF Inv, NobodyWaitsUnnotified, BufferIsLatest
<1>4. LiveFit' /\ LiveInOrder' /\ LiveCaptured' /\ LivePaired'
  BY <1>1 DEF Inv, LiveFit, LiveInOrder, LiveCaptured, LivePaired, Older, OlderThanBuffer,
              WereCaptured
<1> QED
  BY <1>2, <1>3, <1>4 DEF Inv

\* Slots hold numbers of samples.
LEMMA SlotsAreNumbers ==
  ASSUME NEW p \in Packets, NEW i \in DOMAIN p.slots
  PROVE  p.slots[i] \in Samples /\ p.slots[i] \in Nat
<1>1. p.slots \in Seq(Samples)
  BY DEF Packets
<1> HIDE DEF Samples
<1>2. p.slots[i] \in Samples
  BY <1>1
<1> QED
  BY <1>2, SenderAssumption DEF Samples

\* The device's samples follow all that were captured before; the task is notified.
LEMMA InputCallbackInv ==
  ASSUME Inv, NEW n \in CallbackSizes, InputCallback(n)
  PROVE  Inv'
<1> DEFINE rest == DropOldest(buffer, n, Capacity)
           new == [i \in 1 .. n |-> captured + i]
<1>1. /\ n \in Nat /\ n > 0 /\ n <= Capacity
      /\ captured \in Nat /\ captured + n <= MaxCaptured /\ captured' = captured + n
      /\ MaxCaptured \in Nat
  BY SenderAssumption DEF Inv, TypeOK, InputCallback
<1>2. buffer \in Seq(Samples) /\ Len(buffer) \in Nat /\ Len(buffer) <= Capacity
  BY DEF Inv, TypeOK
<1>3. PICK k \in 0 .. Len(buffer) :
        /\ rest \in Seq(Samples) /\ Len(rest) = Len(buffer) - k
        /\ Len(buffer) - k + n <= Capacity
        /\ \A i \in DOMAIN rest : i + k \in DOMAIN buffer /\ rest[i] = buffer[i + k]
  BY <1>1, <1>2, OldestDropped, SMTT(30)
<1>4. new \in Seq(Samples) /\ Len(new) = n /\ \A i \in DOMAIN new : new[i] = captured + i
  <2>1. \A i \in 1 .. n : captured + i \in Samples
    BY <1>1 DEF Samples
  <2> QED
    BY <1>1, <2>1
<1>5. buffer' = rest \o new
  BY DEF InputCallback
<1> HIDE DEF rest, new
<1>6. /\ buffer' \in Seq(Samples) /\ Len(buffer') = Len(rest) + n
      /\ \A i \in DOMAIN buffer' :
           \/ i \in DOMAIN rest /\ buffer'[i] = rest[i]
           \/ i - Len(rest) \in DOMAIN new /\ buffer'[i] = new[i - Len(rest)]
  BY <1>3, <1>4, <1>5, Joined, ZenonT(40)
<1>7. /\ UNCHANGED <<sequence, packet, wire, task, spinning, cancelled>> /\ permit' = TRUE
      /\ Live' = Live
  BY DEF InputCallback, Live
<1>8. Len(buffer') <= Capacity /\ captured' \in 0 .. MaxCaptured
  BY <1>1, <1>3, <1>6
<1>9. TypeOK'
  BY <1>6, <1>7, <1>8 DEF Inv, TypeOK
<1>10. NobodyWaitsUnnotified'
  BY <1>7 DEF NobodyWaitsUnnotified
<1>11. \A i \in DOMAIN buffer' :
         \/ i \in DOMAIN rest /\ i + k \in DOMAIN buffer /\ buffer'[i] = buffer[i + k]
         \/ i - Len(rest) \in 1 .. n /\ buffer'[i] = captured + (i - Len(rest))
  BY <1>1, <1>3, <1>4, <1>6
<1>12. BufferIsLatest'
  <2> SUFFICES ASSUME NEW i \in DOMAIN buffer'
               PROVE  buffer'[i] = captured' - Len(buffer') + i
    BY DEF BufferIsLatest
  <2>1. \A j \in DOMAIN buffer : buffer[j] = captured - Len(buffer) + j
    BY DEF Inv, BufferIsLatest
  <2>2. i \in Nat /\ Len(rest) = Len(buffer) - k /\ Len(buffer') = Len(rest) + n
    BY <1>3, <1>6
  <2> QED
    BY <1>1, <1>2, <1>11, <2>1, <2>2
<1>13. \A p \in Live : OlderThanBuffer(p)'
  <2> SUFFICES ASSUME NEW p \in Live, NEW i \in DOMAIN p.slots, NEW j \in DOMAIN buffer'
               PROVE  p.slots[i] < buffer'[j]
    BY DEF OlderThanBuffer
  <2>1. p.slots[i] <= captured /\ \A l \in DOMAIN buffer : p.slots[i] < buffer[l]
    BY DEF Inv, LiveInOrder, OlderThanBuffer, LiveCaptured, WereCaptured
  <2>2. p \in Packets
    BY DEF Inv, TypeOK, Live
  <2>3. p.slots[i] \in Nat
    BY <2>2, SlotsAreNumbers
  <2> QED
    BY <1>1, <1>11, <2>1, <2>3
<1>14. LiveInOrder'
  BY <1>7, <1>13 DEF Inv, LiveInOrder, Older
<1>15. LiveCaptured'
  <2> SUFFICES ASSUME NEW p \in Live, NEW i \in DOMAIN p.slots
               PROVE  p.slots[i] <= captured'
    BY <1>7 DEF Inv, LiveCaptured, WereCaptured
  <2>1. p \in Packets /\ p.slots[i] <= captured
    BY DEF Inv, TypeOK, Live, LiveCaptured, WereCaptured
  <2>2. p.slots[i] \in Nat
    BY <2>1, SlotsAreNumbers
  <2> QED
    BY <1>1, <2>1, <2>2
<1>16. LiveFit' /\ LivePaired'
  BY <1>7 DEF Inv, LiveFit, LivePaired
<1> QED
  BY <1>9, <1>10, <1>12, <1>14, <1>15, <1>16 DEF Inv

\* A callback that never ends leaves an empty buffer.
LEMMA InputCallbackSpinsInv ==
  ASSUME Inv, NEW n \in CallbackSizes, InputCallbackSpins(n)
  PROVE  Inv'
<1>1. buffer' = <<>> /\ Live' = Live
      /\ UNCHANGED <<captured, permit, task, sequence, packet, wire, cancelled>>
  BY DEF InputCallbackSpins, Live
<1>2. buffer' \in Seq(Samples) /\ Len(buffer') = 0 /\ DOMAIN buffer' = {}
  BY <1>1, EmptySeq
<1>3. TypeOK'
  BY <1>1, <1>2, SenderAssumption DEF Inv, TypeOK, InputCallbackSpins
<1>4. NobodyWaitsUnnotified' /\ BufferIsLatest'
  BY <1>1, <1>2 DEF NobodyWaitsUnnotified, BufferIsLatest
<1>5. LiveFit' /\ LiveInOrder' /\ LiveCaptured' /\ LivePaired'
  BY <1>1, <1>2 DEF Inv, LiveFit, LiveInOrder, LiveCaptured, LivePaired, Older,
                    OlderThanBuffer, WereCaptured
<1> QED
  BY <1>3, <1>4, <1>5 DEF Inv

\* The next packet holds the oldest samples of the buffer, in their order.
LEMMA PacketMade ==
  ASSUME Inv, NextPacket, buffer # <<>>
  PROVE  \E k \in 1 .. Len(buffer) :
           /\ packet' \in Packets
           /\ packet'.seq = sequence
           /\ Len(packet'.slots) \in 1 .. Room
           /\ \A i \in DOMAIN packet'.slots :
                SampleAt(i) \in 1 .. k /\ packet'.slots[i] = buffer[SampleAt(i)]
           /\ \A i, j \in DOMAIN packet'.slots :
                i < j /\ ~OneFrame(i, j) => SampleAt(i) < SampleAt(j)
           /\ Channels = 1 => Paired(packet'.slots)
           /\ buffer' \in Seq(Samples)
           /\ Len(buffer') = Len(buffer) - k
           /\ \A j \in DOMAIN buffer' : j + k \in DOMAIN buffer /\ buffer'[j] = buffer[j + k]
           /\ sequence' = sequence + 1
           /\ task' = "sending"
<1>1. buffer \in Seq(Samples) /\ Len(buffer) \in Nat /\ Len(buffer) > 0 /\ sequence \in Nat
  BY DEF Inv, TypeOK
<1> DEFINE k == Takes(Len(buffer))
           slots == Slots(buffer, k)
<1>2. k \in 1 .. Len(buffer) /\ Width * k \in 1 .. Room
  <2> DEFINE n == Len(buffer)
  <2> HIDE DEF n
  <2> QED
    BY <1>1, TakesSome DEF n
<1>3. /\ task' = "sending" /\ sequence' = sequence + 1
      /\ packet' = [seq |-> sequence, slots |-> slots]
      /\ buffer' = SubSeq(buffer, k + 1, Len(buffer))
  BY DEF NextPacket
<1> HIDE DEF k
<1>4. /\ slots \in Seq(Samples) /\ Len(slots) = Width * k
      /\ \A i \in 1 .. Width * k : SampleAt(i) \in 1 .. k /\ slots[i] = buffer[SampleAt(i)]
      /\ \A i, j \in 1 .. Width * k :
           i < j /\ ~OneFrame(i, j) => SampleAt(i) < SampleAt(j)
      /\ Channels = 1 => \A i \in 1 .. Width * k : i % 2 = 1 =>
           i + 1 \in 1 .. Width * k /\ SampleAt(i + 1) = SampleAt(i)
  BY <1>1, <1>2, SlotsHold
<1> HIDE DEF slots
<1>5. DOMAIN slots = 1 .. Width * k
  BY <1>4
<1>6. packet' \in Packets /\ packet'.seq = sequence /\ packet'.slots = slots
  BY <1>1, <1>3, <1>4 DEF Packets
<1>7. Channels = 1 => Paired(slots)
  <2> SUFFICES ASSUME Channels = 1
               PROVE  Paired(slots)
    OBVIOUS
  <2>1. (Width * k) % 2 = 0
    BY <1>2, Widths
  <2> HIDE DEF SampleAt
  <2>2. \A i \in DOMAIN slots : i % 2 = 1 =>
          i + 1 \in DOMAIN slots /\ slots[i] = slots[i + 1]
    BY <1>4, <1>5
  <2> QED
    BY <1>4, <2>1, <2>2 DEF Paired
<1>8. /\ buffer' \in Seq(Samples) /\ Len(buffer') = Len(buffer) - k
      /\ \A j \in DOMAIN buffer' : j + k \in DOMAIN buffer /\ buffer'[j] = buffer[j + k]
  BY <1>1, <1>2, <1>3, Dropped
<1>9. Len(packet'.slots) \in 1 .. Room
  BY <1>2, <1>4, <1>6
<1> HIDE DEF SampleAt
<1> QED
  BY <1>2, <1>3, <1>4, <1>5, <1>6, <1>7, <1>8, <1>9

\* The task makes its next packet, whatever became of the last one: the new one's
\* number and samples follow all those of the packets before.
LEMMA NextPacketInv ==
  ASSUME Inv, NextPacket, wire' \subseteq Live,
         UNCHANGED <<captured, spinning, permit, cancelled>>
  PROVE  Inv'
<1>1. CASE buffer = <<>>
  <2>1. UNCHANGED <<buffer, sequence, packet>> /\ task' = "select"
    BY <1>1 DEF NextPacket
  <2>2. Live' \subseteq Live
    BY <2>1 DEF Live
  <2>3. TypeOK'
    <3>1. wire' \subseteq Packets
      BY DEF Inv, TypeOK, Live
    <3> QED
      BY <2>1, <3>1 DEF Inv, TypeOK
  <2>4. NobodyWaitsUnnotified' /\ BufferIsLatest'
    BY <1>1, <2>1 DEF Inv, NobodyWaitsUnnotified, BufferIsLatest
  <2>5. LiveFit' /\ LiveInOrder' /\ LiveCaptured' /\ LivePaired'
    BY <2>1, <2>2 DEF Inv, LiveFit, LiveInOrder, LiveCaptured, LivePaired, Older,
                      OlderThanBuffer, WereCaptured
  <2> QED
    BY <2>3, <2>4, <2>5 DEF Inv
<1>2. CASE buffer # <<>>
  <2>1. PICK k \in 1 .. Len(buffer) :
           /\ packet' \in Packets
           /\ packet'.seq = sequence
           /\ Len(packet'.slots) \in 1 .. Room
           /\ \A i \in DOMAIN packet'.slots :
                SampleAt(i) \in 1 .. k /\ packet'.slots[i] = buffer[SampleAt(i)]
           /\ \A i, j \in DOMAIN packet'.slots :
                i < j /\ ~OneFrame(i, j) => SampleAt(i) < SampleAt(j)
           /\ Channels = 1 => Paired(packet'.slots)
           /\ buffer' \in Seq(Samples)
           /\ Len(buffer') = Len(buffer) - k
           /\ \A j \in DOMAIN buffer' : j + k \in DOMAIN buffer /\ buffer'[j] = buffer[j + k]
           /\ sequence' = sequence + 1
           /\ task' = "sending"
    BY <1>2, PacketMade
  <2> HIDE DEF SampleAt
  <2>2. Live' \subseteq Live \cup {packet'} /\ Live \subseteq Packets
    BY DEF Live, Inv, TypeOK
  <2>3. /\ buffer \in Seq(Samples) /\ Len(buffer) \in Nat /\ Len(buffer) <= Capacity
        /\ captured \in Nat /\ sequence \in Nat
        /\ \A j \in DOMAIN buffer : buffer[j] = captured - Len(buffer) + j
    BY DEF Inv, TypeOK, BufferIsLatest
  <2>4. TypeOK'
    <3>1. wire' \subseteq Packets
      BY <2>2
    <3>2. Len(buffer') <= Capacity
      BY <2>1, <2>3, SenderAssumption
    <3> QED
      BY <2>1, <2>3, <3>1, <3>2 DEF Inv, TypeOK
  <2>5. NobodyWaitsUnnotified'
    BY <2>1 DEF NobodyWaitsUnnotified
  <2>6. BufferIsLatest'
    <3> SUFFICES ASSUME NEW j \in DOMAIN buffer'
                 PROVE  buffer'[j] = captured - Len(buffer') + j
      BY DEF BufferIsLatest
    <3>1. j \in Nat /\ buffer'[j] = captured - Len(buffer) + (j + k)
      BY <2>1, <2>3
    <3> QED
      BY <2>1, <2>3, <3>1
  <2>7. LiveFit'
    BY <2>1, <2>2 DEF Inv, LiveFit
  <2>8. LiveInOrder'
    <3>1. \A p \in Live : p.seq < sequence' /\ p.seq < packet'.seq
      <4>1. \A p \in Live : p.seq \in Nat /\ p.seq < sequence
        BY <2>2 DEF Inv, LiveInOrder, Packets
      <4> QED
        BY <2>1, <2>3, <4>1
    <3>2. packet'.seq < sequence'
      BY <2>1, <2>3
    <3>3. \A p \in Live : OlderThanBuffer(p)' /\ Older(p, packet')
      <4> SUFFICES ASSUME NEW p \in Live
                   PROVE  OlderThanBuffer(p)' /\ Older(p, packet')
        OBVIOUS
      <4>1. \A i \in DOMAIN p.slots : \A j \in DOMAIN buffer : p.slots[i] < buffer[j]
        BY DEF Inv, LiveInOrder, OlderThanBuffer
      <4>2. \A i \in DOMAIN packet'.slots : SampleAt(i) \in DOMAIN buffer
        BY <2>1, <2>3
      <4> QED
        BY <2>1, <4>1, <4>2 DEF OlderThanBuffer, Older
    <3>4. PICK made \in Packets : made = packet'
      BY <2>1
    <3>5. OlderThanBuffer(made)'
      <4> SUFFICES ASSUME NEW i \in DOMAIN made.slots, NEW j \in DOMAIN buffer'
                   PROVE  made.slots[i] < buffer'[j]
        BY DEF OlderThanBuffer
      <4>1. /\ SampleAt(i) \in DOMAIN buffer /\ SampleAt(i) <= k /\ SampleAt(i) \in Nat
            /\ j + k \in DOMAIN buffer /\ j > 0 /\ j \in Nat
        BY <2>1, <2>3, <3>4, SMTT(30)
      <4>2. made.slots[i] = buffer[SampleAt(i)] /\ buffer'[j] = buffer[j + k]
        BY <2>1, <3>4
      <4> QED
        BY <2>3, <4>1, <4>2
    <3>6. \A q \in Live' : ~(made.seq < q.seq)
      BY <2>1, <2>2, <2>3, <3>1, <3>4 DEF Packets
    <3>7. \A p \in Live, q \in Live : p.seq < q.seq => Older(p, q)
      BY DEF Inv, LiveInOrder
    <3> SUFFICES ASSUME NEW p \in Live'
                 PROVE  /\ p.seq < sequence'
                        /\ \A q \in Live' : p.seq < q.seq => Older(p, q)
                        /\ OlderThanBuffer(p)'
      BY DEF LiveInOrder, Older
    <3>8. CASE p = made
      BY <3>2, <3>4, <3>5, <3>6, <3>8
    <3>9. CASE p \in Live
      BY <2>2, <3>1, <3>3, <3>7, <3>9
    <3> QED
      BY <2>2, <3>4, <3>8, <3>9
  <2>9. LiveCaptured'
    <3>1. WereCaptured(packet'.slots)
      <4> SUFFICES ASSUME NEW i \in DOMAIN packet'.slots
                   PROVE  packet'.slots[i] <= captured
        BY DEF WereCaptured
      <4>1. SampleAt(i) \in DOMAIN buffer /\ SampleAt(i) <= Len(buffer) /\ SampleAt(i) \in Nat
        BY <2>1, <2>3
      <4> QED
        BY <2>1, <2>3, <4>1
    <3>2. Ascends(packet'.slots)
      <4> SUFFICES ASSUME NEW i \in DOMAIN packet'.slots, NEW j \in DOMAIN packet'.slots,
                          i < j /\ ~OneFrame(i, j)
                   PROVE  packet'.slots[i] < packet'.slots[j]
        BY DEF Ascends
      <4>1. /\ SampleAt(i) \in DOMAIN buffer /\ SampleAt(j) \in DOMAIN buffer
            /\ SampleAt(i) \in Nat /\ SampleAt(j) \in Nat /\ SampleAt(i) < SampleAt(j)
        BY <2>1, <2>3
      <4> QED
        BY <2>1, <2>3, <4>1
    <3> QED
      BY <2>2, <3>1, <3>2 DEF Inv, LiveCaptured, WereCaptured
  <2>10. LivePaired'
    BY <2>1, <2>2 DEF Inv, LivePaired
  <2> QED
    BY <2>4, <2>5, <2>6, <2>7, <2>8, <2>9, <2>10 DEF Inv
<1> QED
  BY <1>1, <1>2

\* Every step preserves Inv.
LEMMA NextInv == Inv /\ [Next]_sendVars => Inv'
<1> SUFFICES ASSUME Inv, [Next]_sendVars PROVE Inv'
  OBVIOUS
<1>1. CASE UNCHANGED sendVars \/ Notified \/ Cancel \/ CancelSeen
  BY <1>1, TaskMovesInv DEF Notified, Cancel, CancelSeen, sendVars, Inv, TypeOK
<1>2. CASE \E n \in CallbackSizes : InputCallback(n) \/ InputCallbackSpins(n)
  BY <1>2, InputCallbackInv, InputCallbackSpinsInv
<1>3. CASE Lock
  BY <1>3, NextPacketInv DEF Lock, Live
<1>4. CASE SendReturns
  BY <1>4, NextPacketInv DEF SendReturns, Live
<1> QED
  BY <1>1, <1>2, <1>3, <1>4 DEF Next

\* Inv holds throughout.
THEOREM Invariance == Spec => []Inv
<1>1. Init => Inv
  BY InitInv
<1>2. Inv /\ [Next]_sendVars => Inv'
  BY NextInv
<1> QED
  BY <1>1, <1>2, PTL DEF Spec

\* No step brings an old sample back: what is in the buffer or in a packet after it
\* was there before, or is newly captured; and nothing is taken off the wire.
LEMMA NothingReturns ==
  ASSUME Inv, [Next]_sendVars
  PROVE  /\ captured' \in Nat /\ captured <= captured'
         /\ wire \subseteq wire'
         /\ \A j \in DOMAIN buffer' :
              captured < buffer'[j] \/ \E l \in DOMAIN buffer : buffer'[j] = buffer[l]
         /\ \A p \in Live' :
              p \in Live \/ \A i \in DOMAIN p.slots :
                              \E l \in DOMAIN buffer : p.slots[i] = buffer[l]
<1>1. captured \in Nat /\ buffer \in Seq(Samples)
  BY DEF Inv, TypeOK
<1>2. CASE UNCHANGED sendVars \/ Notified \/ Cancel \/ CancelSeen
  BY <1>1, <1>2 DEF Notified, Cancel, CancelSeen, sendVars, Live
<1>3. CASE \E n \in CallbackSizes : InputCallbackSpins(n)
  BY <1>1, <1>3 DEF InputCallbackSpins, Live
<1>4. CASE \E n \in CallbackSizes : InputCallback(n)
  <2>1. PICK n \in CallbackSizes : InputCallback(n)
    BY <1>4
  <2> DEFINE rest == DropOldest(buffer, n, Capacity)
             new == [i \in 1 .. n |-> captured + i]
  <2>2. /\ n \in Nat /\ n > 0 /\ n <= Capacity /\ captured' = captured + n
        /\ captured + n <= MaxCaptured /\ MaxCaptured \in Nat /\ Len(buffer) <= Capacity
    BY <2>1, SenderAssumption DEF InputCallback, Inv, TypeOK
  <2>3. PICK k \in 0 .. Len(buffer) :
          /\ rest \in Seq(Samples)
          /\ \A i \in DOMAIN rest : i + k \in DOMAIN buffer /\ rest[i] = buffer[i + k]
    BY <1>1, <2>2, OldestDropped
  <2>4. new \in Seq(Samples) /\ \A i \in DOMAIN new : new[i] > captured
    <3>1. \A i \in 1 .. n : captured + i \in Samples /\ captured + i > captured
      BY <1>1, <2>2 DEF Samples
    <3> QED
      BY <2>2, <3>1
  <2>5. buffer' = rest \o new /\ Live' = Live /\ wire' = wire
    BY <2>1 DEF InputCallback, Live
  <2> HIDE DEF rest, new
  <2>6. \A i \in DOMAIN buffer' :
          \/ i \in DOMAIN rest /\ buffer'[i] = rest[i]
          \/ i - Len(rest) \in DOMAIN new /\ buffer'[i] = new[i - Len(rest)]
    BY <2>3, <2>4, <2>5, Joined
  <2>7. \A i \in DOMAIN buffer' :
          captured < buffer'[i] \/ \E l \in DOMAIN buffer : buffer'[i] = buffer[l]
    BY <2>3, <2>4, <2>6
  <2> QED
    BY <1>1, <2>2, <2>5, <2>7
<1>5. CASE Lock \/ SendReturns
  <2>1. NextPacket /\ captured' = captured /\ wire \subseteq wire' /\ wire' \subseteq Live
    BY <1>5 DEF Lock, SendReturns, Live
  <2>2. CASE buffer = <<>>
    BY <1>1, <2>1, <2>2 DEF NextPacket, Live
  <2>3. CASE buffer # <<>>
    <3>1. PICK k \in 1 .. Len(buffer) :
            /\ \A i \in DOMAIN packet'.slots :
                 SampleAt(i) \in 1 .. k /\ packet'.slots[i] = buffer[SampleAt(i)]
            /\ \A j \in DOMAIN buffer' : j + k \in DOMAIN buffer /\ buffer'[j] = buffer[j + k]
      BY <2>1, <2>3, PacketMade
    <3> HIDE DEF SampleAt
    <3>2. \A i \in DOMAIN packet'.slots : SampleAt(i) \in DOMAIN buffer
      BY <1>1, <3>1
    <3>3. Live' \subseteq Live \cup {packet'}
      BY <2>1 DEF Live
    <3> QED
      BY <1>1, <2>1, <3>1, <3>2, <3>3
  <2> QED
    BY <2>2, <2>3
<1> QED
  BY <1>2, <1>3, <1>4, <1>5 DEF Next

-----------------------------------------------------------------------------
(***************************************************************************)
(* What Inv gives.                                                         *)
(***************************************************************************)

\* Every variable keeps its type; in particular the buffer never grows beyond its
\* capacity, whatever the device delivers while the task is in a send.
THEOREM TypeCorrect == Spec => []TypeOK
<1>1. Inv => TypeOK
  BY DEF Inv
<1> QED
  BY <1>1, Invariance, PTL

\* The task never sleeps on samples without a permit to wake it, in any order of
\* callbacks, wake-ups and sends.
THEOREM NoLostWakeUp == Spec => []NobodyWaitsUnnotified
<1>1. Inv => NobodyWaitsUnnotified
  BY DEF Inv
<1> QED
  BY <1>1, Invariance, PTL

\* Whatever is dropped and sent, the buffer holds the latest samples without a gap.
THEOREM LatestKept == Spec => []BufferIsLatest
<1>1. Inv => BufferIsLatest
  BY DEF Inv
<1> QED
  BY <1>1, Invariance, PTL

\* The numbers of packets order their samples, whatever sends fail.
THEOREM NumbersOrder == Spec => []NumbersFollowSamples
<1>1. Inv => NumbersFollowSamples
  BY DEF Inv, LiveInOrder, Live, Older, OlderThanBuffer, NumbersFollowSamples
<1> QED
  BY <1>1, Invariance, PTL

\* Packets fit the MTU and are not empty, for any room and any number of channels.
THEOREM PacketsFill == Spec => []PacketsFit
<1>1. Inv => PacketsFit
  BY DEF Inv, LiveFit, Live, PacketsFit
<1> QED
  BY <1>1, Invariance, PTL
=============================================================================

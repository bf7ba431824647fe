-------------------------- MODULE AudioPathProofs --------------------------
(***************************************************************************)
(* What holds of a whole stream, for any sizes at either end, any packets  *)
(* of earlier senders and any loss, repetition and reordering between.     *)
(*                                                                         *)
(* The two ends are components, and what AudioSenderProofs and             *)
(* AudioReceiverProofs show of each holds here; what is added is how the   *)
(* samples of the two ends are related.                                    *)
(***************************************************************************)
EXTENDS AudioPath, SequenceTheorems, NaturalsInduction, WellFoundedInduction, TLAPS

SP == INSTANCE AudioSenderProofs
RP == INSTANCE AudioReceiverProofs WITH Incoming <- Datagrams

-----------------------------------------------------------------------------
(***************************************************************************)
(* The inductive invariant.                                                *)
(***************************************************************************)

\* What waits at the receiver's socket was on this stream's wire or is a stray.
InboxKnown ==
  \A i \in DOMAIN inbox :
    inbox[i] \in Strays \/ \E p \in wire : inbox[i] = Datagram(p)

\* Sample x is older than all that may still come: those in the sender's buffer and
\* those in packets that the receiver would not find late.
Before(x) ==
  /\ x <= captured
  /\ \A j \in DOMAIN buffer : x < buffer[j]
  /\ \A p \in SP!Live : p.seq > last => \A i \in DOMAIN p.slots : x < p.slots[i]

\* The positions in slots of samples, this stream's or one that sounds like Silence;
\* an earlier sender's are not among them.
Sounding(slots) == {i \in DOMAIN slots : slots[i] # 0}

\* What was heard, and what waits to be, is older than all that may still come.
PastBeforeFuture ==
  /\ heard \in Nat
  /\ Before(heard)
  /\ \A i \in Sounding(playout) : Before(playout[i])

\* Everything that handles a mono stream's slots handles whole frames: the device, the
\* playout buffer and the packets of the earlier sender.
FrameSizes ==
  Channels = 1 =>
    /\ \A n \in OutputSizes : n % 2 = 0
    /\ PlayoutCapacity % 2 = 0
    /\ \A p \in Strays : Len(p.slots) % 2 = 0

\* What waits to be played ascends strictly, but for the two slots of a mono frame, and
\* is younger than what was heard.
PlayoutAscends ==
  \A i \in Sounding(playout) :
    /\ heard < playout[i]
    /\ \A j \in Sounding(playout) :
         i < j /\ ~SP!OneFrame(i, j) => playout[i] < playout[j]

PlayoutPaired == Channels = 1 => SP!Paired(playout)

Inv ==
  /\ SP!Inv
  /\ RP!Inv
  /\ InboxKnown
  /\ PastBeforeFuture
  /\ FrameSizes => PlayoutAscends /\ PlayoutPaired

-----------------------------------------------------------------------------
(***************************************************************************)
(* The two ends as components.                                             *)
(***************************************************************************)

\* The receiver's assumptions hold of the datagrams there can be.
LEMMA ReceiverConstants ==
  /\ PlayoutCapacity \in Nat \ {0}
  /\ InboxCapacity \in Nat \ {0}
  /\ OutputSizes \subseteq Nat \ {0}
  /\ NoPacket \notin Datagrams
  /\ \A p \in Datagrams :
       /\ p.kind \in {"audio", "tiny", "ragged"}
       /\ p.seq \in Nat
       /\ p.slots \in Seq(Nat) /\ Len(p.slots) <= PlayoutCapacity
<1>1. PlayoutCapacity \in Nat \ {0}
  BY PathAssumption
<1>2. ASSUME NEW p \in Datagrams
      PROVE  /\ p.kind \in {"audio", "tiny", "ragged"}
             /\ p.seq \in Nat
             /\ p.slots \in Seq(Nat) /\ Len(p.slots) <= PlayoutCapacity
  <2>1. p \in [kind : {"audio", "tiny", "ragged"}, seq : Nat, slots : Seq(Nat)]
        /\ Len(p.slots) <= Room
    BY DEF Datagrams
  <2> DEFINE n == Len(p.slots)
  <2>2. n \in Nat /\ n <= Room
    BY <2>1
  <2> HIDE DEF n
  <2>3. n <= PlayoutCapacity
    BY <2>2, PathAssumption
  <2> QED
    BY <2>1, <2>3 DEF n
<1> QED
  BY <1>1, <1>2, PathAssumption

\* The steps of the sender in AudioPath are those its own module proves about.
LEMMA SenderSteps ==
  ASSUME S!Next
  PROVE  SP!Next
  BY DEF S!Next, SP!Next, S!InputCallback, SP!InputCallback, S!InputCallbackSpins,
         SP!InputCallbackSpins, S!Notified, SP!Notified, S!Lock, SP!Lock, S!SendReturns,
         SP!SendReturns, S!Cancel, SP!Cancel, S!CancelSeen, SP!CancelSeen,
         S!CallbackRuns, SP!CallbackRuns, S!DropOldest, SP!DropOldest, S!NextPacket,
         SP!NextPacket, S!Takes, SP!Takes, S!Slots, SP!Slots, S!Width, SP!Width

\* So are those of the receiver.
LEMMA ReceiverSteps ==
  /\ \A p \in Datagrams : R!Arrive(p) => RP!Arrive(p)
  /\ R!Receive => RP!Receive
  /\ R!ReceiveFails => RP!ReceiveFails
  /\ R!Cancel => RP!Cancel
  /\ R!CancelSeen => RP!CancelSeen
  /\ \A n \in OutputSizes : R!OutputCallback(n) => RP!OutputCallback(n)
  BY DEF R!Arrive, RP!Arrive, R!Receive, RP!Receive, R!ReceiveFails, RP!ReceiveFails,
         R!Cancel, RP!Cancel, R!CancelSeen, RP!CancelSeen, R!OutputCallback,
         RP!OutputCallback, R!Process, RP!Process, R!Late, RP!Late, R!MakeRoom,
         RP!MakeRoom

\* What a step of the sender does to the sender.
LEMMA SenderStep ==
  ASSUME SP!Inv, S!Next \/ UNCHANGED sendVars
  PROVE  /\ SP!Inv'
         /\ captured' \in Nat /\ captured <= captured'
         /\ wire \subseteq wire'
         /\ \A j \in DOMAIN buffer' :
              captured < buffer'[j] \/ \E l \in DOMAIN buffer : buffer'[j] = buffer[l]
         /\ \A p \in SP!Live' :
              p \in SP!Live \/ \A i \in DOMAIN p.slots :
                                 \E l \in DOMAIN buffer : p.slots[i] = buffer[l]
<1>1. [SP!Next]_SP!sendVars
  BY SenderSteps DEF sendVars, SP!sendVars
<1> QED
  BY <1>1, PathAssumption, SP!NextInv, SP!NothingReturns

\* What a step of the receiver does to the receiver.
LEMMA ReceiverStep ==
  ASSUME RP!Inv,
         \/ \E p \in Datagrams : R!Arrive(p)
         \/ R!Receive \/ R!ReceiveFails \/ R!Cancel \/ R!CancelSeen
         \/ \E n \in OutputSizes : R!OutputCallback(n)
         \/ UNCHANGED recvVars
  PROVE  RP!Inv'
<1>1. [RP!Next]_RP!recvVars
  BY ReceiverSteps DEF RP!Next, recvVars, RP!recvVars
<1> QED
  BY <1>1, ReceiverConstants, RP!NextInv

-----------------------------------------------------------------------------
(***************************************************************************)
(* Inv is inductive.                                                       *)
(***************************************************************************)

\* The stream starts with nothing captured and nothing heard.
LEMMA InitInv == Init => Inv
<1> SUFFICES ASSUME Init PROVE Inv
  OBVIOUS
<1>1. SP!Inv
  BY PathAssumption, SP!InitInv DEF Init, S!Init, SP!Init
<1>2. RP!Inv
  BY ReceiverConstants, RP!InitInv DEF Init, R!Init, RP!Init
<1>3. /\ inbox = <<>> /\ playout = <<>> /\ buffer = <<>> /\ captured = 0 /\ heard = 0
      /\ SP!Live = {}
  BY DEF Init, S!Init, R!Init, SP!Live
<1>4. InboxKnown /\ Sounding(playout) = {}
  BY <1>3 DEF InboxKnown, Sounding
<1>5. PastBeforeFuture
  BY <1>3, <1>4 DEF PastBeforeFuture, Before
<1>6. PlayoutAscends /\ PlayoutPaired
  BY <1>3, <1>4 DEF PlayoutAscends, PlayoutPaired, SP!Paired
<1> QED
  BY <1>1, <1>2, <1>4, <1>5, <1>6 DEF Inv

\* A sequence is one of a larger set, too, and its elements are of the set.
LEMMA Elements ==
  ASSUME NEW T, NEW U, T \subseteq U, NEW q \in Seq(T)
  PROVE  q \in Seq(U) /\ \A i \in DOMAIN q : q[i] \in T /\ q[i] \in U
<1>1. \A i \in 1 .. Len(q) : q[i] \in T
  OBVIOUS
<1>2. Len(q) \in Nat /\ q = [i \in 1 .. Len(q) |-> q[i]] /\ DOMAIN q = 1 .. Len(q)
  OBVIOUS
<1> QED
  BY <1>1, <1>2, SeqDef

\* The types of the buffers, from the invariants of their ends.
LEMMA Types ==
  ASSUME Inv
  PROVE  /\ playout \in Seq(Nat) /\ Len(playout) \in Nat /\ Len(playout) <= PlayoutCapacity
         /\ inbox \in Seq(Datagrams) /\ last \in Nat
         /\ captured \in 0 .. MaxCaptured /\ captured \in Nat
         /\ \A j \in DOMAIN buffer : buffer[j] \in Nat
         /\ \A p \in SP!Live : /\ p.seq \in Nat /\ p.slots \in Seq(Nat)
                               /\ \A i \in DOMAIN p.slots : p.slots[i] \in Nat /\ p.slots[i] > 0
<1>1. /\ playout \in Seq(Nat) /\ Len(playout) \in Nat /\ Len(playout) <= PlayoutCapacity
      /\ inbox \in Seq(Datagrams) /\ last \in Nat
  BY DEF Inv, RP!Inv, RP!TypeOK
<1>2. captured \in 0 .. MaxCaptured /\ buffer \in Seq(1 .. MaxCaptured)
      /\ SP!Live \subseteq [seq : Nat, slots : Seq(1 .. MaxCaptured)]
  BY DEF Inv, SP!Inv, SP!TypeOK, SP!Packets, SP!Samples, SP!Live
<1> DEFINE numbers == 1 .. MaxCaptured
<1>3. numbers \subseteq Nat /\ \A x \in numbers : x > 0
  BY PathAssumption
<1>4. /\ buffer \in Seq(numbers)
      /\ SP!Live \subseteq [seq : Nat, slots : Seq(numbers)]
  BY <1>2
<1> HIDE DEF numbers
<1>5. \A j \in DOMAIN buffer : buffer[j] \in Nat
  BY <1>3, <1>4, Elements
<1>6. ASSUME NEW p \in SP!Live
      PROVE  /\ p.seq \in Nat /\ p.slots \in Seq(Nat)
             /\ \A i \in DOMAIN p.slots : p.slots[i] \in Nat /\ p.slots[i] > 0
  <2>1. p.seq \in Nat /\ p.slots \in Seq(numbers)
    BY <1>4
  <2>2. p.slots \in Seq(Nat) /\ \A i \in DOMAIN p.slots : p.slots[i] \in numbers
    BY <1>3, <2>1, Elements
  <2> QED
    BY <1>3, <2>1, <2>2
<1> QED
  BY <1>1, <1>2, <1>5, <1>6, PathAssumption

\* Whatever the sender does, what was older than all that might still come stays so.
LEMMA BeforeKept ==
  ASSUME Inv, S!Next, UNCHANGED last, NEW x \in Nat, Before(x)
  PROVE  Before(x)'
<1>1. /\ captured' \in Nat /\ captured \in Nat /\ captured <= captured'
      /\ \A j \in DOMAIN buffer' :
           captured < buffer'[j] \/ \E l \in DOMAIN buffer : buffer'[j] = buffer[l]
      /\ \A p \in SP!Live' :
           p \in SP!Live \/ \A i \in DOMAIN p.slots :
                              \E l \in DOMAIN buffer : p.slots[i] = buffer[l]
  BY SenderStep, Types DEF Inv
<1>2. x <= captured'
  BY <1>1 DEF Before
<1>3. ASSUME NEW j \in DOMAIN buffer'
      PROVE  x < buffer'[j]
  <2>1. SP!Inv'
    BY SenderStep DEF Inv
  <2>2. buffer' \in Seq(1 .. MaxCaptured)
    BY <2>1 DEF SP!Inv, SP!TypeOK, SP!Samples
  <2> DEFINE numbers == 1 .. MaxCaptured
  <2>3. buffer' \in Seq(numbers) /\ numbers \subseteq Nat
    BY <2>2, PathAssumption
  <2> HIDE DEF numbers
  <2>4. buffer'[j] \in Nat
    BY <2>3, Elements
  <2> QED
    BY <1>1, <2>4 DEF Before
<1>4. ASSUME NEW p \in SP!Live', p.seq > last, NEW i \in DOMAIN p.slots
      PROVE  x < p.slots[i]
  BY <1>1, <1>4 DEF Before
<1> QED
  BY <1>2, <1>3, <1>4 DEF Before

\* A step of the sender.
LEMMA SendInv ==
  ASSUME Inv, Send
  PROVE  Inv'
<1>1. S!Next /\ UNCHANGED <<inbox, held, last, playout, output, playing, stopping, heard>>
  BY DEF Send, recvVars
<1>2. SP!Inv' /\ RP!Inv' /\ wire \subseteq wire'
  BY <1>1, SenderStep, ReceiverStep DEF Inv, recvVars
<1>3. InboxKnown'
  BY <1>1, <1>2 DEF Inv, InboxKnown, Datagram
<1>4. PastBeforeFuture'
  <2>1. PICK h \in Nat : h = heard
    BY DEF Inv, PastBeforeFuture
  <2>2. PICK q \in Seq(Nat) : q = playout
    BY Types
  <2>3. Before(h)' /\ \A i \in Sounding(q) : Before(q[i])'
    <3>1. Before(h) /\ \A i \in Sounding(q) : Before(q[i])
      BY <2>1, <2>2 DEF Inv, PastBeforeFuture
    <3>2. \A i \in Sounding(q) : q[i] \in Nat
      BY DEF Sounding
    <3> QED
      BY <1>1, <3>1, <3>2, BeforeKept
  <2> QED
    BY <1>1, <2>1, <2>2, <2>3 DEF PastBeforeFuture, Before
<1>5. FrameSizes => PlayoutAscends' /\ PlayoutPaired'
  BY <1>1 DEF Inv, PlayoutAscends, PlayoutPaired
<1> QED
  BY <1>2, <1>3, <1>4, <1>5 DEF Inv

\* A step that leaves the sender, the last number and what is or was to be played.
LEMMA QuietInv ==
  ASSUME Inv, RP!Inv', InboxKnown', UNCHANGED <<sendVars, last, playout, heard>>
  PROVE  Inv'
<1>1. SP!Inv' /\ SP!Live' = SP!Live
  BY SenderStep DEF Inv, sendVars, SP!Live
<1>2. UNCHANGED <<captured, buffer, last, playout, heard>>
  BY DEF sendVars
<1>3. PastBeforeFuture'
  BY <1>1, <1>2 DEF Inv, PastBeforeFuture, Before
<1>4. FrameSizes => PlayoutAscends' /\ PlayoutPaired'
  BY <1>2 DEF Inv, PlayoutAscends, PlayoutPaired
<1> QED
  BY <1>1, <1>3, <1>4 DEF Inv

\* A datagram of this stream or of an earlier one arrives.
LEMMA ArrivalInv ==
  ASSUME Inv, NEW d \in Datagrams,
         d \in Strays \/ \E p \in wire : d = Datagram(p),
         R!Arrive(d), UNCHANGED <<sendVars, heard>>
  PROVE  Inv'
<1>1. inbox' = Append(inbox, d) /\ UNCHANGED <<wire, last, playout, heard>>
  BY DEF R!Arrive, sendVars
<1>2. RP!Inv'
  BY ReceiverStep DEF Inv
<1>3. InboxKnown'
  <2> SUFFICES ASSUME NEW i \in DOMAIN inbox'
               PROVE  inbox'[i] \in Strays \/ \E p \in wire : inbox'[i] = Datagram(p)
    BY <1>1 DEF InboxKnown, Datagram
  <2>1. inbox \in Seq(Datagrams)
    BY Types
  <2>2. (i \in DOMAIN inbox /\ inbox'[i] = inbox[i]) \/ inbox'[i] = d
    BY <1>1, <2>1
  <2> QED
    BY <2>2 DEF Inv, InboxKnown
<1> QED
  BY <1>1, <1>2, <1>3, QuietInv

\* A packet on the wire is a datagram that packet_buffer can take.
LEMMA PacketsAreDatagrams ==
  ASSUME Inv, NEW p \in wire
  PROVE  Datagram(p) \in Datagrams
<1>1. p \in SP!Live
  BY DEF SP!Live
<1>2. p.seq \in Nat /\ p.slots \in Seq(Nat)
  BY <1>1, Types
<1>3. Len(p.slots) \in 1 .. Room
  BY <1>1 DEF Inv, SP!Inv, SP!LiveFit
<1> QED
  BY <1>2, <1>3, PathAssumption DEF Datagram, Datagrams

-----------------------------------------------------------------------------
(***************************************************************************)
(* Frames.                                                                 *)
(***************************************************************************)

\* A shift by whole frames takes frames to frames.
LEMMA FramesShift ==
  ASSUME NEW i \in Nat, NEW j \in Nat, NEW k \in Nat, Channels = 1 => k % 2 = 0
  PROVE  SP!OneFrame(i, j) <=> SP!OneFrame(i + k, j + k)
  BY DEF SP!OneFrame

\* Even numbers have even differences.
LEMMA EvenDifference ==
  ASSUME NEW n \in Nat, NEW k \in Nat, k <= n, n % 2 = 0, k % 2 = 0
  PROVE  (n - k) % 2 = 0
  OBVIOUS

\* Of n slots, k of which are gone, the first one of a frame is not the last one left.
LEMMA FrameWithin ==
  ASSUME NEW n \in Nat, NEW k \in Nat, k <= n, n % 2 = 0, k % 2 = 0,
         NEW i \in Nat, i % 2 = 1, i <= n - k
  PROVE  i + 1 <= n - k /\ i + k <= n /\ (i + k) % 2 = 1
  OBVIOUS

\* Positions in a queue of n, before and after its first k are gone.
LEMMA PositionShifts ==
  ASSUME NEW n \in Nat, NEW k \in Nat, NEW i \in Nat, i >= 1, i + 1 <= n - k, i + k <= n
  PROVE  i + k \in 1 .. n /\ i + 1 \in 1 .. (n - k) /\ i + k + 1 = (i + 1) + k
  OBVIOUS

\* Whole frames without the first few are whole frames.
LEMMA PairedRest ==
  ASSUME NEW q \in Seq(Nat), SP!Paired(q), NEW k \in Nat, k % 2 = 0, k <= Len(q),
         NEW r \in Seq(Nat), Len(r) = Len(q) - k,
         \A i \in DOMAIN r : i + k \in DOMAIN q /\ r[i] = q[i + k]
  PROVE  SP!Paired(r)
<1> DEFINE n == Len(q)
<1>1. n \in Nat /\ n % 2 = 0 /\ DOMAIN q = 1 .. n /\ DOMAIN r = 1 .. (n - k)
  BY SMTT(30) DEF SP!Paired
<1> HIDE DEF n
<1>2. Len(r) = n - k
  BY DEF n
<1>3. (n - k) % 2 = 0
  BY <1>1, <1>2, EvenDifference DEF n
<1>4. ASSUME NEW i \in DOMAIN r, i % 2 = 1
      PROVE  i + 1 \in DOMAIN r /\ r[i] = r[i + 1]
  <2>1. i \in Nat /\ i >= 1 /\ i <= n - k
    BY <1>1
  <2>2. n \in Nat /\ n % 2 = 0
    BY <1>1
  <2>3. i + 1 <= n - k /\ i + k <= n /\ (i + k) % 2 = 1
    BY <1>4, <2>1, <2>2, FrameWithin DEF n
  <2>4. i + k \in 1 .. n /\ i + 1 \in 1 .. (n - k) /\ i + k + 1 = (i + 1) + k
    BY <2>1, <2>2, <2>3, PositionShifts
  <2>5. i + k \in DOMAIN q /\ i + 1 \in DOMAIN r
    BY <1>1, <2>4
  <2>6. q[i + k] = q[i + k + 1]
    BY <2>3, <2>5 DEF SP!Paired
  <2> QED
    BY <2>4, <2>5, <2>6
<1> QED
  BY <1>2, <1>3, <1>4 DEF SP!Paired

\* Whole frames after whole frames are whole frames.
LEMMA PairedJoined ==
  ASSUME NEW q \in Seq(Nat), SP!Paired(q), NEW r \in Seq(Nat), SP!Paired(r)
  PROVE  SP!Paired(q \o r)
<1> DEFINE n == Len(q)
           m == Len(r)
           s == q \o r
<1>1. /\ n \in Nat /\ n % 2 = 0 /\ DOMAIN q = 1 .. n
      /\ m \in Nat /\ m % 2 = 0 /\ DOMAIN r = 1 .. m
  BY DEF SP!Paired
<1>2. /\ Len(s) = n + m /\ DOMAIN s = 1 .. (n + m)
      /\ \A i \in 1 .. n : s[i] = q[i]
      /\ \A i \in 1 .. m : s[n + i] = r[i]
  OBVIOUS
<1> HIDE DEF n, m, s
<1>3. (n + m) % 2 = 0
  BY <1>1
<1>4. ASSUME NEW i \in DOMAIN s, i % 2 = 1
      PROVE  i + 1 \in DOMAIN s /\ s[i] = s[i + 1]
  <2>1. i \in Nat /\ i >= 1 /\ i <= n + m
    BY <1>1, <1>2
  <2>2. CASE i <= n
    <3>1. i \in DOMAIN q /\ i + 1 \in DOMAIN q /\ q[i] = q[i + 1]
      BY <1>1, <1>4, <2>1, <2>2 DEF SP!Paired
    <3> QED
      BY <1>1, <1>2, <2>1, <3>1
  <2>3. CASE i > n
    <3>1. PICK j \in 1 .. m : i = n + j
      <4>1. i - n \in 1 .. m /\ i = n + (i - n)
        BY <1>1, <2>1, <2>3, SMTT(30)
      <4> QED
        BY <4>1
    <3>2. j % 2 = 1
      BY <1>1, <1>4, <3>1
    <3>3. j + 1 \in DOMAIN r /\ r[j] = r[j + 1]
      BY <1>1, <3>1, <3>2 DEF SP!Paired
    <3>4. /\ j \in Nat /\ j + 1 \in 1 .. m /\ n + (j + 1) = i + 1
          /\ i + 1 \in 1 .. (n + m)
      <4>1. j \in Nat /\ j + 1 \in 1 .. m
        BY <1>1, <3>1, <3>3
      <4> QED
        BY <1>1, <3>1, <4>1
    <3>5. s[n + j] = r[j] /\ s[n + (j + 1)] = r[j + 1] /\ i + 1 \in DOMAIN s
      BY <1>2, <3>1, <3>4
    <3> QED
      BY <3>1, <3>3, <3>4, <3>5
  <2>4. n \in Nat
    BY <1>1
  <2>5. i <= n \/ i > n
    BY <2>1, <2>4
  <2> QED
    BY <2>2, <2>3, <2>5
<1> QED
  BY <1>2, <1>3, <1>4 DEF SP!Paired, s

-----------------------------------------------------------------------------
(***************************************************************************)
(* A packet is taken.                                                      *)
(***************************************************************************)

\* The playout buffer after a packet: what is left when k slots have made way, then the
\* packet's.
LEMMA PacketTaken ==
  ASSUME Inv, NEW p \in Datagrams, RP!Process(p),
         p.kind # "tiny", p.seq > last, p.kind # "ragged"
  PROVE  \E k, m \in Nat :
           /\ last' = p.seq
           /\ playout' \in Seq(Nat)
           /\ k <= Len(playout) /\ m = Len(playout) - k
           /\ k = 0 \/ k = Len(playout) + Len(p.slots) - PlayoutCapacity
           /\ \A i \in DOMAIN playout' :
                \/ /\ i \in 1 .. m /\ i + k \in DOMAIN playout
                   /\ playout'[i] = playout[i + k]
                \/ /\ i - m \in DOMAIN p.slots
                   /\ playout'[i] = p.slots[i - m]
           /\ k % 2 = 0 /\ SP!Paired(playout) /\ SP!Paired(p.slots) => SP!Paired(playout')
<1> DEFINE n == Len(p.slots)
           made == RP!MakeRoom(playout, n)
<1>1. /\ p \in Datagrams /\ p.seq \in Nat
      /\ p.slots \in Seq(Nat) /\ n \in Nat /\ n <= PlayoutCapacity
  BY ReceiverConstants
<1>2. /\ playout \in Seq(Nat) /\ Len(playout) \in Nat /\ Len(playout) <= PlayoutCapacity
      /\ last \in Nat
  BY Types
<1>3. last' = p.seq /\ playout' = made \o p.slots
  <2>1. ~(p = NoPacket \/ p.kind = "tiny" \/ RP!Late(p))
    BY <1>1, <1>2, PathAssumption DEF RP!Late
  <2> QED
    BY <2>1 DEF RP!Process
<1>4. PICK k \in Nat : /\ made \in Seq(Nat)
                       /\ k <= Len(playout)
                       /\ Len(made) = Len(playout) - k
                       /\ \A i \in DOMAIN made : made[i] = playout[i + k]
                       /\ k = 0 \/ k = Len(playout) + n - PlayoutCapacity
  <2> HIDE DEF n
  <2> QED
    BY <1>1, <1>2, ReceiverConstants, RP!RoomMade
<1> HIDE DEF made
<1> DEFINE m == Len(made)
<1>5. /\ m \in Nat /\ m = Len(playout) - k /\ DOMAIN made = 1 .. m
      /\ DOMAIN playout = 1 .. Len(playout)
  BY <1>2, <1>4
<1>6. /\ playout' \in Seq(Nat)
      /\ \A i \in DOMAIN playout' :
           \/ i \in DOMAIN made /\ playout'[i] = made[i]
           \/ i - m \in DOMAIN p.slots /\ playout'[i] = p.slots[i - m]
  <2> DEFINE all == made \o p.slots
  <2>1. /\ all \in Seq(Nat)
        /\ \A i \in DOMAIN all :
             \/ i \in DOMAIN made /\ all[i] = made[i]
             \/ i - Len(made) \in DOMAIN p.slots /\ all[i] = p.slots[i - Len(made)]
    BY <1>1, <1>4, PathAssumption, SP!Joined, ZenonT(40)
  <2>2. playout' = all
    BY <1>3
  <2> HIDE DEF all
  <2> QED
    BY <2>1, <2>2
<1> HIDE DEF m
<1>7. \A i \in 1 .. m : i + k \in 1 .. Len(playout)
  <2> DEFINE l == Len(playout)
  <2>1. l \in Nat /\ m = l - k /\ m \in Nat
    BY <1>2, <1>5
  <2> HIDE DEF l
  <2>2. \A i \in 1 .. m : i + k \in 1 .. l
    BY <2>1
  <2> QED
    BY <2>2 DEF l
<1>8. \A i \in DOMAIN playout' :
        \/ i \in 1 .. m /\ i + k \in DOMAIN playout /\ playout'[i] = playout[i + k]
        \/ i - m \in DOMAIN p.slots /\ playout'[i] = p.slots[i - m]
  BY <1>4, <1>5, <1>6, <1>7
<1>9. ASSUME k % 2 = 0, SP!Paired(playout), SP!Paired(p.slots)
      PROVE  SP!Paired(playout')
  <2>1. SP!Paired(made)
    BY <1>2, <1>4, <1>5, <1>7, <1>9, PairedRest
  <2> QED
    BY <1>1, <1>3, <1>4, <1>9, <2>1, PairedJoined
<1> QED
  BY <1>3, <1>4, <1>5, <1>6, <1>8, <1>9 DEF n

\* A packet that is taken is older than all that may still come and younger than all
\* that waits; an earlier sender's makes no sound.
LEMMA TakenInOrder ==
  ASSUME Inv, NEW p \in Datagrams,
         p \in Strays \/ \E w \in wire : p = Datagram(w),
         p.seq > last, last' = p.seq, UNCHANGED sendVars
  PROVE  /\ \A x \in Nat : Before(x) => Before(x)'
         /\ \A i \in Sounding(p.slots) :
              /\ Before(p.slots[i])'
              /\ \A x \in Nat : Before(x) => x < p.slots[i]
              /\ \A j \in Sounding(p.slots) :
                   i < j /\ ~SP!OneFrame(i, j) => p.slots[i] < p.slots[j]
         /\ FrameSizes /\ Channels = 1 => SP!Paired(p.slots)
<1>1. UNCHANGED <<captured, buffer>> /\ SP!Live' = SP!Live
  BY DEF sendVars, SP!Live
<1>2. last \in Nat /\ p.seq \in Nat
  BY Types, ReceiverConstants
<1>3. \A x \in Nat : Before(x) => Before(x)'
  <2> SUFFICES ASSUME NEW x \in Nat, Before(x)
               PROVE  Before(x)'
    OBVIOUS
  <2>1. \A q \in SP!Live : q.seq > last' => q.seq > last
    BY <1>2, Types
  <2> QED
    BY <1>1, <2>1 DEF Before
<1>4. CASE p \in Strays
  <2>1. Sounding(p.slots) = {}
    BY <1>4, PathAssumption DEF Sounding
  <2>2. FrameSizes /\ Channels = 1 => SP!Paired(p.slots)
    <3> SUFFICES ASSUME FrameSizes, Channels = 1
                 PROVE  SP!Paired(p.slots)
      OBVIOUS
    <3>1. Len(p.slots) % 2 = 0 /\ \A i \in DOMAIN p.slots : p.slots[i] = 0
      BY <1>4, PathAssumption DEF FrameSizes
    <3> DEFINE n == Len(p.slots)
    <3>2. n \in Nat /\ DOMAIN p.slots = 1 .. n
      BY ReceiverConstants
    <3> HIDE DEF n
    <3>3. n % 2 = 0
      BY <3>1 DEF n
    <3>4. \A i \in 1 .. n : i % 2 = 1 => i + 1 \in 1 .. n
      BY <3>2, <3>3
    <3> QED
      BY <3>1, <3>2, <3>4 DEF SP!Paired
  <2> QED
    BY <1>3, <2>1, <2>2
<1>5. CASE \E w \in wire : p = Datagram(w)
  <2>1. PICK w \in wire : p = Datagram(w)
    BY <1>5
  <2>2. w \in SP!Live /\ p.slots = w.slots /\ p.seq = w.seq
    BY <2>1 DEF SP!Live, Datagram
  <2>3. ASSUME NEW i \in DOMAIN w.slots
        PROVE  Before(w.slots[i])'
    <3>1. w.slots[i] <= captured /\ \A j \in DOMAIN buffer : w.slots[i] < buffer[j]
      BY <2>2 DEF Inv, SP!Inv, SP!LiveCaptured, SP!WereCaptured, SP!LiveInOrder,
                  SP!OlderThanBuffer
    <3>2. ASSUME NEW q \in SP!Live, q.seq > last', NEW j \in DOMAIN q.slots
          PROVE  w.slots[i] < q.slots[j]
      <4>1. w.seq < q.seq
        BY <2>2, <3>2, Types
      <4>2. SP!Older(w, q)
        BY <2>2, <4>1 DEF Inv, SP!Inv, SP!LiveInOrder
      <4> QED
        BY <4>2 DEF SP!Older
    <3> QED
      BY <1>1, <3>1, <3>2 DEF Before
  <2>4. ASSUME NEW i \in DOMAIN w.slots, NEW x \in Nat, Before(x)
        PROVE  x < w.slots[i]
    BY <2>2, <2>4 DEF Before
  <2>5. SP!Ascends(w.slots)
    BY <2>2 DEF Inv, SP!Inv, SP!LiveCaptured
  <2>6. Channels = 1 => SP!Paired(w.slots)
    BY <2>2 DEF Inv, SP!Inv, SP!LivePaired
  <2> QED
    BY <1>3, <2>2, <2>3, <2>4, <2>5, <2>6 DEF Sounding, SP!Ascends
<1> QED
  BY <1>4, <1>5

\* The receiver takes a packet, late or not.
LEMMA ReceiveInv ==
  ASSUME Inv, R!Receive, UNCHANGED <<sendVars, heard>>
  PROVE  Inv'
<1>1. inbox \in Seq(Datagrams) /\ inbox # <<>> /\ held' = Head(inbox) /\ inbox' = Tail(inbox)
  BY Types DEF R!Receive
<1>2. PICK p \in Datagrams :
        /\ held' = p
        /\ p \in Strays \/ \E w \in wire : p = Datagram(w)
  <2>1. Head(inbox) \in Datagrams /\ 1 \in DOMAIN inbox /\ Head(inbox) = inbox[1]
    BY <1>1
  <2> QED
    BY <1>1, <2>1 DEF Inv, InboxKnown
<1>3. InboxKnown'
  <2> SUFFICES ASSUME NEW i \in DOMAIN inbox'
               PROVE  inbox'[i] \in Strays \/ \E w \in wire : inbox'[i] = Datagram(w)
    BY DEF InboxKnown, Datagram, sendVars
  <2>1. i + 1 \in DOMAIN inbox /\ inbox'[i] = inbox[i + 1]
    BY <1>1
  <2> QED
    BY <2>1 DEF Inv, InboxKnown
<1>4. RP!Inv'
  BY ReceiverStep DEF Inv
<1>5. RP!Process(p)
  BY <1>2, ReceiverSteps DEF RP!Receive
<1>6. p.seq \in Nat /\ last \in Nat /\ p # NoPacket
  BY Types, ReceiverConstants
<1>7. CASE p.kind = "tiny" \/ ~(p.seq > last)
  <2>1. p.kind = "tiny" \/ RP!Late(p)
    BY <1>6, <1>7 DEF RP!Late
  <2>2. UNCHANGED <<last, playout>>
    BY <1>5, <2>1 DEF RP!Process
  <2> QED
    BY <1>3, <1>4, <2>2, QuietInv
<1>8. CASE p.kind # "tiny" /\ p.seq > last
  <2>0. ~(p = NoPacket \/ p.kind = "tiny" \/ RP!Late(p))
    BY <1>6, <1>8 DEF RP!Late
  <2>1. last' = p.seq
    BY <1>5, <2>0 DEF RP!Process
  <2>2. SP!Inv'
    BY SenderStep DEF Inv
  <2>3. /\ \A x \in Nat : Before(x) => Before(x)'
        /\ \A i \in Sounding(p.slots) :
             /\ Before(p.slots[i])'
             /\ \A x \in Nat : Before(x) => x < p.slots[i]
             /\ \A j \in Sounding(p.slots) :
                  i < j /\ ~SP!OneFrame(i, j) => p.slots[i] < p.slots[j]
        /\ FrameSizes /\ Channels = 1 => SP!Paired(p.slots)
    BY <1>2, <1>8, <2>1, TakenInOrder
  <2>4. PICK h \in Nat, q \in Seq(Nat) :
          h = heard /\ q = playout /\ Before(h) /\ \A i \in Sounding(q) : Before(q[i])
    BY Types DEF Inv, PastBeforeFuture
  <2>5. \A i \in Sounding(q) : q[i] \in Nat /\ Before(q[i])'
    BY <2>3, <2>4 DEF Sounding
  <2>6. heard' = h /\ Before(h)'
    BY <2>3, <2>4
  <2>7. CASE p.kind = "ragged"
    <3>1. playout' = q
      BY <1>5, <2>0, <2>4, <2>7 DEF RP!Process
    <3>2. PastBeforeFuture'
      BY <2>5, <2>6, <3>1 DEF PastBeforeFuture, Before
    <3>3. FrameSizes => PlayoutAscends' /\ PlayoutPaired'
      BY <2>4, <2>6, <3>1 DEF Inv, PlayoutAscends, PlayoutPaired
    <3> QED
      BY <1>3, <1>4, <2>2, <3>2, <3>3 DEF Inv
  <2>8. CASE p.kind # "ragged"
    <3>1. PICK k, m \in Nat :
           /\ playout' \in Seq(Nat)
           /\ k <= Len(playout) /\ m = Len(playout) - k
           /\ k = 0 \/ k = Len(playout) + Len(p.slots) - PlayoutCapacity
           /\ \A i \in DOMAIN playout' :
                \/ /\ i \in 1 .. m /\ i + k \in DOMAIN playout
                   /\ playout'[i] = playout[i + k]
                \/ /\ i - m \in DOMAIN p.slots
                   /\ playout'[i] = p.slots[i - m]
           /\ k % 2 = 0 /\ SP!Paired(playout) /\ SP!Paired(p.slots) => SP!Paired(playout')
      BY <1>5, <1>8, <2>8, PacketTaken
    <3>2. PICK r \in Seq(Nat) : r = playout'
      BY <3>1
    <3>3. \A i \in Sounding(r) :
            \/ i \in 1 .. m /\ i + k \in Sounding(q) /\ r[i] = q[i + k]
            \/ i - m \in Sounding(p.slots) /\ r[i] = p.slots[i - m]
      BY <2>4, <3>1, <3>2 DEF Sounding
    <3>4. PastBeforeFuture'
      <4>1. \A i \in Sounding(r) : Before(r[i])'
        BY <2>3, <2>5, <3>3
      <4> QED
        BY <2>6, <3>2, <4>1 DEF PastBeforeFuture, Before
    <3>5. ASSUME FrameSizes, Channels = 1
          PROVE  k % 2 = 0 /\ m % 2 = 0 /\ SP!Paired(playout')
      <4>1. SP!Paired(playout) /\ SP!Paired(p.slots)
        BY <2>3, <3>5 DEF Inv, PlayoutPaired
      <4> DEFINE a == Len(playout)
                 n == Len(p.slots)
      <4>2. a \in Nat /\ a % 2 = 0 /\ n \in Nat /\ n % 2 = 0 /\ PlayoutCapacity \in Nat
        <5>1. a \in Nat /\ p.slots \in Seq(Nat) /\ PlayoutCapacity \in Nat
          BY Types, ReceiverConstants
        <5>2. n \in Nat
          BY <5>1
        <5>3. a % 2 = 0 /\ n % 2 = 0
          BY <4>1 DEF SP!Paired
        <5> QED
          BY <5>1, <5>2, <5>3
      <4>3. PlayoutCapacity % 2 = 0
        BY <3>5 DEF FrameSizes
      <4>4. m = a - k /\ k <= a /\ (k = 0 \/ k = a + n - PlayoutCapacity)
        BY <3>1
      <4> HIDE DEF a, n
      <4>5. k % 2 = 0
        BY <4>2, <4>3, <4>4
      <4>6. m % 2 = 0
        BY <4>2, <4>4, <4>5, EvenDifference
      <4> QED
        BY <3>1, <4>1, <4>5, <4>6
    <3>6. ASSUME FrameSizes
          PROVE  PlayoutAscends'
      <4> SUFFICES ASSUME NEW i \in Sounding(r)
                   PROVE  /\ h < r[i]
                          /\ \A j \in Sounding(r) :
                               i < j /\ ~SP!OneFrame(i, j) => r[i] < r[j]
        BY <2>6, <3>2 DEF PlayoutAscends
      <4>1. /\ \A l \in Sounding(q) : h < q[l]
            /\ \A l, j \in Sounding(q) : l < j /\ ~SP!OneFrame(l, j) => q[l] < q[j]
        BY <2>4, <3>6 DEF Inv, PlayoutAscends
      <4>2. h < r[i]
        BY <2>3, <2>4, <3>3, <4>1
      <4> SUFFICES ASSUME NEW j \in Sounding(r), i < j, ~SP!OneFrame(i, j)
                   PROVE  r[i] < r[j]
        BY <4>2
      <4>3. i \in Nat /\ j \in Nat /\ \A l \in Sounding(p.slots) : l \in Nat /\ l > 0
        <5>1. p.slots \in Seq(Nat)
          BY ReceiverConstants
        <5>2. \A l \in Sounding(p.slots) : l \in Nat /\ l > 0
          BY <5>1 DEF Sounding
        <5> QED
          BY <5>2 DEF Sounding
      <4>4. CASE i + k \in Sounding(q) /\ j + k \in Sounding(q) /\ r[i] = q[i + k] /\ r[j] = q[j + k]
        <5>1. i + k < j + k
          BY <4>3
        <5>2. ~SP!OneFrame(i + k, j + k)
          BY <3>5, <3>6, <4>3, FramesShift
        <5> QED
          BY <4>1, <4>4, <5>1, <5>2
      <4>5. CASE i + k \in Sounding(q) /\ r[i] = q[i + k] /\ j - m \in Sounding(p.slots)
                 /\ r[j] = p.slots[j - m]
        BY <2>3, <2>4, <2>5, <4>5
      <4>6. CASE i - m \in Sounding(p.slots) /\ r[i] = p.slots[i - m]
                 /\ j - m \in Sounding(p.slots) /\ r[j] = p.slots[j - m]
        <5>1. PICK a, b \in Nat : a = i - m /\ b = j - m /\ a + m = i /\ b + m = j
          <6>1. i - m \in Nat /\ j - m \in Nat
            BY <4>3, <4>6
          <6> QED
            BY <4>3, <6>1
        <5>2. a < b
          BY <4>3, <5>1
        <5>3. ~SP!OneFrame(a, b)
          BY <3>5, <3>6, <5>1, FramesShift
        <5> QED
          BY <2>3, <4>6, <5>1, <5>2, <5>3
      <4>7. CASE i - m \in Sounding(p.slots) /\ j \in 1 .. m
        <5>1. i - m \in Nat /\ i - m > 0
          BY <4>3, <4>7
        <5> QED
          BY <4>3, <4>7, <5>1
      <4> QED
        BY <3>3, <4>4, <4>5, <4>6, <4>7
    <3>7. FrameSizes => PlayoutPaired'
      BY <3>5 DEF PlayoutPaired
    <3> QED
      BY <1>3, <1>4, <2>2, <3>4, <3>6, <3>7 DEF Inv
  <2> QED
    BY <2>7, <2>8
<1> QED
  BY <1>6, <1>7, <1>8

-----------------------------------------------------------------------------
(***************************************************************************)
(* The device plays.                                                       *)
(***************************************************************************)

\* Of some positions up to n one is the last.
LEMMA LastExists ==
  ASSUME NEW n \in Nat, NEW T \in SUBSET (1 .. n), T # {}
  PROVE  \E i \in T : \A j \in T : j <= i
<1> DEFINE lessThan == OpToRel(<, Nat)
           left == {n - i : i \in T}
<1>1. IsWellFoundedOn(lessThan, Nat)
  BY NatLessThanWellFounded, Zenon
<1>2. \A i, j \in Nat : i < j => <<i, j>> \in lessThan
  BY Zenon DEF OpToRel
<1> HIDE DEF lessThan
<1>3. left \in SUBSET Nat /\ left # {}
  <2>1. \A i \in T : n - i \in Nat
    OBVIOUS
  <2>2. \A l \in left : l \in Nat
    BY <2>1
  <2>3. PICK i \in T : TRUE
    OBVIOUS
  <2>4. n - i \in left
    OBVIOUS
  <2> HIDE DEF left
  <2> QED
    BY <2>2, <2>4
<1>4. PICK l \in left : \A j \in left : ~ (<<j, l>> \in lessThan)
  BY <1>1, <1>3, WFMin
<1>5. PICK i \in T : l = n - i
  OBVIOUS
<1>6. \A j \in T : n - j \in Nat /\ n - j \in left
  OBVIOUS
<1>7. \A j \in T : ~(n - j < n - i)
  BY <1>2, <1>4, <1>5, <1>6
<1> QED
  BY <1>5, <1>7

\* What the device plays: the first n slots of the buffer, and the last sample of this
\* stream among them is the one that was heard last.
LEMMA Played ==
  ASSUME Inv, NEW n \in OutputSizes, Play(n)
  PROVE  /\ playout' \in Seq(Nat)
         /\ Len(playout') = IF n <= Len(playout) THEN Len(playout) - n ELSE 0
         /\ \A i \in DOMAIN playout' :
              i + n \in DOMAIN playout /\ playout'[i] = playout[i + n]
         /\ \/ UNCHANGED heard
            \/ \E m \in Sounding(playout) : m <= n /\ heard' = playout[m]
         /\ UNCHANGED <<inbox, last, sendVars>>
<1>1. /\ playout \in Seq(Nat) /\ Len(playout) \in Nat /\ n \in Nat
  BY Types, ReceiverConstants
<1>2. /\ output' = [i \in 1 .. n |-> IF i <= Len(playout) THEN playout[i] ELSE Silence]
      /\ playout' = SubSeq(playout, n + 1, Len(playout))
      /\ heard' = IF Own(output') = {} THEN heard
                  ELSE output'[CHOOSE i \in Own(output') : \A j \in Own(output') : j <= i]
      /\ UNCHANGED <<inbox, last, sendVars>>
  BY DEF Play, R!OutputCallback
<1>3. /\ playout' \in Seq(Nat)
      /\ Len(playout') = IF n <= Len(playout) THEN Len(playout) - n ELSE 0
      /\ \A i \in DOMAIN playout' :
           i + n \in DOMAIN playout /\ playout'[i] = playout[i + n]
  BY <1>1, <1>2, ReceiverConstants, RP!Dropped
<1>4. CASE Own(output') = {}
  BY <1>2, <1>3, <1>4
<1>5. CASE Own(output') # {}
  <2> DEFINE m == CHOOSE i \in Own(output') : \A j \in Own(output') : j <= i
  <2>1. Own(output') \in SUBSET (1 .. n)
    BY <1>2 DEF Own
  <2>2. \E i \in Own(output') : \A j \in Own(output') : j <= i
    <3> DEFINE T == Own(output')
    <3>1. T \in SUBSET (1 .. n) /\ T # {}
      BY <1>5, <2>1
    <3> HIDE DEF T
    <3>2. \E i \in T : \A j \in T : j <= i
      BY <1>1, <3>1, LastExists
    <3> QED
      BY <3>2 DEF T
  <2>3. m \in Own(output')
    BY <2>2
  <2>4. heard' = output'[m]
    BY <1>2, <1>5
  <2> HIDE DEF m
  <2>5. m \in 1 .. n /\ output'[m] \notin {Silence, 0}
    BY <2>1, <2>3 DEF Own
  <2>6. m <= Len(playout) /\ output'[m] = playout[m]
    BY <1>2, <2>5
  <2>7. m \in Sounding(playout)
    BY <1>1, <2>5, <2>6 DEF Sounding
  <2>8. m \in Sounding(playout) /\ m <= n /\ heard' = playout[m]
    BY <1>1, <2>4, <2>5, <2>6, <2>7
  <2>9. \E l \in Sounding(playout) : l <= n /\ heard' = playout[l]
    BY <2>8
  <2> QED
    BY <1>2, <1>3, <2>9
<1> QED
  BY <1>4, <1>5

\* A step in which the device plays.
LEMMA PlayInv ==
  ASSUME Inv, NEW n \in OutputSizes, Play(n)
  PROVE  Inv'
<1>1. /\ playout' \in Seq(Nat)
      /\ Len(playout') = IF n <= Len(playout) THEN Len(playout) - n ELSE 0
      /\ \A i \in DOMAIN playout' :
           i + n \in DOMAIN playout /\ playout'[i] = playout[i + n]
      /\ \/ UNCHANGED heard
         \/ \E m \in Sounding(playout) : m <= n /\ heard' = playout[m]
      /\ UNCHANGED <<inbox, last, sendVars>>
  BY Played
<1>2. SP!Inv' /\ RP!Inv'
  BY <1>1, SenderStep, ReceiverStep DEF Play, Inv
<1>3. UNCHANGED <<captured, buffer>> /\ SP!Live' = SP!Live /\ wire' = wire
  BY <1>1 DEF sendVars, SP!Live
<1>4. InboxKnown'
  BY <1>1, <1>3 DEF Inv, InboxKnown, Datagram
<1>5. PICK h \in Nat, q \in Seq(Nat), r \in Seq(Nat) :
        /\ h = heard /\ q = playout /\ r = playout'
        /\ Before(h) /\ \A i \in Sounding(q) : Before(q[i])
  BY <1>1, Types DEF Inv, PastBeforeFuture
<1>6. n \in Nat /\ \A i \in Sounding(q) : i \in Nat /\ q[i] \in Nat
  BY ReceiverConstants DEF Sounding
<1>7. \A i \in Sounding(r) : i \in Nat /\ i > 0 /\ i + n \in Sounding(q) /\ r[i] = q[i + n]
  BY <1>1, <1>5 DEF Sounding
<1>8. \A x \in Nat : Before(x) => Before(x)'
  BY <1>1, <1>3 DEF Before
<1>9. heard' = h \/ \E m \in Sounding(q) : m <= n /\ heard' = q[m]
  BY <1>1, <1>5
<1>10. PastBeforeFuture'
  <2>1. PICK g \in Nat : g = heard' /\ Before(g)
    BY <1>5, <1>6, <1>9
  <2>2. Before(g)' /\ \A i \in Sounding(r) : Before(r[i])'
    BY <1>5, <1>6, <1>7, <1>8, <2>1
  <2> QED
    BY <1>5, <2>1, <2>2 DEF PastBeforeFuture, Before
<1>11. ASSUME FrameSizes
       PROVE  PlayoutAscends'
  <2>1. /\ \A i \in Sounding(q) : h < q[i]
        /\ \A i, j \in Sounding(q) : i < j /\ ~SP!OneFrame(i, j) => q[i] < q[j]
    BY <1>5, <1>11 DEF Inv, PlayoutAscends
  <2>2. Channels = 1 => n % 2 = 0
    BY <1>11 DEF FrameSizes
  <2>3. ASSUME NEW i \in Sounding(r)
        PROVE  heard' < r[i]
    <3>1. i \in Nat /\ i > 0 /\ i + n \in Sounding(q) /\ r[i] = q[i + n]
      BY <1>7
    <3>2. CASE heard' = h
      BY <2>1, <3>1, <3>2
    <3>3. CASE \E m \in Sounding(q) : m <= n /\ heard' = q[m]
      <4>1. PICK m \in Sounding(q) : m <= n /\ heard' = q[m]
        BY <3>3
      <4>2. m < i + n
        BY <1>6, <3>1, <4>1
      <4>3. ~SP!OneFrame(m, i + n)
        BY <1>6, <2>2, <3>1, <4>1 DEF SP!OneFrame
      <4> QED
        BY <2>1, <3>1, <4>1, <4>2, <4>3
    <3> QED
      BY <1>9, <3>2, <3>3
  <2>4. ASSUME NEW i \in Sounding(r), NEW j \in Sounding(r), i < j, ~SP!OneFrame(i, j)
        PROVE  r[i] < r[j]
    <3>1. i + n < j + n
      BY <1>6, <1>7, <2>4
    <3>2. ~SP!OneFrame(i + n, j + n)
      BY <1>6, <1>7, <2>2, <2>4, FramesShift
    <3> QED
      BY <1>7, <2>1, <3>1, <3>2
  <2> QED
    BY <1>5, <2>3, <2>4 DEF PlayoutAscends
<1>12. ASSUME FrameSizes, Channels = 1
       PROVE  SP!Paired(r)
  <2>1. SP!Paired(q) /\ n % 2 = 0
    BY <1>5, <1>12 DEF Inv, PlayoutPaired, FrameSizes
  <2>2. CASE n <= Len(q)
    BY <1>1, <1>5, <1>6, <2>1, <2>2, PairedRest
  <2>3. CASE ~(n <= Len(q))
    <3>1. Len(r) = 0 /\ DOMAIN r = {}
      BY <1>1, <1>5, <2>3
    <3> QED
      BY <3>1 DEF SP!Paired
  <2> QED
    BY <2>2, <2>3
<1> QED
  BY <1>2, <1>4, <1>5, <1>10, <1>11, <1>12 DEF Inv, PlayoutPaired

\* Every step preserves Inv.
LEMMA NextInv == Inv /\ [Next]_vars => Inv'
<1> SUFFICES ASSUME Inv, [Next]_vars PROVE Inv'
  OBVIOUS
<1>1. CASE UNCHANGED vars
  <2>1. UNCHANGED <<sendVars, recvVars, inbox, last, playout, heard, wire>>
    BY <1>1 DEF vars, sendVars, recvVars
  <2>2. RP!Inv' /\ InboxKnown'
    BY <2>1, ReceiverStep DEF Inv, InboxKnown, Datagram
  <2> QED
    BY <2>1, <2>2, QuietInv
<1>2. CASE Send
  BY <1>2, SendInv
<1>3. CASE \E p \in wire : Deliver(p)
  BY <1>3, PacketsAreDatagrams, ArrivalInv DEF Deliver
<1>4. CASE \E p \in Strays : DeliverStray(p)
  BY <1>4, PathAssumption, ArrivalInv DEF DeliverStray
<1>5. CASE TakePacket
  <2>1. CASE R!Receive
    BY <1>5, <2>1, ReceiveInv DEF TakePacket
  <2>2. CASE R!ReceiveFails
    <3>1. UNCHANGED recvVars
      BY <2>2, ReceiverSteps, ReceiverConstants, RP!ReceiveFailsChangesNothing
         DEF Inv, recvVars, RP!recvVars
    <3>2. RP!Inv' /\ InboxKnown'
      BY <1>5, <3>1, ReceiverStep DEF Inv, TakePacket, InboxKnown, Datagram, recvVars, sendVars
    <3> QED
      BY <1>5, <3>1, <3>2, QuietInv DEF TakePacket, recvVars
  <2>3. CASE R!Cancel \/ R!CancelSeen
    <3>1. UNCHANGED <<inbox, last, playout, sendVars, heard, wire>>
      BY <1>5, <2>3 DEF TakePacket, R!Cancel, R!CancelSeen, sendVars
    <3>2. RP!Inv' /\ InboxKnown'
      BY <2>3, <3>1, ReceiverStep DEF Inv, InboxKnown, Datagram
    <3> QED
      BY <3>1, <3>2, QuietInv
  <2> QED
    BY <1>5, <2>1, <2>2, <2>3 DEF TakePacket
<1>6. CASE \E n \in OutputSizes : Play(n)
  BY <1>6, PlayInv
<1> QED
  BY <1>1, <1>2, <1>3, <1>4, <1>5, <1>6 DEF Next

\* Inv holds throughout.
THEOREM Invariance == Spec => []Inv
<1>1. Init => Inv
  BY InitInv
<1>2. Inv /\ [Next]_vars => Inv'
  BY NextInv
<1> QED
  BY <1>1, <1>2, PTL DEF Spec

-----------------------------------------------------------------------------
(***************************************************************************)
(* What Inv gives.                                                         *)
(***************************************************************************)

\* What waits to be played is in order and younger than all that was played, whatever
\* the network and the earlier sender do: in any stereo stream, and in a mono one whose
\* frames nobody cuts in two.
THEOREM PlayoutOrder ==
  ASSUME FrameSizes
  PROVE  Spec => []PlayoutInOrder
<1>1. Inv => PlayoutInOrder
  <2> SUFFICES ASSUME Inv, NEW i \in Own(playout)
               PROVE  /\ playout[i] > heard
                      /\ \A j \in 1 .. i - 1 : playout[j] <= playout[i]
    BY DEF PlayoutInOrder
  <2>1. playout \in Seq(Nat) /\ DOMAIN playout = 1 .. Len(playout) /\ Len(playout) \in Nat
        /\ heard \in Nat
    BY Types DEF Inv, PastBeforeFuture
  <2>2. i \in Sounding(playout) /\ i \in 1 .. Len(playout) /\ playout[i] \in Nat
    BY <2>1 DEF Own, Sounding
  <2>3. playout[i] > heard
    BY <2>1, <2>2 DEF Inv, PlayoutAscends
  <2>4. ASSUME NEW j \in 1 .. i - 1
        PROVE  playout[j] <= playout[i]
    <3>1. j \in Nat /\ j < i /\ j \in DOMAIN playout
      BY <2>1, <2>2
    <3>2. playout[j] \in Nat
      BY <2>1, <3>1
    <3>3. CASE playout[j] = 0
      BY <2>2, <3>3
    <3>4. CASE SP!OneFrame(j, i)
      <4>1. playout[j] = playout[j + 1] /\ i = j + 1
        BY <3>1, <3>4 DEF Inv, PlayoutPaired, SP!Paired, SP!OneFrame
      <4> QED
        BY <2>2, <4>1
    <3>5. CASE playout[j] # 0 /\ ~SP!OneFrame(j, i)
      <4>1. j \in Sounding(playout)
        BY <3>1, <3>5 DEF Sounding
      <4> QED
        BY <2>2, <3>1, <3>2, <3>5, <4>1 DEF Inv, PlayoutAscends
    <3> QED
      BY <3>3, <3>4, <3>5
  <2> QED
    BY <2>3, <2>4
<1> QED
  BY <1>1, Invariance, PTL

\* Both channels of a mono stream play the same sample at once, if nobody cuts frames.
THEOREM MonoFrames ==
  ASSUME FrameSizes
  PROVE  Spec => []MonoOnBothSides
<1>1. Inv => MonoOnBothSides
  BY DEF Inv, PlayoutPaired, SP!Paired, MonoOnBothSides
<1> QED
  BY <1>1, Invariance, PTL

-----------------------------------------------------------------------------
(***************************************************************************)
(* A stream implements SampleStream.                                       *)
(***************************************************************************)

\* A step of the sender captures, or nobody at the devices sees it.
LEMMA SendCaptures ==
  ASSUME Inv, Send
  PROVE  Stream!Capture \/ UNCHANGED <<captured, heard>>
<1>1. captured \in Nat /\ captured' \in Nat /\ captured <= captured'
  BY Types, SenderStep DEF Inv, Send
<1>2. UNCHANGED heard
  BY DEF Send
<1>3. captured' > captured \/ captured' = captured
  BY <1>1
<1> QED
  BY <1>2, <1>3 DEF Stream!Capture

\* What the device plays was captured, and is younger than what it played before.
LEMMA PlayHears ==
  ASSUME FrameSizes, Inv, NEW n \in OutputSizes, Play(n)
  PROVE  Stream!Hear \/ UNCHANGED <<captured, heard>>
<1>1. UNCHANGED captured
  BY DEF Play, sendVars
<1>2. CASE UNCHANGED heard
  BY <1>1, <1>2
<1>3. CASE \E m \in Sounding(playout) : heard' = playout[m]
  <2>1. PICK m \in Sounding(playout) : heard' = playout[m]
    BY <1>3
  <2>2. heard < playout[m] /\ playout[m] <= captured
    BY DEF Inv, PlayoutAscends, PastBeforeFuture, Before
  <2>3. heard \in Nat /\ playout[m] \in Nat
    BY Types DEF Inv, PastBeforeFuture, Sounding
  <2> QED
    BY <1>1, <2>1, <2>2, <2>3 DEF Stream!Hear
<1> QED
  BY <1>2, <1>3, Played

\* Under the same condition on frames a whole stream, with its packets lost, repeated
\* and reordered, its buffers that overflow and run dry, and packets of an earlier
\* sender among its own, keeps the promise SampleStream makes of the two devices.
THEOREM StreamImplemented ==
  ASSUME FrameSizes
  PROVE  Spec => StreamSpec
<1>1. Init => Stream!Init
  BY DEF Init, S!Init, Stream!Init
<1>2. Inv /\ [Next]_vars => [Stream!Next]_Stream!vars
  <2> SUFFICES ASSUME Inv, [Next]_vars
               PROVE  Stream!Next \/ UNCHANGED <<captured, heard>>
    BY DEF Stream!vars
  <2>1. CASE UNCHANGED vars
    BY <2>1 DEF vars, sendVars
  <2>2. CASE Send
    BY <2>2, SendCaptures DEF Stream!Next
  <2>3. CASE (\E p \in wire : Deliver(p)) \/ (\E p \in Strays : DeliverStray(p)) \/ TakePacket
    BY <2>3 DEF Deliver, DeliverStray, TakePacket, sendVars
  <2>4. CASE \E n \in OutputSizes : Play(n)
    BY <2>4, PlayHears DEF Stream!Next
  <2> QED
    BY <2>1, <2>2, <2>3, <2>4 DEF Next
<1> QED
  BY <1>1, <1>2, Invariance, PTL DEF Spec, StreamSpec, Stream!Spec
=============================================================================

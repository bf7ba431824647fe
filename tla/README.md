# audio_forwarder: TLA+ models, checks and proofs

audio_forwarder carries audio between a device of one machine and a device of another: samples
go over UDP, and one TCP connection per stream sets the stream up and keeps it alive. This
directory holds TLA+ models of its server, its clients and the two ends of a stream, the TLC
configurations that check them, and TLAPS proofs about the server, alone and with its clients, both
ends of a stream, the whole stream, and what a request gets. Paths are relative to the repository.

## 1. Inventory

| Part | Source | State | Operations | Modules |
|---|---|---|---|---|
| Server control plane | `src/server.rs` | map device id -> connection, channel of ended streams, socket and tasks of each connection | `listen` and its handlers for List, SendAudio, ReceiveAudio; removal of one or all connections; end of a stream; Ctrl-C | `ForwarderServer`, `DeviceLease`, `ForwarderServerProofs`, `ForwarderSystemProofs` |
| Client | `src/client.rs`, `src/bin/audio_forwarder.rs` | connection, UDP task and its token | `list_remote`, `receive`, `send` | `ForwarderClient`, `ForwarderSystem`, `ForwarderSystemProofs` |
| Audio sender | `src/udp_server.rs` (`send_audio`) | sample buffer under a mutex, `Notify`, packet counter | device callback, sending loop, cancellation | `AudioSender`, `AudioSenderProofs` |
| Audio receiver | `src/udp_server.rs` (`receive_audio`) | sample buffer under a mutex, last packet number, packet buffer | receive loop, device callback, cancellation | `AudioReceiver`, `AudioReceiverProofs` |
| A whole stream | both | both, and the network | | `AudioPath`, `SampleStream`, `AudioPathProofs` |
| Device selection | `src/audio_caps.rs` | none of its own; the audio host, which changes | unique names, listing, lookup, configuration choice | `DeviceSelect`, `StreamSetup` |
| Stream configuration | `src/stream_config.rs`, format checks of `client.rs` and `udp_server.rs` | none (pure) | `FromStr`, `Display`, what each end accepts | `StreamConfigText`, `StreamSetup`, and their proofs |
| Device id | `src/device_config.rs` | none (pure) | `device_id` | `DeviceSelect`, `StreamSetup` |
| Wire format | `src/prost_codec.rs`, `proto/messages.proto` | none | framing of one message | left out |
| Metrics, logging, build, deployment, tone test client | | none the program reads | | left out |

### How the parts interact

- A client opens a TCP connection and sends one request. The server's `listen()` task reads it,
  removes whoever has the requested device (cancels and *joins* its tasks), binds a UDP socket,
  answers, and spawns two tasks: a **UDP task** on a thread of its own that owns the audio device
  and the UDP socket, and a **socket task** that owns the TCP stream and watches for its end.
- Both are registered in the map under the device id. When the socket task ends, because the
  client closed the stream *or because the token was set*, it sends the device id over a channel
  to `listen()`, which removes that device's connection.
- `listen()` is a single task. Its `select!` chooses between a new connection, an ended stream
  and Ctrl-C, and it runs the whole handler before it comes back.
- The client runs the other end of the audio in a UDP task of its own and watches the TCP stream.
  Any activity on it means that the server is through with this client.
- In a UDP task the device's callback and the task share a buffer under a mutex. The sender's
  task holds that mutex while it awaits the socket.

### What is hard here

*Interleaving*: a takeover while the old task still has the device; notices that name a device and
not a connection; a callback that notifies while the task is somewhere else. *Failure*: a client
that goes away at any await of its handler; a UDP task that fails by itself; a panic of the
`listen()` task; packets that are lost, repeated or reordered; receive errors that leave an old
packet in the buffer. *Timing*: the client's timeout against the server's late answer; requests
that are handled strictly one after the other. *Limits*: two bounded buffers that drop their
oldest samples, packets that must fit the MTU. `PROJECT.json` lists each hazard at its line, with
the properties that guard it or the reason why none does yet.

### What makes each part correct

- **Server**: a device is never open twice; a new stream starts only after the old one's end; every
  running UDP task can still be cancelled by somebody; a stream that has ended does not stay
  registered; the server keeps listening, serves its backlog and shuts down; a client's device is
  given back when the client is gone.
- **Client**: it stops when the server cancels its stream; it never waits for a response for ever;
  however it ends, its device at the server is free afterwards.
- **Sender**: no lost wake-up; overflow costs the oldest samples and leaves no gap; packet numbers
  order the samples; samples move on; cancelling stops it.
- **Receiver and path**: nothing is heard after something younger, or twice; frames stay whole;
  cancelling stops it.
- **Device selection and configuration**: a name opens the device that bears it, or one that can be
  told from the devices without a name; listing and lookup panic only for causes that can be named;
  one device has one id; a configuration that is typed is the one that is opened, or the request is
  refused; both ends know what the other has; a stream that runs has the same samples at both ends.

## 2. Plan

Ordered by importance; (done) marks what exists.

1. `ForwarderServer` with the abstract `DeviceLease`: safety, liveness, deviations. (done)
2. `ForwarderServerProofs`: type correctness, exclusion, ownership, notices, refinement. (done)
3. `AudioSender`, `AudioReceiver`, composed in `AudioPath` with the abstract `SampleStream`. (done)
4. `ForwarderClient`, composed with the server in `ForwarderSystem`. (done)
5. A second sender on one firewall port, of which a receiver hears late packets with numbers of
   their own (`udp_server.rs:482`, `:508`): `Strays` in `AudioPath`. (done)
6. `DeviceSelect`: names, listing, lookup, ids; `StreamConfigText`: the rate through text and back;
   `StreamSetup`, which composes the two with the request of a client and the format checks. (done)
7. `StreamConfigTextProofs`, `StreamSetupProofs`: all safety properties of 6. (done)
8. `AudioReceiverProofs`, `AudioSenderProofs`, and on top of both `AudioPathProofs`: all safety
   properties of 3 and 5, and `StreamSpec`. (done)
9. `ForwarderSystemProofs`: what holds of the server holds among real clients. (done)

What is left to TLC is liveness. A wire format model (`prost_codec.rs`) is not planned.

## 3. The modules

### DeviceLease and SampleStream: what is promised

`DeviceLease` describes the server as somebody sees it who watches only the devices: `Acquire` a free device
for a connection that has had none, `Release` it. `SampleStream` describes a stream as seen at
the two devices: `Capture` some samples, `Hear` some that are younger than all heard before.
Samples may be lost; order may not.

### ForwarderServer: `src/server.rs`

| Variable | Code |
|---|---|
| `pc`, `cur`, `joining` | the await at which `listen()` stands, the connection its handler has, the tasks it joins |
| `connections` | `Server.connections`, line 39 |
| `notices` | the `flume` channel, line 384 |
| `stream[c]` | who owns the server's end of the TCP stream: accept queue, handler, socket task ("watched"), or nobody any more ("dropped") |
| `udp[c]`, `cancelled` | the UDP task, the cancellation token |
| `device`, `port` | what the request asked for |
| `peerEnded`, `interrupted` | the client has closed its end; Ctrl-C has been pressed |

An action is what the `listen()` task does from one await to the next: `Accept`, then `ReadFails`,
`HandleList`, `HandlerPanics` (the listing of devices, or the lookup of one) or `HandleRequest` (up
to the join in `remove_connection`), `Joined`,
`Bind` or `BindFails`, `StartStream` or `RespondFails`; `HandleNotice`; `Interrupt`, `Drained`.
`handle_send_msg` and `handle_receive_msg` take the same steps and differ in the UDP port, so one
set of actions models both: an input device's request asks for port 0. `InterruptUnseen` is a
Ctrl-C that no `ctrl_c()` future is there to see. `UdpStops`, `UdpFails`, `StreamEnds` are steps of
the tasks on other threads, `Connect` and `HangUp` of the clients. A panic leaves the UDP tasks
running, and `PanicExits` is the runtime's drop, which waits for them.

A connection's name is used once. A client that comes back is another connection.

### ForwarderClient and ForwarderSystem: `src/client.rs`

One process per connection: `idle`, `waiting` (for the response), `streaming` (in its `select!`),
`closing`, `joining`, and `exited` or `panicked`. `told` is its cancellation token, `spent` says
that the `select!` has consumed the result of the UDP task's handle. `receive()` and `send()`
run different ends of the audio and treat the connection alike. `ForwarderSystem` joins the two by
their TCP streams: a client closing its end is the server's `HangUp`; `stream[c] = "dropped"` is
what the client sees as the end; `answered` is the response on its way.

### AudioSender, AudioReceiver and AudioPath: `src/udp_server.rs`

A sample is its number, so order, loss and repetition can be read off. In `AudioSender` the
callback (`InputCallback`) runs whenever the task does not hold the mutex; `Notified`, `Lock` and
`SendReturns` are the task's steps, and `NextPacket` is the inner loop that fills a packet. The
mutex is implicit: it is the task's while `task = "sending"`. `InputCallbackSpins` is the callback
whose input is longer than the buffer can ever be: it never returns.

In `AudioReceiver`, `Receive` and `ReceiveFails` are the two results of `recv_from`, both followed
by `Process`, the body of the loop, which after an error looks at the packet it already had
(`held`). `OutputCallback` is the device's. A packet is audio, too short ("tiny") or of a broken
length ("ragged").

`AudioPath` puts a network between the two: what was once on the wire may be delivered at any
time, repeatedly, or never. `DeliverStray` delivers a packet of another sender to the same port
(`Strays`), with whatever number it has: the receiver does not look at source addresses. A datagram
has at most `Room` slots, which is what `packet_buffer` takes of any; `PathAssumption` collects what
both ends assume and that the playout buffer is larger than a packet.

### StreamConfigText: `src/stream_config.rs`

What `Display` and `FromStr` do to a rate. A rate is an integer in Hz, its text the number of Hz
that the digits say. In between stands an f32 both ways, which is modelled exactly, by its
mantissa: `Kilo(rate)` is the mantissa of rate/1000, `Scale(rate)` its unit,
`RoundDiv` rounds to the nearest and, of two, to the even one, as the hardware and `{:.2}` do.
`format_as_khz` keeps two decimals, `parse_khz` multiplies by 1000 (rounding to an f32 of the
octave of the product) and *cuts off*. What follows: a rate loses up to 6 Hz or gains up to 5 in
one passage, 7 and 5 in two, and whole kHz are exact. 11.025 kHz becomes 11.02: a range whose only
rate that is (`OldMic`'s f32 samples in `MCStreamSetup`) is listed, but no text that is typed opens
it, although README.md:51 has the user type "any single sample rate within the min-max range".

### DeviceSelect: `src/audio_caps.rs`, `device_id`

Pure functions of a host, a sequence of devices and the positions of the two default ones:
`make_strings_unique`, `DeviceNames`, the lookup
`FirstNamed`, which is a position among the devices *that have a name*, `Listing`, which pairs *all*
devices of one enumeration with the names found by a second one, `Listable`, without which
`device_names[index]` is out of bounds, `DefaultListable`, without which the name of a default device
is unwrapped in vain, `OpenConfig`, `device_name` (the plain name, which makes the id) and
`device_id`. A name is a sequence, so that `<<"Mic", 1>>` is what both a device called "Mic #1" and
the first of two called "Mic" get.

### StreamSetup: one request, from the listing to the two UDP tasks

| Variable | Code |
|---|---|
| `host` | what cpal's host enumerates now; `Replug` changes it before any look of the program at it |
| `seen` | `devices`, what a listing has got from its first enumeration (`audio_caps.rs:227`) |
| `stale` | a history variable: which of `seen`, `listing` and `index` were read off an earlier `host` |
| `listing` | the text of `list-remote`, as its lines |
| `wanted` | the arguments of `send` and `receive` |
| `index` | the position `get_device` takes from its first enumeration to its second |
| `opened`, `answer` | the device and configuration on the server, and what the client reads of it |
| `held`, `displaced` | another client's stream and whether `remove_connection` removes it |
| `local` | what the client's own device came out with |
| `remoteTask`, `localTask` | whether `send_audio` and `receive_audio` run or return an error |
| `step` | where the user stands: "user"; "input", "defaults", "devices" in a listing; "asked", "found", "opened", "streaming" in a request; "refused", "panicked" |

A listing looks at the host four times: `ListDefaultInput` and `ListDefaultOutput` unwrap the names of
the default devices, `ListDevices` enumerates the devices, `ListNames` enumerates once more for the
names and prints; `Replug` may come between any two. A device that goes away after the last look shows
no ranges, which the model does not take from the user. `Ask` is the client's, `FindPosition` and `OpenNamed` the
two halves of `get_device` for a name, `OpenDefault` the branch without one; `Open`
is the rest of `handle_send_msg` and `handle_receive_msg` up to the removal of the old stream;
`Answer` is the response and the start of the server's task, `ReadAnswer` the client's checks and
the start of its own. Order and failures of handlers are `ForwarderServer`'s.

## 4. The runs

Deadlock checking is off in every run: servers, clients and streams may stop.

| Run | Instance | States | Shows |
|---|---|---|---|
| `server_safety` | 3 connections, input and output device, 1 firewall port, failing device list | 53,214 (symmetry) | `OneStreamPerDevice`, `StreamsAreOwned`, `EndIsNoticed`, `DeviceClosedBeforeBind`, and `LeaseSpec`: the server implements `DeviceLease` |
| `server_liveness` | 3 connections after 1 device | 20,805 | `KeepsListening`, `DeviceReclaimed`, `BacklogServed`, `ShutdownCompletes` |
| `system` | 2 client processes, 1 device | 17,363 | `CancelledClientsStop`, `ClientsAreAnswered`, `DevicesFollowClients` |
| `sender` | stereo, 4-slot packets, buffer of 6 samples, deliveries of 2, 4 or 8 | 9,227 | `NobodyWaitsUnnotified`, `BufferIsLatest`, `NumbersFollowSamples`, `PacketsFit`, `SamplesMoveOn`, `CancelStops` |
| `receiver` | 6 packets in any order, again and again; buffer of 6 slots | 42,441 | `FramesWhole`, `ErrorsReplayNothing`, `CancelStops` |
| `path_mono` | mono, up to 4 samples and a stray packet of an earlier stream, both buffers overflow | 1,434,510 | `PlayoutInOrder`, `MonoOnBothSides`, and `StreamSpec`: a stream implements `SampleStream` |
| `stream_setup` | 7 hosts of 6 devices, 4 local configurations, 10 typed rates | 682,458 | `OpenedByPosition`, `NamesTellApart`, `PanicsHaveCauses`, `TypedIsOpened`, `AnswerTellsDevice`, `RunningStreamsAreF32`, `HolderMakesWay` |
| `server_stale_notice` | 2 connections | violation | `ConnectedUntilStopped` |
| `server_interrupt` | 2 connections | violation | `InterruptStops` |
| `server_panic` | 2 connections, failing device list | violation | `PanicIsTheEnd` |
| `path_first_packet` | as `path_mono`, no strays | violation | `FirstIsInOrder` |
| `setup_formats` | as `stream_setup` | violation | `AcceptedStreamsRun` |

### The five deviations

- **A stale notice ends the wrong stream** (`server.rs:86`, `:400`). Client 2 takes client 1's
  device. Client 1's socket task, cancelled, announces its end like any other. `listen()` reads
  that notice after client 2 has been registered, and removes client 2. So every takeover is
  followed by the end of the new stream. README.md: "Clients will remain connected until they are
  stopped". (`README.md:24`)
- **A Ctrl-C can be lost** (`server.rs:402`), while a handler or a removal runs.
- **A failing device list leaves a process that neither serves nor ends** (`server.rs:146`):
  `unwrap()` panics `listen()`, and the runtime waits for UDP tasks whose tokens nobody sets.
- **The first packet of every stream is dropped** (`udp_server.rs:508`): its number is 0, the
  receiver starts at 0 and wants more.
- **A stream that both ends accept has no task** (`udp_server.rs:399`, `:33`). The listing and the
  client let f32 and i32 through, the tasks f32 and i16 or u16: with an i32 device one task returns
  an error. In the trace it is the output device of a client that receives, whose own task fails:
  its `select!` takes the result of the task's handle, and the client then awaits that handle again
  (`client.rs:190`) and panics. With an i32 device at the server nobody is told of the error, and the
  client stays connected without audio. `udp_server.rs:407`: "Only f32 and i32 sample formats are
  supported on output device". What does hold is `RunningStreamsAreF32`: where both tasks run, the
  samples of both devices are f32.

The code does some more that a user would not expect; the models do it likewise, and no run is made of it:

- A client whose own UDP task fails, for whatever reason, panics when it joins it (`client.rs:190`,
  `:310`; `TaskResult` and `Join` of `ForwarderClient`).
- A request without a device's name takes the default *output* device, also for input
  (`audio_caps.rs:71`; `OpenDefault`).
- 11.025 kHz, which README.md:51 has the user type, can be refused (`StreamConfigText`, above).
- A device without a name makes the requests for those after it open another device:
  `OpenedByPosition` says which.
- A packet that is no whole number of samples makes the packets before it late (`udp_server.rs:513`;
  `Process` of `AudioReceiver`), and high numbers of an earlier sender silence a stream: both count
  as loss.

Because of the first deviation `ConnectedUntilStopped` cannot be among the passing properties, and
`EndIsNoticed` is stated as what holds instead: notices may be stale, but none is missing.

### Bounds and why they are enough

- *Three connections*: two are needed for a takeover, three for one that is displaced while a
  notice of an earlier takeover is still queued. What a connection does is independent of
  the others except through the device, so a fourth adds no new kind of conflict. Two devices, one
  of which names a port, show that devices do not disturb each other.
- *The sender's buffer* holds three callbacks or one packet and a half, so that truncation, a full
  and a partial packet, and a callback between two packets occur. `MaxCaptured` is the bound on
  sample numbers. `MCAudioSender` lets the numbering start again when nothing is on its way, so that the
  liveness properties are checked against a device that never stops delivering.
- *The receiver* takes packets from a set, again and again and in any order; `InboxCapacity`
  bounds the socket's queue.
- *The path* captures `MaxCaptured = 4` mono samples: up to four packets, more than the sender's buffer
  (3 samples) or the receiver's (2 frames) holds, and meets one packet of another stream, numbered as if in the middle of these.
- *The hosts* of `stream_setup` are chosen for the cases that conflict: two devices of one name; a
  third that is called as one of them is numbered; one that cannot tell its name, before others; a
  device with both directions; ranges with one rate, with rates the text does not keep, and with formats
  only one side takes. Any host may follow any other, as often as it likes. What is concluded about
  rates is proved for all from 1 to 512 kHz; the exactness of the f32 arithmetic is claimed for
  these. A piece of hardware has one name in all hosts (`SetupAssumption`).
- Packet numbers are 64 bits in the code and natural numbers here: at thousands of packets per
  second they do not wrap.

### Fairness

- *Server*: the awaits of a handler complete (the timeout bounds the first, the others are local:
  a bind, a small write, the join of tasks that are fair themselves). `select!` polls its
  branches in random order, so a branch that is ready again and again is taken: strong fairness
  of `Accept` and `HandleNotice`. UDP and socket tasks have threads of their own: weak fairness.
  Clients, failures and Ctrl-C owe nothing.
- *Client*: its timeout passes, what arrives is read, its UDP task looks at its token.
- *Sender*: `send_to` returns; the task gets the mutex in the end although the callback
  takes it again and again (strong fairness of `Lock`, which assumes that the device leaves the
  mutex free between callbacks); the token is seen in spite of endless notifications, again by
  `select!`'s random order.
- *Receiver*: likewise for packets, errors and the token.

`SamplesMoveOn` and `CancelStops` of the sender are stated up to a callback that spins
(`InputCallbackSpins`): it keeps the mutex, so that nothing follows it, not even the stop of a
cancelled stream; and `KeepsListening` and `DeviceReclaimed` take from it that a UDP task sees its token: for a device
that delivers more at once than 16,384 samples neither holds.

## 5. The proofs

`ForwarderServerProofs` proves about `ForwarderServer`, for all sets of connections, devices and
ports, from `ServerAssumption` alone (`NoConn`, `NoDevice` and `AnyPort` are no connection,
device and port; output devices are devices):

| Theorem | Statement |
|---|---|
| `TypeCorrect` | `Spec => []TypeOK` |
| `Exclusion` | `Spec => []OneStreamPerDevice` |
| `Ownership` | `Spec => []StreamsAreOwned` |
| `NoEntryForgotten` | `Spec => []EndIsNoticed` |
| `ClosedBeforeBind` | `Spec => []DeviceClosedBeforeBind` |
| `LeaseImplemented` | `Spec => LeaseSpec` |

The argument. None of the safety properties is inductive by itself. `Inv` adds:

- `HandlerOwnsCur`: while a handler runs, its connection is one whose stream it owns, and outside
  of handlers there is none;
- `NoTaskBeforeStart`: no UDP task before the response was sent, no token before the stream is
  registered;
- `JoinsInPlace`: tasks are waited for only where the code joins, and are those of cancelled connections;
- `DeviceIsFree`: from the join to the registration, the requested device has no entry in the map, which
  is what makes `insert` overwrite nothing;
- `EntriesAreLive`: an entry of the map is a started, uncancelled connection of that device;
- `TasksKnowDevice`: a started connection has a device.

Exclusion follows from ownership: an uncancelled task is *the* entry of its device, and a
cancelled one is being joined, during which no stream starts. `Joined` is the step that needs it,
and `StartStream` the step that uses it: `NobodyHasHandlersDevice`. `NextInv` has one lemma per
group of actions. The refinement maps `StartStream` to `Acquire`, the end of a UDP task to
`Release`, and everything else to a stutter; that the holder is unique is `OneStreamPerDevice`.

`StreamConfigTextProofs` proves about rates, for all from 1 to 512 kHz and from no assumption:

| Theorem | Statement |
|---|---|
| `RateSurvivesText` | one text loses at most 6 Hz or adds 5 |
| `TypedRateSurvives` | two texts lose at most 7 Hz or add 5 |
| `WholeKhzSurvives` | whole kHz come back as they were |

Rounding is off by half a unit (`RoundDivBounds`), the octave's unit is small against a Hz
(`ScaleHas`), so the mantissa, the two decimals and the product are each off by a known amount
(`KiloHas`, `FormatNear`, `ParseNear`); all of it is linear once `Scale(rate)` has a name of its own.
Exactness for whole kHz is that every division on the way comes out even (`RoundDivExact`).

`StreamSetupProofs` proves about `StreamSetup`, for all hosts, configurations and typed rates, from
`SetupAssumption` alone:

| Theorem | Statement |
|---|---|
| `SetupTypeCorrect` | `Spec => []TypeOK` |
| `OpensByPosition` | `Spec => []OpenedByPosition` |
| `ListedNamesDiffer` | `Spec => []NamesTellApart` |
| `PanicsExplained` | `Spec => []PanicsHaveCauses` |
| `OpensWhatIsTyped` | `Spec => []TypedIsOpened` |
| `AnswerIsTrue` | `Spec => []AnswerTellsDevice` |
| `BothEndsF32` | `Spec => []RunningStreamsAreF32` |
| `HolderIsDisplaced` | `Spec => []HolderMakesWay` |

The inductive invariant adds to the properties what each variable remembers: devices, a listing or a
position that are not stale are what the host would give now (`SeenIsHosts`, `ListingIsHosts`,
`IndexIsHosts`), what is wanted has been shown (`WantedIsShown`), what is opened is what lookup and
choice of configuration make of the request (`OpenedAsAsked`, `OpenedWasFound`), and the tasks fit
the configurations they were given (`EndsAccept`). About the pure functions: the lookup returns the first match and a
position that exists (`FirstNamedIs`, `FirstNamedFits`, by counting), the opened configuration is the
wanted one (`OpenConfigIs`), and of two equal names one is numbered (`EqualNames`). A listing prints a
host that does not change meanwhile only where all its devices have names (`ListableIsAllNamed`). `OpensByPosition` relates two ways of counting: the
k-th name is that of the device of `Rank` k among those that have one (`NameOfRank`), which stands as
many places further as there are nameless devices before it (`NamelessBefore`); that `Rank` takes
every value is shown by `RankSteps` and `RankIsTaken`.

`AudioSenderProofs` proves about `AudioSender`, for mono and stereo, any packet room of at least two
slots, any capacity and delivery sizes and any number of samples, from `SenderAssumption` alone:

| Theorem | Statement |
|---|---|
| `TypeCorrect` | `Spec => []TypeOK`, the buffer's bound included |
| `NoLostWakeUp` | `Spec => []NobodyWaitsUnnotified` |
| `LatestKept` | `Spec => []BufferIsLatest` |
| `NumbersOrder` | `Spec => []NumbersFollowSamples` |
| `PacketsFill` | `Spec => []PacketsFit` |
| `StereoPacketsEndInHalfAFrame` | a full stereo packet takes `Room - 1` samples, odd if `Room` is even |

The properties of packets speak of the wire, but what goes on the wire was made a step earlier:
`Inv` states them of `Live`, the wire and the packet in the socket's hands (`LiveFit`,
`LiveInOrder`, `LiveCaptured`, `LivePaired`). That packets are in order needs `BufferIsLatest`: what
is taken from the buffer's old end is younger than all packets and older than the rest. The lemmas
about the operators carry the arithmetic: how many samples a packet takes (`TakesSome`), which slots
they fill (`SlotsHold`), what truncation leaves (`OldestDropped`).

`AudioReceiverProofs` proves about `AudioReceiver`, for any packets in any order and number, from
`ReceiverAssumption` alone:

| Theorem | Statement |
|---|---|
| `TypeCorrect` | `Spec => []TypeOK`, the bounds of queue and buffer included |
| `NoReplay` | `Spec => ErrorsReplayNothing` |

The one conjunct added is `HeldIsDone`: the packet in `packet_buffer` is too short to have a number
or its number is not beyond the last one, so that looking at it again after an error does nothing.

`AudioPathProofs` proves about `AudioPath`, for any sizes and any packets of other senders, from
`PathAssumption`:

| Theorem | Statement | Assumes |
|---|---|---|
| `PlayoutOrder` | `Spec => []PlayoutInOrder` | `FrameSizes` |
| `MonoFrames` | `Spec => []MonoOnBothSides` | `FrameSizes` |
| `StreamImplemented` | `Spec => StreamSpec` | `FrameSizes` |

`FrameSizes` restricts mono streams only: there the device asks for whole frames, the playout buffer
holds a whole number of them, and so do the packets of other senders. The code has the first from
cpal, which asks in frames, and the second by its capacity of 16,384. The third holds when the
earlier sender is mono, too; a stereo one's full packet has 365 slots, which shifts the frames of a
mono stream that comes after it on the same port, and this is not proved to be harmless because it
is not. A mono sample fills both slots of a frame; where a frame is parted, a sample is heard in two
callbacks, which `SampleStream` does not allow. The hypothesis says nothing about a stereo stream:
its order holds for any sizes.

The two ends take part through their own proof modules (`SP`, `RP`): `SenderStep` and `ReceiverStep`
say that a step of the path is a step of each end or a stutter, so that their invariants come for
nothing. `Inv` adds what relates the ends: everything in the receiver's queue was on the wire or is
a stray (`InboxKnown`); every packet that the order check would still let in is younger than what
waits to be played and what was heard (`PastBeforeFuture`, from `LiveInOrder`: packet numbers order
the samples); what waits ascends, but for the two slots of a mono frame (`PlayoutAscends`), and is
paired (`PlayoutPaired`). The refinement maps the sender's `InputCallback` to `Capture`, the
receiver's `OutputCallback` to `Hear`, everything else to a stutter. TLC checked this `Inv` on the
instance of `path_mono` and on a stereo one first.

`ForwarderSystemProofs` proves about `ForwarderSystem`, for any number of clients, from
`SystemAssumption` (the server's):

| Theorem | Statement |
|---|---|
| `ServerImplemented` | `Spec => Server!Spec` |
| `SystemLeases` | the system implements `DeviceLease` |
| `DevicesInHand` | `OneStreamPerDevice` and `StreamsAreOwned` among real clients |
| `TypeCorrect` | `Spec => []TypeOK` |

A client's step is a `Connect`, a `HangUp` or nothing to the server (`ServerSteps`), so the server's
invariant and refinement hold in the system.

Only model-checked is liveness (`KeepsListening`, `DeviceReclaimed`, `BacklogServed`,
`ShutdownCompletes`, `CancelledClientsStop`, `ClientsAreAnswered`, `DevicesFollowClients`,
`SamplesMoveOn` and both `CancelStops`), which is out of the prover's reach, and one invariant:
`FramesWhole`, which is about packets of whole frames and so leaves out the 365 slots of a full stereo
packet (`StereoPacketsEndInHalfAFrame`); for the frames of a mono stream there is `MonoFrames`. Every
other invariant and safety property of an action that a passing run checks is proved.

## 6. What is not modelled

- *The contents of messages*, their encoding and their framing: a request arrives whole or fails.
- *Addresses*: a port is modelled where two sockets can want the same one, an IP address never.
- *Formats inside the server's and the stream's models*: a task that cannot run the agreed format ends
  by itself (`UdpFails`, `TaskFails`), which is what the code does; which formats do that is
  `StreamSetup`'s (`TaskOutcomes`).
- *Device lookup inside `ForwarderServer`*: there a device id is one device. Two devices of one name
  share an id (`device_config.rs:37`), so a request for one displaces the client of the other; in
  `StreamSetup` it shows as `displaced` for a holder of other hardware.
- *Several server hosts of cpal* (one per audio system) and errors of its enumeration beyond a missing
  name; a device that fails when its stream is built, which is a `UdpFails`.
- *The layout* of the listing, and the parsing of a command line and of a configuration's parts other
  than the rate and the format.
- *The two rates of a stream*: nothing in the code compares them (`udp_server.rs:439`); a stream between
  devices of different rates is one of `StreamSetup`'s, and no property excludes it.
- *Stereo loss*: a stereo packet takes 365 samples, an odd number (`StereoPacketsEndInHalfAFrame`), so
  a lost one swaps left and right.
  `path_mono` runs the mono case, whose packets keep frames whole; no statement of the
  documentation is about the stereo one.
- *The test client* of `testbins/`, which sends a tone and shares no code with the program.
- *Metrics and logging*: written, never read.
- *Time*: a timeout is a step that may happen at any moment, which includes every real moment.

---------------------------- MODULE StreamSetup ----------------------------
(***************************************************************************)
(* What one request for a stream gets: from the listing a user reads, to   *)
(* the device and configuration the server opens, to what its answer says, *)
(* to the two UDP tasks.  client.rs (receive, send), server.rs             *)
(* (handle_send_msg, handle_receive_msg) and udp_server.rs (send_audio,    *)
(* receive_audio), with the functions of DeviceSelect and StreamConfigText.*)
(* When and in which order handlers run, and what else can fail in them,   *)
(* is ForwarderServer's.                                                   *)
(*                                                                         *)
(* The server's machine is not the program's: between any two looks at it  *)
(* a device may be plugged in or out.  The client's own device is opened   *)
(* by the same functions and is here just a configuration.                 *)
(***************************************************************************)
EXTENDS DeviceSelect, StreamConfigText

CONSTANTS
  Hosts,         \* the states the server's audio host can be in
  LocalConfigs,  \* the configurations the client's device may turn out to have
  TypedRates     \* the rates a user may type, as texts

ASSUME SetupAssumption ==
  /\ LocalConfigs \subseteq StreamConfigs
  /\ TypedRates \subseteq MinRate + 1 .. MaxRate
  /\ NoConfig \notin StreamConfigs
  /\ \A h \in Hosts :
       /\ h.input \in 0 .. Len(h.devices) /\ h.output \in 0 .. Len(h.devices)
       /\ Len(h.devices) \in Nat /\ DOMAIN h.devices = 1 .. Len(h.devices)
       /\ \A i \in DOMAIN h.devices : IsDevice(h.devices[i], DeviceConfigs, MinRate .. MaxRate)
  /\ \A h, g \in Hosts : \A i \in DOMAIN h.devices, j \in DOMAIN g.devices :
       h.devices[i].unit = g.devices[j].unit => h.devices[i].name = g.devices[j].name

VARIABLES
  command,   \* "receive": the server sends its input; "send": it plays on its output
  local,     \* the configuration of the client's device
  held,      \* the device and direction of another client's stream, from some earlier
             \* state of the host, and the id the stream is registered under
  displaced, \* remove_connection has removed that stream
  host,      \* the server's audio host
  stale,     \* what has been read off the host before it last changed
  seen,      \* the devices a listing has got from its first enumeration
  listing,   \* the lines the user has been shown, none if never
  wanted,    \* what the user asks for: a device's name, a configuration as text
  step,      \* where the request stands
  index,     \* the position get_device has found the name at
  opened,    \* the device the server opens, and its configuration
  answer,    \* the configuration the client reads in the answer
  remoteTask, localTask  \* the UDP tasks of the server and of the client

setup == <<command, local, held>>
tasks == <<remoteTask, localTask>>
vars == <<setup, displaced, host, stale, seen, listing, wanted, step, index, opened,
          answer, tasks>>

NoRequest == [device |-> NoName, cfg |-> NoConfig]

Units == UNION {{h.devices[i].unit : i \in DOMAIN h.devices} : h \in Hosts}

TypeOK ==
  /\ command \in {"receive", "send"}
  /\ local \in LocalConfigs
  /\ held.unit \in Units /\ held.direction \in Directions
  /\ displaced \in BOOLEAN
  /\ host \in Hosts
  /\ stale \subseteq {"seen", "listing", "index"}
  /\ seen \in {<<>>} \cup {h.devices : h \in Hosts}
  /\ \A i \in DOMAIN listing : listing[i].unit \in Units
  /\ wanted.cfg \in StreamConfigs \cup {NoConfig}
  /\ step \in {"user", "input", "defaults", "devices", "asked", "found", "opened",
               "streaming", "refused", "panicked"}
  /\ index \in Nat
  /\ opened # NoDevice => opened.device.unit \in Units /\ opened.cfg \in StreamConfigs
  /\ answer \in StreamConfigs \cup {NoConfig}
  /\ remoteTask \in {"none", "running", "failed"}
  /\ localTask \in {"none", "running", "failed"}

\* The direction of the server's device, and that of the client's.
RemoteDirection == IF command = "receive" THEN "Input" ELSE "Output"
LocalDirection == IF command = "receive" THEN "Output" ELSE "Input"

Init ==
  /\ command \in {"receive", "send"}
  /\ local \in LocalConfigs
  /\ host \in Hosts
  /\ \E h \in Hosts, d \in Directions :
       \E i \in DOMAIN h.devices, k \in DOMAIN DeviceNames(h.devices) :
         LET device == h.devices[i]
         IN  /\ device.name # NoName
             /\ device.default[d] # NoConfig \/ device.ranges[d] # <<>>
             /\ held = [unit |-> device.unit, direction |-> d,
                        id |-> device_id(device_name(device, DeviceNames(h.devices)[k]), d)]
  /\ displaced = FALSE
  /\ stale = {}
  /\ seen = <<>>
  /\ listing = <<>>
  /\ wanted = NoRequest
  /\ step = "user"
  /\ index = 0
  /\ opened = NoDevice
  /\ answer = NoConfig
  /\ remoteTask = "none"
  /\ localTask = "none"

-----------------------------------------------------------------------------
\* A device is plugged in or out, or a default one changes.
Replug ==
  /\ step \in {"user", "input", "defaults", "devices", "asked", "found"}
  /\ host' \in Hosts \ {host}
  /\ stale' = {"seen", "listing", "index"}
  /\ UNCHANGED <<setup, displaced, seen, listing, wanted, step, index, opened, answer,
                 tasks>>

\* list-remote looks at the host's default input device and unwraps its name, does the
\* same for the default output device,
ListDefault(i, before, after) ==
  /\ step = before
  /\ step' = IF DefaultListable(host.devices, i) THEN after ELSE "panicked"
  /\ UNCHANGED <<setup, displaced, host, stale, seen, listing, wanted, index, opened,
                 answer, tasks>>

ListDefaultInput == ListDefault(host.input, "user", "input")
ListDefaultOutput == ListDefault(host.output, "input", "defaults")

\* enumerates its devices,
ListDevices ==
  /\ step = "defaults"
  /\ step' = "devices"
  /\ seen' = host.devices
  /\ stale' = stale \ {"seen"}
  /\ UNCHANGED <<setup, displaced, host, listing, wanted, index, opened, answer, tasks>>

\* and once more for the names.  It prints the devices it has got, under the names as they
\* are by now; without a name for each it panics.  (A device that is gone by then shows no
\* ranges, which leaves the user fewer texts to choose from.)
ListNames ==
  /\ step = "devices"
  /\ IF Listable(seen, host.devices)
     THEN /\ step' = "user"
          /\ listing' = Listing(seen, host.devices)
          /\ stale' = IF "seen" \in stale THEN stale ELSE stale \ {"listing"}
     ELSE /\ step' = "panicked"
          /\ UNCHANGED <<listing, stale>>
  /\ UNCHANGED <<setup, displaced, host, seen, wanted, index, opened, answer, tasks>>

\* The texts within a range as the listing shows it: both ends as text.
TextsWithin(range) ==
  [channels : {range.channels}, sample_format : {range.sample_format},
   sample_rate : {t \in TypedRates : /\ format_as_khz(range.min) <= t
                                     /\ t <= format_as_khz(range.max)}]

\* Mutant of Accepts: looks at the channels only.
AcceptsAnyFormat(direction, cfg) ==
  cfg.channels \in (IF direction = "Input" THEN {1, 2} ELSE {2})

\* What the client accepts for a device of a direction, its own or the server's.
Accepts(direction, cfg) ==
  /\ cfg.channels \in (IF direction = "Input" THEN {1, 2} ELSE {2})
  /\ cfg.sample_format \in {"f32", "i32"}

\* The user asks for a device of the listing and a configuration shown for it, or
\* leaves either to the server.  The client looks at its own device first.
Ask ==
  /\ step = "user"
  /\ \/ UNCHANGED wanted
     \/ \E i \in DOMAIN listing :
          \/ wanted' = [device |-> listing[i].name, cfg |-> NoConfig]
          \/ \E range \in listing[i].shown[RemoteDirection] : \E t \in TextsWithin(range) :
               /\ Parses(t)
               /\ wanted' = [device |-> listing[i].name, cfg |-> t]
  /\ step' = IF Accepts(LocalDirection, local) THEN "asked" ELSE "refused"
  /\ UNCHANGED <<setup, displaced, host, stale, seen, listing, index, opened, answer, tasks>>

\* The configuration the server takes from a request: the client has parsed what was
\* typed and writes it again, and the server parses that; None if it cannot.
Requested ==
  IF wanted.cfg = NoConfig \/ ~Parses(to_string(from_str(wanted.cfg))) THEN NoConfig
  ELSE from_str(to_string(from_str(wanted.cfg)))

\* get_device looks the name up in one enumeration of the host.
FindPosition ==
  /\ step = "asked"
  /\ wanted.device # NoName
  /\ index' = FirstNamed(host.devices, wanted.device)
  /\ step' = IF index' = 0 THEN "refused" ELSE "found"
  /\ stale' = stale \ {"index"}
  /\ UNCHANGED <<setup, displaced, host, seen, listing, wanted, opened, answer, tasks>>

\* The rest of the handler, up to the answer: the configuration is chosen, the device's
\* name read, and whoever is registered for the device's id removed.
Open(device) ==
  LET cfg == OpenConfig(device, RemoteDirection, Requested)
  IN  IF cfg = NoConfig \/ device.name = NoName
      THEN step' = "refused" /\ UNCHANGED <<opened, displaced>>
      ELSE /\ step' = "opened"
           /\ opened' = [device |-> device, cfg |-> cfg]
           /\ displaced' = (device_id(device_name(device, wanted.device), RemoteDirection)
                              = held.id)

\* get_device takes the device at the position from a second enumeration, and unwraps it.
OpenNamed ==
  /\ step = "found"
  /\ IF index <= Len(host.devices)
     THEN Open(host.devices[index])
     ELSE step' = "panicked" /\ UNCHANGED <<opened, displaced>>
  /\ UNCHANGED <<setup, host, stale, seen, listing, wanted, index, answer, tasks>>

\* Without a name it is the default output device, in both directions.
OpenDefault ==
  /\ step = "asked"
  /\ wanted.device = NoName
  /\ IF host.output # 0
     THEN Open(host.devices[host.output])
     ELSE step' = "refused" /\ UNCHANGED <<opened, displaced>>
  /\ UNCHANGED <<setup, host, stale, seen, listing, wanted, index, answer, tasks>>

\* What comes of a UDP task at its start: send_audio and receive_audio look at the
\* configuration first.  Of the formats that are not f32 they take one, and open the
\* device with i32 samples then, which it may have or not.
TaskOutcomes(direction, cfg) ==
  LET channels == IF direction = "Input" THEN {1, 2} ELSE {2}
      other == IF direction = "Input" THEN "i16" ELSE "u16"
  IN  IF cfg.channels \notin channels THEN {"failed"}
      ELSE CASE cfg.sample_format = "f32" -> {"running"}
             [] cfg.sample_format = other -> {"running", "failed"}
             [] OTHER -> {"failed"}

\* The server answers with the text of what it opened and starts its task, whatever
\* the client will make of the answer.
Answer ==
  /\ step = "opened"
  /\ remoteTask = "none"
  /\ remoteTask' \in TaskOutcomes(RemoteDirection, opened.cfg)
  /\ UNCHANGED <<setup, displaced, host, stale, seen, listing, wanted, step, index, opened,
                 answer, localTask>>

\* The client reads the answer, looks at the configuration and starts its own task.
ReadAnswer ==
  /\ step = "opened"
  /\ remoteTask # "none"
  /\ LET text == to_string(opened.cfg)
     IN  IF Parses(text) /\ Accepts(RemoteDirection, from_str(text))
         THEN /\ answer' = from_str(text)
              /\ step' = "streaming"
              /\ localTask' \in TaskOutcomes(LocalDirection, local)
         ELSE /\ step' = "refused"
              /\ UNCHANGED <<answer, localTask>>
  /\ UNCHANGED <<setup, displaced, host, stale, seen, listing, wanted, index, opened,
                 remoteTask>>

Next ==
  \/ Replug \/ ListDefaultInput \/ ListDefaultOutput \/ ListDevices \/ ListNames \/ Ask
  \/ FindPosition \/ OpenNamed \/ OpenDefault
  \/ Answer \/ ReadAnswer

Spec == Init /\ [][Next]_vars

-----------------------------------------------------------------------------
(***************************************************************************)
(* Safety.                                                                 *)
(***************************************************************************)

\* A device of the host bears a name that is its own, or its own with its number among
\* those who have the same.
Bears(i, name) ==
  LET plain == host.devices[i].name
  IN  /\ plain # NoName
      /\ \/ name = plain
         \/ name = Append(plain, Cardinality({j \in 1 .. i : host.devices[j].name = plain}))

\* A request that the host does not change under opens the device that bears the name it
\* asks for, or, where devices without a name stand before that one, the device as many
\* places before it as there are of those: another device, but never one that is further off.
OpenedByPosition ==
  opened # NoDevice /\ wanted.device # NoName /\ "index" \notin stale =>
    \E i \in DOMAIN host.devices :
      /\ Bears(i, wanted.device)
      /\ LET nameless == {j \in 1 .. i : host.devices[j].name = NoName}
         IN  opened.device = host.devices[i - Cardinality(nameless)]

\* The listing shows one name for two devices only where one of them is called by itself
\* what the number makes of the other's name.
NamesTellApart ==
  LET numbered == {i \in DOMAIN listing : listing[i].name # host.devices[i].name}
  IN  "listing" \notin stale =>
        \A i, j \in DOMAIN listing :
          i # j /\ listing[i].name = listing[j].name => (i \in numbered) # (j \in numbered)

\* The server panics under a listing only when a device has no name or the host has changed
\* between the enumerations of devices and of names, and under a lookup only when it has
\* changed between those of the name and of the device.
PanicsHaveCauses ==
  step = "panicked" =>
    IF index = 0
    THEN "seen" \in stale \/ \E i \in DOMAIN host.devices : host.devices[i].name = NoName
    ELSE "index" \in stale

\* A configuration that was typed is the one that is opened, but for what the text loses
\* of the rate on its two ways: never the device's default in its stead.
TypedIsOpened ==
  opened # NoDevice /\ wanted.cfg # NoConfig =>
    /\ opened.cfg.channels = wanted.cfg.channels
    /\ opened.cfg.sample_format = wanted.cfg.sample_format
    /\ opened.cfg.sample_rate - wanted.cfg.sample_rate \in -7 .. 5
    /\ wanted.cfg.sample_rate % 1000 = 0 =>
         opened.cfg.sample_rate = wanted.cfg.sample_rate

\* A client that streams has read in the answer what the server has opened, but for
\* what the text loses of the rate.
AnswerTellsDevice ==
  step = "streaming" =>
    /\ answer.channels = opened.cfg.channels
    /\ answer.sample_format = opened.cfg.sample_format
    /\ Near(opened.cfg.sample_rate, answer.sample_rate)

\* The samples of a datagram are f32 and its frames two slots: where both tasks run for
\* a client that streams, neither end has its device open with other samples.
RunningStreamsAreF32 ==
  step = "streaming" /\ remoteTask = "running" /\ localTask = "running" =>
    opened.cfg.sample_format = "f32" /\ local.sample_format = "f32"

\* Whoever holds a device in a direction makes way for a request that opens it, even
\* where its name in the listing has changed since.
HolderMakesWay ==
  opened # NoDevice /\ opened.device.unit = held.unit
    /\ held.direction = RemoteDirection => displaced

\* "A sample format of f32 or i32." (client.rs, of the devices that can be used): when
\* both ends have accepted each other, both tasks run.
AcceptedStreamsRun ==
  step = "streaming" /\ remoteTask # "none" =>
    remoteTask = "running" /\ localTask = "running"
=============================================================================

---------------------------- MODULE DeviceSelect ----------------------------
(***************************************************************************)
(* How a device is named, listed, looked up and identified:                *)
(* src/src/audio_caps.rs and device_id() of src/src/device_config.rs.      *)
(*                                                                         *)
(* A name is a sequence: <<"Mic">> is a device called "Mic",               *)
(* <<"Mic", 2>> the string "Mic #2", whether the device is called that or  *)
(* make_strings_unique has made it up.                                     *)
(*                                                                         *)
(* A device is a record: unit says which piece of hardware it is, name is  *)
(* its plain name (NoName when the host cannot tell), ranges and default   *)
(* are what it offers per direction.  A host is the sequence of its        *)
(* devices and the positions of its default input and output device, 0     *)
(* when it has none.                                                       *)
(***************************************************************************)
EXTENDS Integers, Sequences, FiniteSets

CONSTANTS
  NoName,    \* Device::name() fails
  NoConfig,  \* no configuration: None
  NoDevice   \* no device: None, or an error

Directions == {"Input", "Output"}

\* What the names, ranges and defaults of a device are, with Configs the configurations
\* and Rates the rates there are.
IsDevice(device, Configs, Rates) ==
  /\ device.name # NoName => /\ Len(device.name) \in Nat
                             /\ DOMAIN device.name = 1 .. Len(device.name)
                             /\ device.name = [k \in DOMAIN device.name |-> device.name[k]]
  /\ \A d \in Directions :
       /\ device.default[d] \in Configs \cup {NoConfig}
       /\ \A i \in DOMAIN device.ranges[d] :
            LET range == device.ranges[d][i]
            IN  /\ range.min \in Rates /\ range.max \in Rates
                /\ [channels |-> range.channels, sample_rate |-> range.min,
                    sample_format |-> range.sample_format] \in Configs

-----------------------------------------------------------------------------
\* Mutant of make_strings_unique: numbers by the count of all equal strings.
make_strings_unique_same(strings) ==
  [i \in DOMAIN strings |->
     LET equal == {j \in DOMAIN strings : strings[j] = strings[i]}
     IN  IF Cardinality(equal) > 1 THEN Append(strings[i], Cardinality(equal))
         ELSE strings[i]]

\* A string that occurs more than once gets the number of its occurrence.
make_strings_unique(strings) ==
  [i \in DOMAIN strings |->
     LET equal == {j \in DOMAIN strings : strings[j] = strings[i]}
     IN  IF Cardinality(equal) > 1
         THEN Append(strings[i], Cardinality({j \in equal : j <= i}))
         ELSE strings[i]]

\* The positions of the devices that have a name.
Named(devices) == {i \in DOMAIN devices : devices[i].name # NoName}

\* Their plain names, in the order of the devices.
PlainNames(devices) ==
  LET named == Named(devices)
  IN  [k \in 1 .. Cardinality(named) |->
         devices[CHOOSE i \in named : Cardinality({j \in named : j <= i}) = k].name]

\* The names by which the devices are asked for.
DeviceNames(devices) == make_strings_unique(PlainNames(devices))

\* Mutant of FirstNamed: -1 for none.
FirstNamedOrMinusOne(devices, name) ==
  LET names == DeviceNames(devices)
      found == {i \in DOMAIN names : names[i] = name}
  IN  IF found = {} THEN -1 ELSE CHOOSE i \in found : \A j \in found : i <= j

\* Mutant of FirstNamed: one beyond.
SecondNamed(devices, name) ==
  LET names == DeviceNames(devices)
      found == {i \in DOMAIN names : names[i] = name}
  IN  IF found = {} THEN 0 ELSE 1 + CHOOSE i \in found : \A j \in found : i <= j

\* The position of the first of the names that is the one asked for, 0 for none.
FirstNamed(devices, name) ==
  LET names == DeviceNames(devices)
      found == {i \in DOMAIN names : names[i] = name}
  IN  IF found = {} THEN 0 ELSE CHOOSE i \in found : \A j \in found : i <= j

-----------------------------------------------------------------------------
Within(cfg, range) ==
  /\ range.min <= cfg.sample_rate /\ cfg.sample_rate <= range.max
  /\ range.channels = cfg.channels
  /\ range.sample_format = cfg.sample_format

\* Mutant of OpenConfig: falls back on the default configuration.
OpenConfigOrDefault(device, direction, cfg) ==
  IF /\ cfg # NoConfig
     /\ \E i \in DOMAIN device.ranges[direction] : Within(cfg, device.ranges[direction][i])
  THEN cfg
  ELSE device.default[direction]

\* The configuration a device is to be opened with: the one asked for when a range of
\* the device has it, the device's default when none is asked for, else an error.
OpenConfig(device, direction, cfg) ==
  IF cfg = NoConfig THEN device.default[direction]
  ELSE IF \E i \in DOMAIN device.ranges[direction] :
            Within(cfg, device.ranges[direction][i])
       THEN cfg
       ELSE NoConfig

\* Mutant of device_name: the name the device was asked for by.
device_name_as_asked(device, asked) == asked

\* The name in a DeviceConfig is the device's plain one, whatever name it was asked for
\* by.
device_name(device, asked) == device.name

\* The id under which a device's connection is registered.
device_id(name, direction) == <<name, direction>>

-----------------------------------------------------------------------------
\* The ranges of a device that the listing shows for a direction.
Offered(range, direction) ==
  /\ range.channels \in (IF direction = "Input" THEN {1, 2} ELSE {2})
  /\ range.sample_format \in {"f32", "i32"}

\* The listing unwraps the name of a default device, if there is one.
DefaultListable(devices, i) == i = 0 \/ devices[i].name # NoName

\* Mutant of Listable: wants a name too many.
ListableWithOneMore(devices, now) == Len(devices) < Cardinality(Named(now))

\* The listing takes the name at the position of every device it has got, from a second
\* enumeration: there must be one.
Listable(devices, now) == Len(devices) <= Cardinality(Named(now))

\* The lines of the listing: a name and the ranges shown under it.  The ranges are asked of
\* the devices of the first enumeration, the names are those of the second.
Listing(devices, now) ==
  [i \in DOMAIN devices |->
     LET ranges == devices[i].ranges
     IN  [name |-> DeviceNames(now)[i],
          unit |-> devices[i].unit,
          shown |-> [d \in Directions |->
                       {ranges[d][j] : j \in {j \in DOMAIN ranges[d] :
                                                Offered(ranges[d][j], d)}}]]]
=============================================================================

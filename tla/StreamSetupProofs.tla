------------------------ MODULE StreamSetupProofs ------------------------
(***************************************************************************)
(* What a request for a stream gets, for any audio hosts, configurations   *)
(* and typed rates: proofs of StreamSetup's safety properties.             *)
(***************************************************************************)
EXTENDS StreamSetup, StreamConfigTextProofs, FiniteSetTheorems, SequenceTheorems,
        WellFoundedInduction

-----------------------------------------------------------------------------
(***************************************************************************)
(* Texts of configurations.                                                *)
(***************************************************************************)

\* What a device may have is a configuration, with one of the rates.
LEMMA DeviceConfigsAreConfigs ==
  ASSUME NEW cfg \in DeviceConfigs
  PROVE  cfg \in StreamConfigs /\ cfg.sample_rate \in MinRate .. MaxRate
<1>1. \A r \in MinRate .. MaxRate : r \in Nat
  BY RateRange
<1> QED
  BY <1>1 DEF DeviceConfigs, StreamConfigs

\* A configuration through one text.
LEMMA ConfigThroughText ==
  ASSUME NEW cfg \in StreamConfigs
  PROVE  /\ from_str(to_string(cfg)) = [cfg EXCEPT !.sample_rate = ThroughText(cfg.sample_rate)]
         /\ from_str(to_string(cfg)).channels = cfg.channels
         /\ from_str(to_string(cfg)).sample_format = cfg.sample_format
         /\ from_str(to_string(cfg)).sample_rate = ThroughText(cfg.sample_rate)
BY Zenon DEF StreamConfigs, from_str, to_string, ThroughText

\* A typed configuration through its two texts.
LEMMA TypedThroughText ==
  ASSUME NEW cfg \in StreamConfigs, MinRate < cfg.sample_rate, cfg.sample_rate <= MaxRate
  PROVE  LET read == from_str(to_string(from_str(cfg)))
         IN  /\ read \in StreamConfigs
             /\ read.channels = cfg.channels
             /\ read.sample_format = cfg.sample_format
             /\ read.sample_rate - cfg.sample_rate \in -7 .. 5
             /\ cfg.sample_rate % 1000 = 0 => read.sample_rate = cfg.sample_rate
<1> DEFINE rate == cfg.sample_rate
           twice == ThroughText(parse_khz(rate))
           read == from_str(to_string(from_str(cfg)))
<1>1. rate \in Nat /\ cfg.channels \in Nat /\ cfg.sample_format \in SampleFormats
  BY DEF StreamConfigs
<1>2. read = [cfg EXCEPT !.sample_rate = twice]
  BY Zenon DEF StreamConfigs, from_str, to_string, ThroughText
<1>3. read = [channels |-> cfg.channels, sample_rate |-> twice,
              sample_format |-> cfg.sample_format]
  BY <1>2 DEF StreamConfigs
<1>4. twice - rate \in -7 .. 5 /\ twice \in Nat
  BY <1>1, TypedRateSurvives
<1>5. rate % 1000 = 0 => twice = rate
  <2>1. rate \in MinRate .. MaxRate
    BY <1>1, RateAbove
  <2> QED
    BY <2>1, WholeKhzSurvives
<1> HIDE DEF twice, rate
<1>6. read \in StreamConfigs
  BY <1>1, <1>3, <1>4 DEF StreamConfigs
<1> QED
  BY <1>3, <1>4, <1>5, <1>6 DEF rate

-----------------------------------------------------------------------------
(***************************************************************************)
(* Hosts, names and lookups.                                               *)
(***************************************************************************)

\* A host is a sequence of devices, and its default devices, if any, are among them.
LEMMA HostHas ==
  ASSUME NEW h \in Hosts
  PROVE  /\ Len(h.devices) \in Nat /\ DOMAIN h.devices = 1 .. Len(h.devices)
         /\ h.input \in 0 .. Len(h.devices) /\ h.output \in 0 .. Len(h.devices)
         /\ \A i \in DOMAIN h.devices :
              IsDevice(h.devices[i], DeviceConfigs, MinRate .. MaxRate)
BY SetupAssumption

\* Every device has a name.
AllNamed(devices) == Named(devices) = DOMAIN devices

\* There is one name for every device that has one, and never more than devices.
LEMMA NamesCount ==
  ASSUME NEW h \in Hosts
  PROVE  LET n == Cardinality(Named(h.devices))
         IN  /\ DOMAIN PlainNames(h.devices) = 1 .. n
             /\ DOMAIN DeviceNames(h.devices) = 1 .. n
             /\ n \in Nat /\ n <= Len(h.devices)
             /\ AllNamed(h.devices) => n = Len(h.devices)
             /\ n = Len(h.devices) => AllNamed(h.devices)
<1> DEFINE l == Len(h.devices)
           named == Named(h.devices)
<1>1. l \in Nat /\ DOMAIN h.devices = 1 .. l
  BY HostHas
<1>2. IsFiniteSet(1 .. l) /\ Cardinality(1 .. l) = l
  BY <1>1, FS_Interval, SMT
<1>3. named \in SUBSET (1 .. l)
  BY <1>1 DEF Named
<1>4. IsFiniteSet(named) /\ Cardinality(named) <= l
  BY <1>2, <1>3, FS_Subset
<1>5. Cardinality(named) \in Nat
  BY <1>4, FS_CardinalityType
<1>6. AllNamed(h.devices) => Cardinality(named) = l
  BY <1>1, <1>2 DEF AllNamed
<1>7. Cardinality(named) = l => AllNamed(h.devices)
  <2>1. Cardinality(named) = l => named = 1 .. l
    BY <1>2, <1>3, FS_Subset
  <2> QED
    BY <1>1, <2>1 DEF AllNamed
<1> QED
  BY <1>4, <1>5, <1>6, <1>7 DEF PlainNames, DeviceNames, make_strings_unique

\* A host whose own names are enough for its devices has a name for every one.
LEMMA ListableIsAllNamed ==
  ASSUME NEW h \in Hosts, Listable(h.devices, h.devices)
  PROVE  AllNamed(h.devices)
<1> DEFINE n == Cardinality(Named(h.devices))
           l == Len(h.devices)
<1>1. n \in Nat /\ n <= l /\ l \in Nat /\ l <= n
  BY HostHas, NamesCount DEF Listable
<1>2. n = l => AllNamed(h.devices)
  BY NamesCount
<1> HIDE DEF n, l
<1> QED
  BY <1>1, <1>2, SMT

\* A set of naturals that has an element has a least one.
LEMMA LeastExists ==
  ASSUME NEW S \in SUBSET Nat, S # {}
  PROVE  \E i \in S : \A j \in S : i <= j
<1> DEFINE R == OpToRel(<, Nat)
<1>1. IsWellFoundedOn(R, Nat)
  BY NatLessThanWellFounded, Zenon
<1>2. \A i, j \in Nat : i < j => <<i, j>> \in R
  BY Zenon DEF OpToRel
<1> HIDE DEF R
<1>3. PICK i \in S : \A j \in S : ~ (<<j, i>> \in R)
  BY <1>1, WFMin
<1>4. \A j \in S : ~ (j < i)
  BY <1>2, <1>3
<1> QED
  BY <1>4, SMT

\* The lookup finds the first of the names that is the one asked for.
LEMMA FirstNamedIs ==
  ASSUME NEW h \in Hosts, NEW name
  PROVE  LET names == DeviceNames(h.devices)
             found == FirstNamed(h.devices, name)
         IN  /\ found \in Nat
             /\ found # 0 => /\ found \in DOMAIN names
                             /\ names[found] = name
                             /\ \A j \in DOMAIN names : names[j] = name => found <= j
<1> DEFINE names == DeviceNames(h.devices)
           found == {i \in DOMAIN names : names[i] = name}
<1>1. DOMAIN names = 1 .. Cardinality(Named(h.devices)) /\ Cardinality(Named(h.devices)) \in Nat
  BY NamesCount
<1>2. found \in SUBSET Nat
  BY <1>1, SMT
<1>3. CASE found = {}
  <2>1. FirstNamed(h.devices, name) = 0
    BY <1>3 DEF FirstNamed
  <2> QED
    BY <2>1
<1>4. CASE found # {}
  <2>1. \E i \in found : \A j \in found : i <= j
    BY <1>2, <1>4, LeastExists
  <2>2. FirstNamed(h.devices, name) = CHOOSE i \in found : \A j \in found : i <= j
    BY <1>4 DEF FirstNamed
  <2>3. /\ FirstNamed(h.devices, name) \in found
        /\ \A j \in found : FirstNamed(h.devices, name) <= j
    BY <2>1, <2>2
  <2> QED
    BY <1>2, <2>3
<1> QED
  BY <1>3, <1>4

\* A found position is one of a device.
LEMMA FirstNamedFits ==
  ASSUME NEW h \in Hosts, NEW name, FirstNamed(h.devices, name) # 0
  PROVE  /\ FirstNamed(h.devices, name) \in DOMAIN h.devices
         /\ FirstNamed(h.devices, name) <= Len(h.devices)
<1> DEFINE n == Cardinality(Named(h.devices))
<1>1. n \in Nat /\ n <= Len(h.devices) /\ FirstNamed(h.devices, name) \in 1 .. n
  BY NamesCount, FirstNamedIs
<1>2. Len(h.devices) \in Nat /\ DOMAIN h.devices = 1 .. Len(h.devices)
  BY HostHas
<1> HIDE DEF n
<1> QED
  BY <1>1, <1>2, SMT

\* What a device is opened with is one of the configurations a device may have, and the
\* one asked for, if one is.
LEMMA OpenConfigIs ==
  ASSUME NEW device, IsDevice(device, DeviceConfigs, MinRate .. MaxRate),
         NEW direction \in Directions, NEW cfg \in StreamConfigs \cup {NoConfig},
         OpenConfig(device, direction, cfg) # NoConfig
  PROVE  /\ OpenConfig(device, direction, cfg) \in DeviceConfigs
         /\ cfg # NoConfig => OpenConfig(device, direction, cfg) = cfg
<1>1. CASE cfg = NoConfig
  BY <1>1 DEF OpenConfig, IsDevice
<1>2. CASE cfg # NoConfig
  <2>1. PICK i \in DOMAIN device.ranges[direction] : Within(cfg, device.ranges[direction][i])
    BY <1>2 DEF OpenConfig
  <2>2. OpenConfig(device, direction, cfg) = cfg
    BY <1>2, <2>1 DEF OpenConfig
  <2> DEFINE range == device.ranges[direction][i]
  <2>3. range.min \in MinRate .. MaxRate /\ range.max \in MinRate .. MaxRate
    BY DEF IsDevice
  <2>4. range.min <= cfg.sample_rate /\ cfg.sample_rate <= range.max
    BY <2>1 DEF Within
  <2>5. cfg \in StreamConfigs /\ cfg.sample_rate \in Nat
    BY <1>2 DEF StreamConfigs
  <2> HIDE DEF range
  <2>6. /\ range.min \in Nat /\ 1000 <= range.min
        /\ range.max \in Nat /\ range.max < 512000
    BY <2>3, RateRange
  <2>7. 1000 <= cfg.sample_rate /\ cfg.sample_rate < 512000
    BY <2>4, <2>5, <2>6, SMT
  <2>8. cfg.sample_rate \in MinRate .. MaxRate
    BY <2>5, <2>7, RateRange
  <2>9. cfg \in DeviceConfigs
    BY <2>5, <2>8 DEF StreamConfigs, DeviceConfigs
  <2> QED
    BY <2>2, <2>9
<1> QED
  BY <1>1, <1>2

-----------------------------------------------------------------------------
(***************************************************************************)
(* The inductive invariant.                                                *)
(***************************************************************************)

\* A request is made once, and nothing is looked up, opened or started before it is.
RequestInOrder ==
  /\ step \in {"user", "input", "defaults", "devices"} => wanted = NoRequest
  /\ step \in {"user", "input", "defaults", "devices", "asked"} => index = 0
  /\ step \in {"user", "input", "defaults", "devices", "asked", "found"} =>
       opened = NoDevice /\ remoteTask = "none"
  /\ step # "streaming" => localTask = "none"

\* The devices that a listing has got are a host's, and if not stale, those of the host now;
\* they go stale together with the last listing.
SeenIsHosts ==
  /\ step = "devices" =>
       /\ \E h \in Hosts : seen = h.devices
       /\ "seen" \notin stale => seen = host.devices
  /\ "seen" \in stale => "listing" \in stale

\* A listing that is not stale is the one the host would give now.
ListingIsHosts ==
  "listing" \notin stale /\ listing # <<>> =>
    AllNamed(host.devices) /\ listing = Listing(host.devices, host.devices)

\* Every line of a listing, a stale one too, is about a device and what it has.
ListingIsTyped ==
  \A i \in DOMAIN listing :
    /\ listing[i].unit \in Units
    /\ \A d \in Directions : \A range \in listing[i].shown[d] :
         range.channels \in Nat /\ range.sample_format \in SampleFormats

\* What is asked for has been shown.
WantedIsShown ==
  /\ wanted.device # NoName => listing # <<>>
  /\ wanted.cfg # NoConfig =>
       /\ MinRate < wanted.cfg.sample_rate /\ wanted.cfg.sample_rate <= MaxRate
       /\ Parses(wanted.cfg)

\* A position that is not stale is the one the host would give now.
IndexIsHosts ==
  step = "found" =>
    /\ wanted.device # NoName /\ index # 0
    /\ "index" \notin stale => index = FirstNamed(host.devices, wanted.device)

\* A device has been opened with the configuration that its host's devices and the request
\* call for, and the holder of its id is gone.
OpenedAsAsked ==
  opened # NoDevice \/ step \in {"opened", "streaming"} =>
    /\ \E h \in Hosts : \E i \in DOMAIN h.devices : opened.device = h.devices[i]
    /\ opened.device.name # NoName
    /\ opened.cfg = OpenConfig(opened.device, RemoteDirection, Requested)
    /\ opened.cfg # NoConfig
    /\ displaced = (device_id(opened.device.name, RemoteDirection) = held.id)

\* The device that has been opened for a name is the one at the position of the name, which
\* if not stale is the one the lookup would find now.
OpenedWasFound ==
  opened # NoDevice /\ wanted.device # NoName =>
    /\ index \in DOMAIN host.devices
    /\ opened.device = host.devices[index]
    /\ "index" \notin stale => index = FirstNamed(host.devices, wanted.device)

\* The stream that may have to make way is registered under its device's id.
HeldHasId ==
  \E h \in Hosts : \E i \in DOMAIN h.devices :
    /\ held.unit = h.devices[i].unit
    /\ held.id = device_id(h.devices[i].name, held.direction)

\* Both ends have accepted what they know of each other, and their tasks do what they do
\* with the configurations they were given.
EndsAccept ==
  /\ step \in {"asked", "found", "opened", "streaming"} => Accepts(LocalDirection, local)
  /\ step = "streaming" => /\ answer = from_str(to_string(opened.cfg))
                           /\ Accepts(RemoteDirection, answer)
  /\ remoteTask # "none" => remoteTask \in TaskOutcomes(RemoteDirection, opened.cfg)
  /\ localTask # "none" => localTask \in TaskOutcomes(LocalDirection, local)

Inv ==
  /\ TypeOK
  /\ RequestInOrder
  /\ SeenIsHosts
  /\ ListingIsHosts
  /\ ListingIsTyped
  /\ WantedIsShown
  /\ IndexIsHosts
  /\ OpenedAsAsked
  /\ OpenedWasFound
  /\ HeldHasId
  /\ EndsAccept
  /\ PanicsHaveCauses

-----------------------------------------------------------------------------
(***************************************************************************)
(* What the invariant says of a request.                                   *)
(***************************************************************************)

\* A request that was typed asks the server for what was typed, as its texts have it.
LEMMA RequestedIs ==
  ASSUME TypeOK, WantedIsShown
  PROVE  /\ Requested \in StreamConfigs \cup {NoConfig}
         /\ wanted.cfg # NoConfig => /\ Requested # NoConfig
                                     /\ Requested = from_str(to_string(from_str(wanted.cfg)))
<1>1. CASE wanted.cfg = NoConfig
  BY <1>1 DEF Requested
<1>2. CASE wanted.cfg # NoConfig
  <2> DEFINE read == from_str(to_string(from_str(wanted.cfg)))
  <2>1. wanted.cfg \in StreamConfigs
    BY <1>2 DEF TypeOK
  <2>2. read \in StreamConfigs
    BY <1>2, <2>1, TypedThroughText DEF WantedIsShown
  <2>3. to_string(from_str(wanted.cfg)).sample_format = wanted.cfg.sample_format
    BY <2>1, Zenon DEF StreamConfigs, to_string, from_str
  <2>4. Parses(to_string(from_str(wanted.cfg)))
    BY <1>2, <2>3 DEF WantedIsShown, Parses
  <2>5. Requested = read
    BY <1>2, <2>4 DEF Requested
  <2> QED
    BY <2>2, <2>5, SetupAssumption
<1> QED
  BY <1>1, <1>2

\* The direction of the server's device is one.
LEMMA RemoteDirectionIs ==
  RemoteDirection \in Directions
BY DEF RemoteDirection, Directions

\* The configuration that is opened is one a device may have, and the one that was asked
\* for, if one was.
LEMMA OpenedConfigIs ==
  ASSUME TypeOK, WantedIsShown, OpenedAsAsked,
         opened # NoDevice \/ step \in {"opened", "streaming"}
  PROVE  /\ opened.cfg \in DeviceConfigs
         /\ opened.cfg \in StreamConfigs
         /\ wanted.cfg # NoConfig => opened.cfg = Requested
<1>1. PICK h \in Hosts : \E i \in DOMAIN h.devices : opened.device = h.devices[i]
  BY DEF OpenedAsAsked
<1>2. IsDevice(opened.device, DeviceConfigs, MinRate .. MaxRate)
  BY <1>1, HostHas
<1>3. opened.cfg = OpenConfig(opened.device, RemoteDirection, Requested) /\ opened.cfg # NoConfig
  BY DEF OpenedAsAsked
<1>4. /\ opened.cfg \in DeviceConfigs
      /\ Requested # NoConfig => opened.cfg = Requested
  BY <1>2, <1>3, RemoteDirectionIs, RequestedIs, OpenConfigIs
<1> QED
  BY <1>4, RequestedIs, DeviceConfigsAreConfigs

-----------------------------------------------------------------------------
(***************************************************************************)
(* The invariant is kept, action by action.                                *)
(***************************************************************************)

\* Before the request there is nothing that could be wrong.
LEMMA InitInv ==
  ASSUME Init
  PROVE  Inv
<1>1. HeldHasId
  BY DEF Init, HeldHasId, device_name
<1>2. TypeOK
  <2>1. held.unit \in Units /\ held.direction \in Directions
    BY DEF Init, Units
  <2>2. /\ local \in LocalConfigs /\ host \in Hosts
        /\ \A i \in DOMAIN listing : listing[i].unit \in Units
        /\ wanted.cfg = NoConfig /\ answer = NoConfig
    BY DEF Init, NoRequest
  <2> QED
    BY <2>1, <2>2 DEF Init, TypeOK
<1>3. RequestInOrder /\ SeenIsHosts /\ ListingIsHosts /\ ListingIsTyped /\ WantedIsShown
  BY DEF Init, NoRequest, RequestInOrder, SeenIsHosts, ListingIsHosts, ListingIsTyped,
         WantedIsShown
<1>4. IndexIsHosts /\ OpenedAsAsked /\ OpenedWasFound /\ EndsAccept /\ PanicsHaveCauses
  BY DEF Init, NoRequest, IndexIsHosts, OpenedAsAsked, OpenedWasFound, EndsAccept,
         PanicsHaveCauses
<1> QED
  BY <1>1, <1>2, <1>3, <1>4 DEF Inv

\* The invariant looks at the state only through the variables.
LEMMA StutterInv ==
  ASSUME Inv, UNCHANGED vars
  PROVE  Inv'
BY DEF Inv, vars, setup, tasks, TypeOK, RequestInOrder, SeenIsHosts, ListingIsHosts, ListingIsTyped,
       WantedIsShown, IndexIsHosts, OpenedAsAsked, OpenedWasFound, HeldHasId, EndsAccept,
       PanicsHaveCauses, RemoteDirection, LocalDirection, Requested

\* A change of the host makes stale what was read off it.
LEMMA ReplugInv ==
  ASSUME Inv, Replug
  PROVE  Inv'
<1> USE DEF Inv, Replug, setup, tasks
<1>1. TypeOK' /\ HeldHasId'
  BY DEF TypeOK, HeldHasId
<1>2. RequestInOrder' /\ SeenIsHosts' /\ ListingIsHosts' /\ ListingIsTyped' /\ WantedIsShown'
  BY DEF RequestInOrder, SeenIsHosts, ListingIsHosts, ListingIsTyped, WantedIsShown
<1>3. IndexIsHosts' /\ OpenedAsAsked' /\ OpenedWasFound'
  BY DEF RequestInOrder, IndexIsHosts, OpenedAsAsked, OpenedWasFound
<1>4. EndsAccept' /\ PanicsHaveCauses'
  BY DEF EndsAccept, PanicsHaveCauses, LocalDirection, RemoteDirection
<1> QED
  BY <1>1, <1>2, <1>3, <1>4

\* What a listing shows of the ranges is about the devices of its first enumeration, and the
\* names are those of the second.
LEMMA ListingOf ==
  ASSUME NEW h \in Hosts, NEW now, NEW i \in DOMAIN h.devices
  PROVE  /\ Listing(h.devices, now)[i].unit = h.devices[i].unit
         /\ Listing(h.devices, now)[i].name = DeviceNames(now)[i]
         /\ \A d \in Directions : \A range \in Listing(h.devices, now)[i].shown[d] :
              range.channels \in Nat /\ range.sample_format \in SampleFormats
<1>1. IsDevice(h.devices[i], DeviceConfigs, MinRate .. MaxRate)
  BY HostHas
<1>2. ASSUME NEW d \in Directions, NEW range \in Listing(h.devices, now)[i].shown[d]
      PROVE  range.channels \in Nat /\ range.sample_format \in SampleFormats
  <2>1. \E j \in DOMAIN h.devices[i].ranges[d] : range = h.devices[i].ranges[d][j]
    BY <1>2 DEF Listing
  <2>2. [channels |-> range.channels, sample_rate |-> range.min,
         sample_format |-> range.sample_format] \in DeviceConfigs
    BY <1>1, <1>2, <2>1 DEF IsDevice
  <2> QED
    BY <2>2 DEF DeviceConfigs
<1> QED
  BY <1>2 DEF Listing

\* A default device without a name is a device of the host.
LEMMA ListDefaultInv ==
  ASSUME Inv, NEW p \in {host.input, host.output}, NEW before, NEW after,
         <<before, after>> \in {<<"user", "input">>, <<"input", "defaults">>},
         ListDefault(p, before, after)
  PROVE  Inv'
<1> USE DEF Inv, ListDefault, setup, tasks
<1>1. host \in Hosts /\ index = 0 /\ step' \in {"input", "defaults", "panicked"}
  BY DEF TypeOK, RequestInOrder
<1>2. step' = "panicked" => \E i \in DOMAIN host.devices : host.devices[i].name = NoName
  <2> HAVE step' = "panicked"
  <2>1. p # 0 /\ host.devices[p].name = NoName
    BY <1>1 DEF DefaultListable
  <2>2. /\ Len(host.devices) \in Nat /\ DOMAIN host.devices = 1 .. Len(host.devices)
        /\ p \in 0 .. Len(host.devices)
    BY <1>1, HostHas
  <2>3. p \in DOMAIN host.devices
    BY <2>1, <2>2, SMT
  <2> QED
    BY <2>1, <2>3
<1>3. TypeOK' /\ HeldHasId'
  BY <1>1 DEF TypeOK, HeldHasId
<1>4. RequestInOrder' /\ SeenIsHosts' /\ ListingIsHosts' /\ ListingIsTyped' /\ WantedIsShown'
  BY <1>1 DEF RequestInOrder, SeenIsHosts, ListingIsHosts, ListingIsTyped, WantedIsShown
<1>5. IndexIsHosts' /\ OpenedAsAsked' /\ OpenedWasFound'
  BY <1>1 DEF RequestInOrder, IndexIsHosts, OpenedAsAsked, OpenedWasFound
<1>6. EndsAccept' /\ PanicsHaveCauses'
  BY <1>1, <1>2 DEF EndsAccept, PanicsHaveCauses, LocalDirection, RemoteDirection
<1> QED
  BY <1>3, <1>4, <1>5, <1>6

\* What the first enumeration gets is the host as it is.
LEMMA ListDevicesInv ==
  ASSUME Inv, ListDevices
  PROVE  Inv'
<1> USE DEF Inv, ListDevices, setup, tasks
<1>1. host \in Hosts /\ stale' \subseteq stale
  BY DEF TypeOK
<1>2. TypeOK' /\ HeldHasId'
  BY <1>1 DEF TypeOK, HeldHasId
<1>3. RequestInOrder' /\ SeenIsHosts' /\ ListingIsHosts' /\ ListingIsTyped' /\ WantedIsShown'
  BY <1>1 DEF RequestInOrder, SeenIsHosts, ListingIsHosts, ListingIsTyped, WantedIsShown
<1>4. IndexIsHosts' /\ OpenedAsAsked' /\ OpenedWasFound'
  BY DEF RequestInOrder, IndexIsHosts, OpenedAsAsked, OpenedWasFound
<1>5. EndsAccept' /\ PanicsHaveCauses'
  BY DEF EndsAccept, PanicsHaveCauses, LocalDirection, RemoteDirection
<1> QED
  BY <1>2, <1>3, <1>4, <1>5

\* A listing of a host that has not changed shows it as it is; one that panics has met a
\* nameless device or a change.
LEMMA ListNamesInv ==
  ASSUME Inv, ListNames
  PROVE  Inv'
<1> USE DEF Inv, setup, tasks
<1>1. /\ step = "devices" /\ step' \in {"user", "panicked"}
      /\ UNCHANGED <<setup, displaced, host, seen, wanted, index, opened, answer, tasks>>
  BY DEF ListNames
<1>2. host \in Hosts /\ wanted = NoRequest /\ index = 0 /\ opened = NoDevice
      /\ remoteTask = "none" /\ localTask = "none"
  BY <1>1 DEF TypeOK, RequestInOrder
<1>3. PICK h \in Hosts : seen = h.devices
  BY <1>1 DEF SeenIsHosts
<1>4. CASE Listable(seen, host.devices)
  <2>1. /\ step' = "user" /\ listing' = Listing(seen, host.devices)
        /\ stale' = IF "seen" \in stale THEN stale ELSE stale \ {"listing"}
    BY <1>4 DEF ListNames
  <2>2. DOMAIN listing' = DOMAIN h.devices
    BY <1>3, <2>1 DEF Listing
  <2>3. ListingIsTyped'
    <3>1. \A i \in DOMAIN h.devices : h.devices[i].unit \in Units
      BY DEF Units
    <3>2. listing' = Listing(h.devices, host.devices)
      BY <1>3, <2>1
    <3>3. \A i \in DOMAIN h.devices :
            /\ listing'[i].unit = h.devices[i].unit
            /\ \A d \in Directions : \A range \in listing'[i].shown[d] :
                 range.channels \in Nat /\ range.sample_format \in SampleFormats
      BY <3>2, ListingOf
    <3> QED
      BY <2>2, <3>1, <3>3 DEF ListingIsTyped
  <2>4. ListingIsHosts'
    <3> SUFFICES ASSUME "listing" \notin stale'
                 PROVE  AllNamed(host.devices) /\ listing' = Listing(host.devices, host.devices)
      BY <1>1 DEF ListingIsHosts
    <3>1. CASE "seen" \notin stale
      BY <1>1, <1>2, <1>4, <2>1, <3>1, ListableIsAllNamed DEF SeenIsHosts
    <3>2. CASE "seen" \in stale
      BY <2>1, <3>2 DEF SeenIsHosts
    <3> QED
      BY <3>1, <3>2
  <2>5. TypeOK'
    BY <1>1, <2>1, <2>3 DEF TypeOK, ListingIsTyped
  <2>6. HeldHasId'
    BY <1>1 DEF HeldHasId
  <2>7. RequestInOrder' /\ SeenIsHosts' /\ WantedIsShown'
    BY <1>1, <1>2, <2>1 DEF RequestInOrder, SeenIsHosts, WantedIsShown, NoRequest
  <2>8. IndexIsHosts' /\ OpenedAsAsked' /\ OpenedWasFound'
    BY <1>1, <1>2, <2>1 DEF IndexIsHosts, OpenedAsAsked, OpenedWasFound
  <2>9. EndsAccept' /\ PanicsHaveCauses'
    BY <1>1, <1>2, <2>1 DEF EndsAccept, PanicsHaveCauses, LocalDirection, RemoteDirection
  <2> QED
    BY <2>3, <2>4, <2>5, <2>6, <2>7, <2>8, <2>9
<1>5. CASE ~Listable(seen, host.devices)
  <2>1. step' = "panicked" /\ UNCHANGED <<listing, stale>>
    BY <1>5 DEF ListNames
  <2>2. "seen" \in stale \/ \E i \in DOMAIN host.devices : host.devices[i].name = NoName
    <3> SUFFICES ASSUME "seen" \notin stale
                 PROVE  ~AllNamed(host.devices)
      BY DEF AllNamed, Named
    <3>1. ~(Len(host.devices) <= Cardinality(Named(host.devices)))
      BY <1>1, <1>5 DEF SeenIsHosts, Listable
    <3>2. Len(host.devices) \in Nat
      BY <1>2, HostHas
    <3>3. AllNamed(host.devices) => Cardinality(Named(host.devices)) = Len(host.devices)
      BY <1>2, NamesCount
    <3> QED
      BY <3>1, <3>2, <3>3, SMT
  <2>3. TypeOK' /\ HeldHasId'
    BY <1>1, <2>1 DEF TypeOK, HeldHasId
  <2>4. RequestInOrder' /\ SeenIsHosts' /\ ListingIsHosts' /\ ListingIsTyped' /\ WantedIsShown'
    BY <1>1, <1>2, <2>1 DEF RequestInOrder, SeenIsHosts, ListingIsHosts, ListingIsTyped,
                            WantedIsShown
  <2>5. IndexIsHosts' /\ OpenedAsAsked' /\ OpenedWasFound'
    BY <1>1, <1>2, <2>1 DEF IndexIsHosts, OpenedAsAsked, OpenedWasFound
  <2>6. EndsAccept' /\ PanicsHaveCauses'
    BY <1>1, <1>2, <2>1, <2>2 DEF EndsAccept, PanicsHaveCauses, LocalDirection, RemoteDirection
  <2> QED
    BY <2>3, <2>4, <2>5, <2>6
<1> QED
  BY <1>4, <1>5

\* What a user types within a range shown is a configuration.
LEMMA TextsAreConfigs ==
  ASSUME NEW range, range.channels \in Nat, range.sample_format \in SampleFormats,
         NEW t \in TextsWithin(range)
  PROVE  /\ t \in StreamConfigs
         /\ MinRate < t.sample_rate /\ t.sample_rate <= MaxRate
<1>1. /\ t = [channels |-> range.channels, sample_rate |-> t.sample_rate,
              sample_format |-> range.sample_format]
      /\ t.sample_rate \in TypedRates
  BY DEF TextsWithin
<1>2. t.sample_rate \in MinRate + 1 .. MaxRate
  BY <1>1, SetupAssumption
<1>3. \A r \in MinRate + 1 .. MaxRate : r \in Nat /\ MinRate < r /\ r <= MaxRate
  <2>1. MinRate \in Nat /\ MaxRate \in Nat
    BY SMT DEF MinRate, MaxRate
  <2> QED
    BY <2>1, SMT
<1> HIDE DEF StreamConfigs
<1>4. t.sample_rate \in Nat /\ MinRate < t.sample_rate /\ t.sample_rate <= MaxRate
  BY <1>2, <1>3
<1>5. t \in StreamConfigs
  BY <1>1, <1>4 DEF StreamConfigs
<1> QED
  BY <1>4, <1>5

\* The user asks for what is shown.
LEMMA AskInv ==
  ASSUME Inv, Ask
  PROVE  Inv'
<1> USE DEF Inv, Ask, setup, tasks
<1>1. wanted = NoRequest /\ opened = NoDevice /\ remoteTask = "none" /\ localTask = "none"
  BY DEF RequestInOrder
<1>2. step' \in {"asked", "refused"}
  OBVIOUS
<1>4. wanted'.cfg \in StreamConfigs \cup {NoConfig} /\ WantedIsShown'
  <2>1. CASE UNCHANGED wanted
    BY <1>1, <2>1 DEF NoRequest, WantedIsShown
  <2>2. ASSUME NEW i \in DOMAIN listing,
               wanted' = [device |-> listing[i].name, cfg |-> NoConfig]
        PROVE  wanted'.cfg \in StreamConfigs \cup {NoConfig} /\ WantedIsShown'
    <3>1. listing # <<>>
      BY <2>2
    <3> QED
      BY <2>2, <3>1 DEF WantedIsShown
  <2>3. ASSUME NEW i \in DOMAIN listing,
               NEW range \in listing[i].shown[RemoteDirection], NEW t \in TextsWithin(range),
               Parses(t), wanted' = [device |-> listing[i].name, cfg |-> t]
        PROVE  wanted'.cfg \in StreamConfigs \cup {NoConfig} /\ WantedIsShown'
    <3>1. listing # <<>>
      BY <2>3
    <3>2. t \in StreamConfigs /\ MinRate < t.sample_rate /\ t.sample_rate <= MaxRate
      BY TextsAreConfigs, RemoteDirectionIs DEF ListingIsTyped
    <3> QED
      BY <2>3, <3>1, <3>2 DEF WantedIsShown
  <2> QED
    BY <2>1, <2>2, <2>3
<1>5. TypeOK' /\ HeldHasId'
  BY <1>2, <1>4 DEF TypeOK, HeldHasId
<1>6. RequestInOrder' /\ SeenIsHosts' /\ ListingIsHosts' /\ ListingIsTyped'
  BY <1>1, <1>2 DEF RequestInOrder, SeenIsHosts, ListingIsHosts, ListingIsTyped
<1>7. IndexIsHosts' /\ OpenedAsAsked' /\ OpenedWasFound'
  BY <1>1, <1>2 DEF IndexIsHosts, OpenedAsAsked, OpenedWasFound
<1>8. EndsAccept' /\ PanicsHaveCauses'
  BY <1>1, <1>2 DEF EndsAccept, PanicsHaveCauses, LocalDirection, RemoteDirection
<1> QED
  BY <1>4, <1>5, <1>6, <1>7, <1>8

\* The lookup finds the position of the name.
LEMMA FindPositionInv ==
  ASSUME Inv, FindPosition
  PROVE  Inv'
<1> USE DEF Inv, FindPosition, setup, tasks
<1>1. host \in Hosts /\ wanted.device # NoName
  BY DEF TypeOK
<1>2. index' \in Nat /\ step' \in {"refused", "found"} /\ (step' = "found" => index' # 0)
  BY <1>1, FirstNamedIs
<1>3. opened = NoDevice /\ remoteTask = "none" /\ localTask = "none"
  BY DEF RequestInOrder
<1>4. TypeOK' /\ HeldHasId'
  BY <1>2 DEF TypeOK, HeldHasId
<1>5. RequestInOrder' /\ SeenIsHosts' /\ ListingIsHosts' /\ ListingIsTyped' /\ WantedIsShown'
  BY <1>2, <1>3 DEF RequestInOrder, SeenIsHosts, ListingIsHosts, ListingIsTyped, WantedIsShown
<1>6. IndexIsHosts'
  BY <1>2 DEF IndexIsHosts
<1>7. OpenedAsAsked' /\ OpenedWasFound'
  BY <1>2, <1>3 DEF OpenedAsAsked, OpenedWasFound
<1>8. EndsAccept' /\ PanicsHaveCauses'
  BY <1>2, <1>3 DEF EndsAccept, PanicsHaveCauses, LocalDirection, RemoteDirection
<1> QED
  BY <1>4, <1>5, <1>6, <1>7, <1>8

\* The rest of the handler, whichever way its device has been found.
LEMMA OpenInv ==
  ASSUME Inv, step \in {"asked", "found"},
         NEW i \in DOMAIN host.devices, Open(host.devices[i]),
         wanted.device # NoName =>
           /\ i = index
           /\ "index" \notin stale => i = FirstNamed(host.devices, wanted.device),
         UNCHANGED <<setup, host, stale, seen, listing, wanted, index, answer, tasks>>
  PROVE  Inv'
<1> DEFINE device == host.devices[i]
           cfg == OpenConfig(device, RemoteDirection, Requested)
<1> USE DEF Inv, setup, tasks
<1>1. host \in Hosts /\ device.unit \in Units
  BY DEF TypeOK, Units
<1>2. opened = NoDevice /\ remoteTask = "none" /\ localTask = "none"
  BY DEF RequestInOrder
<1>3. RemoteDirection' = RemoteDirection /\ LocalDirection' = LocalDirection /\ Requested' = Requested
  BY DEF RemoteDirection, LocalDirection, Requested
<1>4. CASE cfg = NoConfig \/ device.name = NoName
  <2>1. step' = "refused" /\ UNCHANGED <<opened, displaced>>
    BY <1>4 DEF Open
  <2>2. TypeOK' /\ HeldHasId'
    BY <2>1 DEF TypeOK, HeldHasId
  <2>3. RequestInOrder' /\ SeenIsHosts' /\ ListingIsHosts' /\ ListingIsTyped' /\ WantedIsShown'
    BY <1>2, <2>1 DEF RequestInOrder, SeenIsHosts, ListingIsHosts, ListingIsTyped, WantedIsShown
  <2>4. IndexIsHosts' /\ OpenedAsAsked' /\ OpenedWasFound'
    BY <1>2, <2>1 DEF IndexIsHosts, OpenedAsAsked, OpenedWasFound
  <2>5. EndsAccept' /\ PanicsHaveCauses'
    BY <1>2, <2>1 DEF EndsAccept, PanicsHaveCauses
  <2> QED
    BY <2>2, <2>3, <2>4, <2>5
<1>5. CASE cfg # NoConfig /\ device.name # NoName
  <2>1. /\ step' = "opened"
        /\ opened' = [device |-> device, cfg |-> cfg]
        /\ displaced' = (device_id(device.name, RemoteDirection) = held.id)
    BY <1>5 DEF Open, device_name
  <2>2. OpenedAsAsked'
    BY <1>1, <1>3, <1>5, <2>1 DEF OpenedAsAsked
  <2>3. OpenedWasFound'
    BY <2>1 DEF OpenedWasFound
  <2>4. cfg \in StreamConfigs
    BY <1>1, <1>5, HostHas, RequestedIs, RemoteDirectionIs, OpenConfigIs,
       DeviceConfigsAreConfigs
  <2>5. TypeOK'
    <3>1. displaced' \in BOOLEAN
      BY <2>1
    <3>2. opened'.device.unit \in Units /\ opened'.cfg \in StreamConfigs
      BY <1>1, <2>1, <2>4
    <3> QED
      BY <2>1, <3>1, <3>2 DEF TypeOK
  <2>6. HeldHasId'
    BY DEF HeldHasId
  <2>7. RequestInOrder' /\ SeenIsHosts' /\ ListingIsHosts' /\ ListingIsTyped' /\ WantedIsShown'
    BY <1>2, <2>1 DEF RequestInOrder, SeenIsHosts, ListingIsHosts, ListingIsTyped, WantedIsShown
  <2>8. IndexIsHosts' /\ PanicsHaveCauses'
    BY <2>1 DEF IndexIsHosts, PanicsHaveCauses
  <2>9. EndsAccept'
    BY <1>2, <1>3, <2>1 DEF EndsAccept
  <2> QED
    BY <2>2, <2>3, <2>5, <2>6, <2>7, <2>8, <2>9
<1> QED
  BY <1>4, <1>5

\* The device at the position is there, unless the host has changed.
LEMMA OpenNamedInv ==
  ASSUME Inv, OpenNamed
  PROVE  Inv'
<1>1. /\ host \in Hosts /\ wanted.device # NoName
      /\ index \in Nat /\ index # 0
      /\ "index" \notin stale => index = FirstNamed(host.devices, wanted.device)
  BY DEF Inv, TypeOK, IndexIsHosts, OpenNamed
<1>2. Len(host.devices) \in Nat /\ DOMAIN host.devices = 1 .. Len(host.devices)
  BY <1>1, HostHas
<1>3. CASE index <= Len(host.devices)
  <2>1. index \in DOMAIN host.devices
    BY <1>1, <1>2, <1>3, SMT
  <2> QED
    BY <1>1, <1>3, <2>1, OpenInv DEF OpenNamed
<1>4. CASE ~(index <= Len(host.devices))
  <2>1. "index" \in stale
    BY <1>1, <1>4, FirstNamedFits
  <2>2. /\ step' = "panicked"
        /\ UNCHANGED <<setup, displaced, host, stale, seen, listing, wanted, index, opened, answer,
                       tasks>>
    BY <1>4 DEF OpenNamed
  <2>3. opened = NoDevice /\ remoteTask = "none" /\ localTask = "none"
    BY DEF Inv, RequestInOrder, OpenNamed
  <2> USE DEF Inv, setup, tasks
  <2>4. TypeOK' /\ HeldHasId'
    BY <2>2 DEF TypeOK, HeldHasId
  <2>5. RequestInOrder' /\ SeenIsHosts'
    BY <2>2, <2>3 DEF RequestInOrder, SeenIsHosts
  <2>6. ListingIsHosts' /\ ListingIsTyped' /\ WantedIsShown'
    BY <2>2, <2>3 DEF ListingIsHosts, ListingIsTyped, WantedIsShown
  <2>7. IndexIsHosts' /\ OpenedAsAsked' /\ OpenedWasFound'
    BY <2>2, <2>3 DEF IndexIsHosts, OpenedAsAsked, OpenedWasFound
  <2>8. EndsAccept' /\ PanicsHaveCauses'
    BY <1>1, <2>1, <2>2, <2>3 DEF EndsAccept, PanicsHaveCauses
  <2> QED
    BY <2>4, <2>5, <2>6, <2>7, <2>8
<1> QED
  BY <1>3, <1>4

\* The default output device is one of the devices.
LEMMA OpenDefaultInv ==
  ASSUME Inv, OpenDefault
  PROVE  Inv'
<1>1. host \in Hosts
  BY DEF Inv, TypeOK
<1>2. host.output \in 0 .. Len(host.devices) /\ Len(host.devices) \in Nat
      /\ DOMAIN host.devices = 1 .. Len(host.devices)
  BY <1>1, HostHas
<1>3. CASE host.output # 0
  <2>1. host.output \in DOMAIN host.devices
    BY <1>2, <1>3, SMT
  <2> QED
    BY <1>3, <2>1, OpenInv DEF OpenDefault
<1>4. CASE host.output = 0
  <2>1. /\ step' = "refused"
        /\ UNCHANGED <<setup, displaced, host, stale, seen, listing, wanted, index, opened, answer,
                       tasks>>
    BY <1>4 DEF OpenDefault
  <2>2. opened = NoDevice /\ remoteTask = "none" /\ localTask = "none"
    BY DEF Inv, RequestInOrder, OpenDefault
  <2> USE DEF Inv, setup, tasks
  <2>3. TypeOK' /\ HeldHasId'
    BY <2>1 DEF TypeOK, HeldHasId
  <2>4. RequestInOrder' /\ SeenIsHosts' /\ ListingIsHosts' /\ ListingIsTyped' /\ WantedIsShown'
    BY <2>1, <2>2 DEF RequestInOrder, SeenIsHosts, ListingIsHosts, ListingIsTyped, WantedIsShown
  <2>5. IndexIsHosts' /\ OpenedAsAsked' /\ OpenedWasFound'
    BY <2>1, <2>2 DEF IndexIsHosts, OpenedAsAsked, OpenedWasFound
  <2>6. EndsAccept' /\ PanicsHaveCauses'
    BY <2>1, <2>2 DEF EndsAccept, PanicsHaveCauses
  <2> QED
    BY <2>3, <2>4, <2>5, <2>6
<1> QED
  BY <1>3, <1>4

\* What may come of a task is that it runs or fails.
LEMMA OutcomesAre ==
  ASSUME NEW direction, NEW cfg
  PROVE  TaskOutcomes(direction, cfg) \subseteq {"running", "failed"}
BY DEF TaskOutcomes

\* The task that the answer is followed by is one for the opened configuration.
LEMMA AnswerInv ==
  ASSUME Inv, Answer
  PROVE  Inv'
<1> USE DEF Inv, Answer, setup, tasks
<1>1. remoteTask' \in {"running", "failed"}
  BY OutcomesAre
<1>2. RemoteDirection' = RemoteDirection /\ LocalDirection' = LocalDirection /\ Requested' = Requested
  BY DEF RemoteDirection, LocalDirection, Requested
<1>3. TypeOK' /\ HeldHasId'
  BY <1>1 DEF TypeOK, HeldHasId
<1>4. RequestInOrder' /\ SeenIsHosts' /\ ListingIsHosts' /\ ListingIsTyped' /\ WantedIsShown'
  BY DEF RequestInOrder, SeenIsHosts, ListingIsHosts, ListingIsTyped, WantedIsShown
<1>5. IndexIsHosts' /\ OpenedAsAsked' /\ OpenedWasFound'
  BY <1>2 DEF IndexIsHosts, OpenedAsAsked, OpenedWasFound
<1>6. EndsAccept' /\ PanicsHaveCauses'
  BY <1>2 DEF EndsAccept, PanicsHaveCauses
<1> QED
  BY <1>3, <1>4, <1>5, <1>6

\* The client reads the text of what was opened, and starts a task for its own configuration.
LEMMA ReadAnswerInv ==
  ASSUME Inv, ReadAnswer
  PROVE  Inv'
<1> DEFINE text == to_string(opened.cfg)
<1> USE DEF Inv, setup, tasks
<1>1. /\ step = "opened" /\ localTask = "none"
      /\ step' \in {"streaming", "refused"}
      /\ UNCHANGED <<setup, displaced, host, stale, seen, listing, wanted, index, opened, remoteTask>>
  BY DEF ReadAnswer, RequestInOrder
<1>2. opened.cfg \in DeviceConfigs
  BY <1>1, OpenedConfigIs
<1>3. RemoteDirection' = RemoteDirection /\ LocalDirection' = LocalDirection /\ Requested' = Requested
  BY <1>1 DEF RemoteDirection, LocalDirection, Requested
<1>4. from_str(text) \in StreamConfigs
  <2>1. opened.cfg \in StreamConfigs /\ opened.cfg.sample_rate \in MinRate .. MaxRate
    BY <1>2, DeviceConfigsAreConfigs
  <2>2. ThroughText(opened.cfg.sample_rate) \in Nat
    BY <2>1, RateSurvivesText
  <2>3. from_str(text) = [opened.cfg EXCEPT !.sample_rate = ThroughText(opened.cfg.sample_rate)]
    BY <2>1, ConfigThroughText
  <2> HIDE DEF text
  <2> QED
    BY <2>1, <2>2, <2>3 DEF StreamConfigs
<1>5. IF Parses(text) /\ Accepts(RemoteDirection, from_str(text))
      THEN /\ answer' = from_str(text)
           /\ step' = "streaming"
           /\ localTask' \in TaskOutcomes(LocalDirection, local)
      ELSE /\ step' = "refused"
           /\ UNCHANGED <<answer, localTask>>
  BY DEF ReadAnswer
<1>6. opened.cfg' = opened.cfg /\ local' = local
  BY <1>1
<1>7. localTask' \in {"none", "running", "failed"} /\ answer' \in StreamConfigs \cup {NoConfig}
      /\ (step' # "streaming" => localTask' = "none")
  BY <1>1, <1>4, <1>5, OutcomesAre DEF TypeOK
<1>8. EndsAccept'
  <2>1. /\ step' = "streaming" => /\ answer' = from_str(text)
                                  /\ Accepts(RemoteDirection, from_str(text))
        /\ localTask' # "none" => localTask' \in TaskOutcomes(LocalDirection, local)
    BY <1>1, <1>5
  <2>2. Accepts(LocalDirection, local)
    BY <1>1 DEF EndsAccept
  <2> QED
    BY <1>1, <1>3, <1>6, <2>1, <2>2 DEF EndsAccept
<1> HIDE DEF text
<1>9. TypeOK' /\ HeldHasId'
  BY <1>1, <1>7 DEF TypeOK, HeldHasId
<1>10. RequestInOrder' /\ SeenIsHosts' /\ ListingIsHosts' /\ ListingIsTyped' /\ WantedIsShown'
  BY <1>1, <1>7 DEF RequestInOrder, SeenIsHosts, ListingIsHosts, ListingIsTyped, WantedIsShown
<1>11. IndexIsHosts' /\ OpenedWasFound' /\ PanicsHaveCauses'
  BY <1>1 DEF IndexIsHosts, OpenedWasFound, PanicsHaveCauses
<1>12. OpenedAsAsked'
  BY <1>1, <1>3 DEF OpenedAsAsked
<1> QED
  BY <1>8, <1>9, <1>10, <1>11, <1>12

\* Every step keeps the invariant.
LEMMA NextInv ==
  ASSUME Inv, Next
  PROVE  Inv'
<1>1. CASE ListDefaultInput \/ ListDefaultOutput
  BY <1>1, ListDefaultInv DEF ListDefaultInput, ListDefaultOutput
<1> QED
  BY <1>1, ReplugInv, ListDevicesInv, ListNamesInv, AskInv, FindPositionInv, OpenNamedInv,
     OpenDefaultInv, AnswerInv, ReadAnswerInv DEF Next

\* The invariant holds throughout.
LEMMA Invariance ==
  Spec => []Inv
<1>1. Init => Inv
  BY InitInv
<1>2. Inv /\ [Next]_vars => Inv'
  BY NextInv, StutterInv
<1> QED
  BY <1>1, <1>2, PTL DEF Spec

-----------------------------------------------------------------------------
(***************************************************************************)
(* The theorems.                                                           *)
(***************************************************************************)

\* Requests and answers are well typed (client.rs, server.rs): what is opened and what is
\* read in the answer are configurations.
THEOREM SetupTypeCorrect ==
  Spec => []TypeOK
<1>1. Inv => TypeOK
  BY DEF Inv
<1> QED
  BY <1>1, Invariance, PTL

\* The listing panics listen() only with a nameless device or when the host has changed
\* between its enumerations, get_device only when it has changed between its two
\* (audio_caps.rs).
THEOREM PanicsExplained ==
  Spec => []PanicsHaveCauses
<1>1. Inv => PanicsHaveCauses
  BY DEF Inv
<1> QED
  BY <1>1, Invariance, PTL

\* A configuration that was typed is the one that is opened, but for what two texts lose of
\* its rate (client.rs, stream_config.rs, get_stream_config of audio_caps.rs).
THEOREM OpensWhatIsTyped ==
  Spec => []TypedIsOpened
<1>1. Inv => TypedIsOpened
  <2> SUFFICES ASSUME Inv, opened # NoDevice, wanted.cfg # NoConfig
               PROVE  /\ opened.cfg.channels = wanted.cfg.channels
                      /\ opened.cfg.sample_format = wanted.cfg.sample_format
                      /\ opened.cfg.sample_rate - wanted.cfg.sample_rate \in -7 .. 5
                      /\ wanted.cfg.sample_rate % 1000 = 0 =>
                           opened.cfg.sample_rate = wanted.cfg.sample_rate
    BY DEF TypedIsOpened
  <2>1. opened.cfg = Requested
    BY OpenedConfigIs DEF Inv
  <2>2. Requested = from_str(to_string(from_str(wanted.cfg)))
    BY RequestedIs DEF Inv
  <2>3. /\ wanted.cfg \in StreamConfigs
        /\ MinRate < wanted.cfg.sample_rate /\ wanted.cfg.sample_rate <= MaxRate
    BY DEF Inv, TypeOK, WantedIsShown
  <2> QED
    BY <2>1, <2>2, <2>3, TypedThroughText
<1> QED
  BY <1>1, Invariance, PTL

\* The client reads in the answer what the server has opened, but for what a text loses of
\* its rate (stream_config.rs).
THEOREM AnswerIsTrue ==
  Spec => []AnswerTellsDevice
<1>1. Inv => AnswerTellsDevice
  <2> SUFFICES ASSUME Inv, step = "streaming"
               PROVE  /\ answer.channels = opened.cfg.channels
                      /\ answer.sample_format = opened.cfg.sample_format
                      /\ Near(opened.cfg.sample_rate, answer.sample_rate)
    BY DEF AnswerTellsDevice
  <2>1. answer = from_str(to_string(opened.cfg))
    BY DEF Inv, EndsAccept
  <2>2. opened.cfg \in StreamConfigs /\ opened.cfg.sample_rate \in MinRate .. MaxRate
    BY OpenedConfigIs, DeviceConfigsAreConfigs DEF Inv
  <2>3. Near(opened.cfg.sample_rate, ThroughText(opened.cfg.sample_rate))
    BY <2>2, RateSurvivesText
  <2> QED
    BY <2>1, <2>2, <2>3, ConfigThroughText
<1> QED
  BY <1>1, Invariance, PTL

\* The two ends of a stream that runs have their devices open with f32 samples, although
\* client and tasks let different other formats through (client.rs, udp_server.rs).
THEOREM BothEndsF32 ==
  Spec => []RunningStreamsAreF32
<1>1. Inv => RunningStreamsAreF32
  <2> SUFFICES ASSUME Inv, step = "streaming", remoteTask = "running", localTask = "running"
               PROVE  opened.cfg.sample_format = "f32" /\ local.sample_format = "f32"
    BY DEF RunningStreamsAreF32
  <2>1. /\ "running" \in TaskOutcomes(RemoteDirection, opened.cfg)
        /\ "running" \in TaskOutcomes(LocalDirection, local)
        /\ Accepts(LocalDirection, local)
        /\ Accepts(RemoteDirection, answer)
    BY DEF Inv, EndsAccept
  <2>2. \A d, cfg : "running" \in TaskOutcomes(d, cfg) => cfg.sample_format \in {"f32", "i16", "u16"}
    BY DEF TaskOutcomes
  <2>3. \A d, cfg : Accepts(d, cfg) => cfg.sample_format \in {"f32", "i32"}
    BY DEF Accepts
  <2>4. answer.sample_format = opened.cfg.sample_format
    <3>1. answer = from_str(to_string(opened.cfg)) /\ opened.cfg \in StreamConfigs
      BY OpenedConfigIs DEF Inv, EndsAccept
    <3> QED
      BY <3>1, ConfigThroughText
  <2> QED
    BY <2>1, <2>2, <2>3, <2>4
<1> QED
  BY <1>1, Invariance, PTL

\* Whoever holds a device in a direction makes way for a request that opens it, by whatever
\* name either was asked for (device_id, device_config.rs; remove_connection, server.rs).
THEOREM HolderIsDisplaced ==
  Spec => []HolderMakesWay
<1>1. Inv => HolderMakesWay
  <2> SUFFICES ASSUME Inv, opened # NoDevice, opened.device.unit = held.unit,
                      held.direction = RemoteDirection
               PROVE  displaced
    BY DEF HolderMakesWay
  <2>1. PICK h \in Hosts : \E i \in DOMAIN h.devices :
               /\ held.unit = h.devices[i].unit
               /\ held.id = device_id(h.devices[i].name, held.direction)
    BY DEF Inv, HeldHasId
  <2>2. PICK g \in Hosts : \E j \in DOMAIN g.devices : opened.device = g.devices[j]
    BY DEF Inv, OpenedAsAsked
  <2>3. held.id = device_id(opened.device.name, held.direction)
    BY <2>1, <2>2, SetupAssumption
  <2> QED
    BY <2>3 DEF Inv, OpenedAsAsked
<1> QED
  BY <1>1, Invariance, PTL

-----------------------------------------------------------------------------
(***************************************************************************)
(* The names of a listing.                                                 *)
(***************************************************************************)

\* Where every device has a name, the k-th name is that of the k-th device.
LEMMA PlainNamesAre ==
  ASSUME NEW h \in Hosts, AllNamed(h.devices), NEW k \in DOMAIN h.devices
  PROVE  PlainNames(h.devices)[k] = h.devices[k].name
<1> DEFINE n == Len(h.devices)
           Upto(i) == {j \in 1 .. n : j <= i}
<1>1. n \in Nat /\ DOMAIN h.devices = 1 .. n
  BY HostHas
<1>2. Named(h.devices) = 1 .. n /\ Cardinality(Named(h.devices)) = n
  BY <1>1, NamesCount DEF AllNamed
<1>3. \A i \in 1 .. n : Cardinality(Upto(i)) = i
  <2> TAKE i \in 1 .. n
  <2>1. Upto(i) = 1 .. i
    BY <1>1, SMT
  <2>2. i \in Nat /\ ~(1 > i)
    BY <1>1, SMT
  <2>3. Cardinality(1 .. i) = i
    BY <2>2, FS_Interval, SMT
  <2> QED
    BY <2>1, <2>3
<1> HIDE DEF n, Upto
<1>4. (CHOOSE i \in 1 .. n : Cardinality(Upto(i)) = k) = k
  BY <1>1, <1>3
<1>5. PlainNames(h.devices)[k] = h.devices[CHOOSE i \in 1 .. n : Cardinality(Upto(i)) = k].name
  BY <1>1, <1>2 DEF PlainNames, Upto
<1> QED
  BY <1>4, <1>5

\* A name with a number is another one, and says both.
LEMMA NumberedName ==
  ASSUME NEW S, NEW s \in Seq(S), NEW t \in Seq(S), NEW a \in S, NEW b \in S
  PROVE  /\ Append(s, a) # s
         /\ Append(s, a) = Append(t, b) => s = t /\ a = b
<1>1. Append(s, a) = s => FALSE
  <2>1. Len(Append(s, a)) = Len(s) + 1
    BY AppendProperties
  <2>2. Len(s) + 1 # Len(s)
    BY SMT
  <2> QED
    BY <2>1, <2>2, Zenon
<1>2. ASSUME Append(s, a) = Append(t, b)
      PROVE  s = t /\ a = b
  <2> DEFINE u == Append(s, a)
             v == Append(t, b)
  <2>1. /\ Len(s) \in Nat /\ Len(t) \in Nat
        /\ s \in [1 .. Len(s) -> S] /\ t \in [1 .. Len(t) -> S]
    BY SMT
  <2>2. /\ Len(u) = Len(s) + 1 /\ u[Len(s) + 1] = a
        /\ \A i \in 1 .. Len(s) : u[i] = s[i]
    BY AppendProperties
  <2>3. /\ Len(v) = Len(t) + 1 /\ v[Len(t) + 1] = b
        /\ \A i \in 1 .. Len(t) : v[i] = t[i]
    BY AppendProperties
  <2>4. u = v
    BY <1>2
  <2> HIDE DEF u, v
  <2>5. Len(s) = Len(t)
    <3>1. Len(s) + 1 = Len(t) + 1
      BY <2>2, <2>3, <2>4, Zenon
    <3>2. \A n, m \in Nat : n + 1 = m + 1 => n = m
      BY SMT
    <3> QED
      BY <2>1, <3>1, <3>2, Zenon
  <2>6. a = b /\ \A i \in 1 .. Len(s) : s[i] = t[i]
    BY <2>2, <2>3, <2>4, <2>5
  <2>7. \A D : \A f, g \in [D -> S] : (\A i \in D : f[i] = g[i]) => f = g
    OBVIOUS
  <2>8. s = t
    <3>1. s \in [1 .. Len(s) -> S] /\ t \in [1 .. Len(s) -> S]
      BY <2>1, <2>5, Zenon
    <3> QED
      BY <2>6, <2>7, <3>1, ZenonT(30)
  <2> QED
    BY <2>6, <2>8, Zenon
<1> QED
  BY <1>1, <1>2, Zenon

\* Names are sequences, of something.
LEMMA NamesAreSeqs ==
  ASSUME NEW s, Len(s) \in Nat, DOMAIN s = 1 .. Len(s), s = [i \in DOMAIN s |-> s[i]], NEW a,
         NEW t, Len(t) \in Nat, DOMAIN t = 1 .. Len(t), t = [i \in DOMAIN t |-> t[i]], NEW b
  PROVE  \E S : s \in Seq(S) /\ t \in Seq(S) /\ a \in S /\ b \in S
<1> DEFINE S == {s[i] : i \in DOMAIN s} \cup {t[i] : i \in DOMAIN t} \cup {a, b}
<1>1. s \in [1 .. Len(s) -> S] /\ t \in [1 .. Len(t) -> S]
  BY Zenon
<1>2. a \in S /\ b \in S
  OBVIOUS
<1> HIDE DEF S
<1>3. s \in Seq(S) /\ t \in Seq(S)
  BY <1>1, SMT
<1> QED
  BY <1>2, <1>3

\* Two devices with one name in the listing: one is numbered and the other is called so.
LEMMA EqualNames ==
  ASSUME NEW h \in Hosts, AllNamed(h.devices),
         NEW i \in DOMAIN h.devices, NEW j \in DOMAIN h.devices, i < j,
         DeviceNames(h.devices)[i] = DeviceNames(h.devices)[j]
  PROVE  (DeviceNames(h.devices)[i] = h.devices[i].name)
           <=> (DeviceNames(h.devices)[j] # h.devices[j].name)
<1> DEFINE n == Len(h.devices)
           p == PlainNames(h.devices)
           equal(k) == {m \in DOMAIN p : p[m] = p[k]}
           upto(k) == {m \in equal(k) : m <= k}
           names == DeviceNames(h.devices)
<1>1. n \in Nat /\ DOMAIN h.devices = 1 .. n /\ DOMAIN p = 1 .. n
  BY HostHas, NamesCount
<1>2. i \in 1 .. n /\ j \in 1 .. n
  BY <1>1
<1>3. \A k \in 1 .. n :
        names[k] = IF Cardinality(equal(k)) > 1 THEN Append(p[k], Cardinality(upto(k))) ELSE p[k]
  BY <1>1 DEF DeviceNames, make_strings_unique
<1>4. p[i] = h.devices[i].name /\ p[j] = h.devices[j].name
  BY PlainNamesAre
<1>5. \A k \in 1 .. n : /\ Len(h.devices[k].name) \in Nat
                       /\ DOMAIN h.devices[k].name = 1 .. Len(h.devices[k].name)
                       /\ h.devices[k].name = [m \in DOMAIN h.devices[k].name |-> h.devices[k].name[m]]
  BY <1>1, HostHas, ZenonT(40) DEF IsDevice, AllNamed, Named
<1>6. \A k \in 1 .. n : IsFiniteSet(equal(k)) /\ IsFiniteSet(upto(k))
  <2> TAKE k \in 1 .. n
  <2>1. IsFiniteSet(1 .. n)
    <3> HIDE DEF n
    <3> QED
      BY <1>1, FS_Interval, SMT
  <2>2. equal(k) \in SUBSET (1 .. n) /\ upto(k) \in SUBSET (1 .. n)
    BY <1>1
  <2> QED
    BY <2>1, <2>2, FS_Subset
<1>7. CASE Cardinality(equal(i)) > 1 /\ Cardinality(equal(j)) > 1
  <2>1. p[i] = p[j] /\ Cardinality(upto(i)) = Cardinality(upto(j))
    <3> DEFINE s == h.devices[i].name
               t == h.devices[j].name
               a == Cardinality(upto(i))
               b == Cardinality(upto(j))
    <3>1. Append(s, a) = Append(t, b)
      BY <1>2, <1>3, <1>4, <1>7
    <3>2. /\ Len(s) \in Nat /\ DOMAIN s = 1 .. Len(s) /\ s = [m \in DOMAIN s |-> s[m]]
          /\ Len(t) \in Nat /\ DOMAIN t = 1 .. Len(t) /\ t = [m \in DOMAIN t |-> t[m]]
      BY <1>2, <1>5
    <3> HIDE DEF s, t, a, b
    <3>3. PICK S : s \in Seq(S) /\ t \in Seq(S) /\ a \in S /\ b \in S
      BY <3>2, NamesAreSeqs
    <3>4. Append(s, a) = Append(t, b) => s = t /\ a = b
      BY <3>3, NumberedName
    <3>5. s = t /\ a = b
      BY <3>1, <3>4, Zenon
    <3> QED
      BY <1>4, <3>5 DEF s, t, a, b
  <2>2. upto(i) \in SUBSET upto(j)
    BY <1>1, <1>2, <2>1, SMT
  <2>3. j \in upto(j) /\ j \notin upto(i)
    BY <1>1, <1>2, SMT
  <2> HIDE DEF upto
  <2>4. upto(i) = upto(j)
    BY <1>2, <1>6, <2>1, <2>2, FS_Subset
  <2> QED
    BY <2>3, <2>4
<1>8. CASE ~(Cardinality(equal(i)) > 1) /\ ~(Cardinality(equal(j)) > 1)
  <2>1. p[i] = p[j]
    BY <1>2, <1>3, <1>8
  <2>2. i \in equal(i) /\ j \in equal(i)
    BY <1>1, <1>2, <2>1
  <2> HIDE DEF equal
  <2>3. Cardinality(equal(i)) \in Nat
    BY <1>2, <1>6, FS_CardinalityType
  <2>4. Cardinality(equal(i)) # 0
    BY <1>2, <1>6, <2>2, FS_EmptySet
  <2>5. Cardinality(equal(i)) = 1
    BY <1>8, <2>3, <2>4, SMT
  <2>6. \E x : equal(i) = {x}
    BY <1>2, <1>6, <2>5, FS_Singleton
  <2>7. i = j
    BY <2>2, <2>6
  <2> QED
    BY <1>1, <2>7, SMT
<1>9. \A k \in {i, j} : Cardinality(equal(k)) > 1 => names[k] # h.devices[k].name
  <2> TAKE k \in {i, j}
  <2> HAVE Cardinality(equal(k)) > 1
  <2>1. k \in 1 .. n /\ p[k] = h.devices[k].name
    BY <1>2, <1>4
  <2>2. names[k] = Append(h.devices[k].name, Cardinality(upto(k)))
    BY <1>3, <2>1
  <2> DEFINE s == h.devices[k].name
             a == Cardinality(upto(k))
  <2>3. Len(s) \in Nat /\ DOMAIN s = 1 .. Len(s) /\ s = [m \in DOMAIN s |-> s[m]]
    BY <1>5, <2>1
  <2> HIDE DEF names, s, a
  <2>4. PICK S : s \in Seq(S) /\ a \in S
    BY <2>3, NamesAreSeqs
  <2>5. Append(s, a) # s
    BY <2>4, NumberedName, Zenon
  <2> QED
    BY <2>2, <2>5 DEF s, a
<1>10. \A k \in {i, j} : ~(Cardinality(equal(k)) > 1) => names[k] = h.devices[k].name
  <2> HIDE DEF equal, p, names, upto
  <2> QED
    BY <1>2, <1>3, <1>4
<1> HIDE DEF equal, names
<1> QED
  BY <1>7, <1>8, <1>9, <1>10 DEF names

\* The listing shows one name for two devices only where one of them is called by itself
\* what the number makes of the other's name (make_strings_unique, audio_caps.rs).
THEOREM ListedNamesDiffer ==
  Spec => []NamesTellApart
<1>1. Inv => NamesTellApart
  <2> DEFINE numbered == {i \in DOMAIN listing : listing[i].name # host.devices[i].name}
  <2> SUFFICES ASSUME Inv, "listing" \notin stale,
                      NEW i \in DOMAIN listing, NEW j \in DOMAIN listing,
                      i # j, listing[i].name = listing[j].name
               PROVE  (i \in numbered) # (j \in numbered)
    BY DEF NamesTellApart
  <2>1. listing # <<>>
    OBVIOUS
  <2>2. host \in Hosts /\ AllNamed(host.devices) /\ listing = Listing(host.devices, host.devices)
    BY <2>1 DEF Inv, TypeOK, ListingIsHosts
  <2>3. i \in DOMAIN host.devices /\ j \in DOMAIN host.devices
        /\ listing[i].name = DeviceNames(host.devices)[i]
        /\ listing[j].name = DeviceNames(host.devices)[j]
    BY <2>2, ListingOf DEF Listing
  <2>4. i < j \/ j < i
    <3>1. Len(host.devices) \in Nat /\ DOMAIN host.devices = 1 .. Len(host.devices)
      BY <2>2, HostHas
    <3> QED
      BY <2>3, <3>1, SMT
  <2>5. (listing[i].name = host.devices[i].name) <=> (listing[j].name # host.devices[j].name)
    BY <2>2, <2>3, <2>4, EqualNames
  <2> QED
    BY <2>5
<1> QED
  BY <1>1, Invariance, PTL

-----------------------------------------------------------------------------
(***************************************************************************)
(* Positions of names and positions of devices.                            *)
(***************************************************************************)

\* How many elements of a set of numbers are up to i.
Rank(S, i) == Cardinality({j \in S : j <= i})

\* Step by step, the rank goes up by one at the elements of the set.
LEMMA RankSteps ==
  ASSUME NEW l \in Nat, NEW S \in SUBSET (1 .. l)
  PROVE  /\ \A i \in Nat : /\ IsFiniteSet({j \in S : j <= i})
                           /\ Rank(S, i) \in Nat
         /\ Rank(S, 0) = 0
         /\ Rank(S, l) = Cardinality(S)
         /\ \A i \in Nat : Rank(S, i + 1) = IF i + 1 \in S THEN Rank(S, i) + 1 ELSE Rank(S, i)
<1> DEFINE Upto(i) == {j \in S : j <= i}
<1>1. IsFiniteSet(1 .. l)
  BY FS_Interval, SMT
<1>2. IsFiniteSet(S)
  BY <1>1, FS_Subset
<1>3. \A i \in Nat : IsFiniteSet(Upto(i)) /\ Cardinality(Upto(i)) \in Nat
  <2> TAKE i \in Nat
  <2>1. Upto(i) \in SUBSET S
    OBVIOUS
  <2>2. IsFiniteSet(Upto(i))
    BY <1>2, <2>1, FS_Subset
  <2> QED
    BY <2>2, FS_CardinalityType
<1>0. \A j \in S : j \in Nat /\ ~(j <= 0) /\ j <= l
  BY SMT
<1>4. Upto(0) = {}
  BY <1>0
<1>5. Upto(l) = S
  BY <1>0
<1>6. \A i \in Nat : /\ i + 1 \in S => Upto(i + 1) = Upto(i) \cup {i + 1}
                     /\ i + 1 \notin S => Upto(i + 1) = Upto(i)
                     /\ i + 1 \notin Upto(i)
  <2> TAKE i \in Nat
  <2>1. \A j \in S : j <= i + 1 <=> j <= i \/ j = i + 1
    BY <1>0, SMT
  <2>2. ~(i + 1 <= i)
    BY SMT
  <2> QED
    BY <2>1, <2>2
<1>7. \A i \in Nat : i + 1 \in S => Cardinality(Upto(i + 1)) = Cardinality(Upto(i)) + 1
  <2> TAKE i \in Nat
  <2> HAVE i + 1 \in S
  <2>1. Upto(i + 1) = Upto(i) \cup {i + 1} /\ i + 1 \notin Upto(i)
    BY <1>6
  <2> HIDE DEF Upto
  <2>2. IsFiniteSet(Upto(i))
    BY <1>3
  <2> QED
    BY <2>1, <2>2, FS_AddElement
<1>8. Cardinality(Upto(0)) = 0
  BY <1>4, FS_EmptySet
<1> QED
  BY <1>3, <1>5, <1>6, <1>7, <1>8 DEF Rank

\* Ranks tell the elements of a set apart, in their order.
LEMMA RankAscends ==
  ASSUME NEW l \in Nat, NEW S \in SUBSET (1 .. l), NEW i \in S, NEW j \in S, i < j
  PROVE  Rank(S, i) < Rank(S, j)
<1> DEFINE low == {m \in S : m <= i}
           high == {m \in S : m <= j}
<1>1. i \in Nat /\ j \in Nat
  BY SMT
<1>2. low \in SUBSET high /\ j \in high /\ j \notin low
  <2>1. \A m \in S : m \in Nat
    BY SMT
  <2>2. j <= j /\ ~(j <= i) /\ \A m \in Nat : m <= i => m <= j
    BY <1>1, SMT
  <2> QED
    BY <2>1, <2>2
<1>3. IsFiniteSet(low) /\ IsFiniteSet(high) /\ Cardinality(low) \in Nat /\ Cardinality(high) \in Nat
  <2>1. \A m \in Nat : IsFiniteSet({a \in S : a <= m}) /\ Rank(S, m) \in Nat
    BY RankSteps
  <2> QED
    BY <1>1, <2>1 DEF Rank
<1> HIDE DEF low, high
<1>4. Cardinality(low) <= Cardinality(high) /\ Cardinality(low) # Cardinality(high)
  BY <1>2, <1>3, FS_Subset
<1>5. Cardinality(low) < Cardinality(high)
  BY <1>3, <1>4, SMT
<1> QED
  BY <1>5 DEF Rank, low, high

\* Every rank up to the number of elements is one of an element.
LEMMA RankIsTaken ==
  ASSUME NEW l \in Nat, NEW S \in SUBSET (1 .. l), NEW k \in 1 .. Cardinality(S),
         Cardinality(S) \in Nat
  PROVE  \E i \in S : Rank(S, i) = k
<1> DEFINE enough == {i \in 0 .. l : k <= Rank(S, i)}
<1>1. /\ Rank(S, 0) = 0 /\ Rank(S, l) = Cardinality(S)
      /\ \A i \in Nat : Rank(S, i) \in Nat
      /\ \A i \in Nat : Rank(S, i + 1) = IF i + 1 \in S THEN Rank(S, i) + 1 ELSE Rank(S, i)
  <2>1. Rank(S, 0) = 0 /\ Rank(S, l) = Cardinality(S)
    BY RankSteps, ZenonT(40)
  <2>2. \A i \in Nat : Rank(S, i) \in Nat
    BY RankSteps, ZenonT(40)
  <2>3. \A i \in Nat : Rank(S, i + 1) = IF i + 1 \in S THEN Rank(S, i) + 1 ELSE Rank(S, i)
    BY RankSteps, ZenonT(40)
  <2> QED
    BY <2>1, <2>2, <2>3
<1>2. k \in Nat /\ 1 <= k /\ k <= Cardinality(S)
  BY SMT
<1>3. l \in enough /\ enough \in SUBSET Nat
  BY <1>1, <1>2, SMT
<1>4. PICK i \in enough : \A j \in enough : i <= j
  BY <1>3, LeastExists
<1>5. i \in Nat /\ i # 0 /\ i <= l
  BY <1>1, <1>2, <1>4, SMT
<1> DEFINE h == i - 1
<1>6. h \in Nat /\ i = h + 1 /\ h \in 0 .. l /\ ~(i <= h)
  BY <1>5, SMT
<1>7. h \notin enough
  BY <1>4, <1>6
<1>8. ~(k <= Rank(S, h)) /\ k <= Rank(S, h + 1)
  BY <1>4, <1>6, <1>7
<1> HIDE DEF h
<1>9. i \in S /\ Rank(S, i) = k
  BY <1>1, <1>2, <1>6, <1>8, SMT
<1> QED
  BY <1>9

\* The k-th name is that of the device whose rank among those with a name is k.
LEMMA NameOfRank ==
  ASSUME NEW h \in Hosts, NEW i \in Named(h.devices)
  PROVE  /\ Rank(Named(h.devices), i) \in DOMAIN PlainNames(h.devices)
         /\ PlainNames(h.devices)[Rank(Named(h.devices), i)] = h.devices[i].name
<1> DEFINE named == Named(h.devices)
           l == Len(h.devices)
           k == Rank(named, i)
<1>1. l \in Nat /\ DOMAIN h.devices = 1 .. l /\ named \in SUBSET (1 .. l)
  BY HostHas DEF Named
<1>2. DOMAIN PlainNames(h.devices) = 1 .. Cardinality(named) /\ Cardinality(named) \in Nat
  BY NamesCount
<1>3. i \in 1 .. l /\ i \in Nat
  BY <1>1, SMT
<1>4. k \in 1 .. Cardinality(named)
  <2> DEFINE upto == {j \in named : j <= i}
  <2>1. upto \in SUBSET named /\ i \in upto
    BY <1>3, SMT
  <2>2. IsFiniteSet(upto) /\ Cardinality(upto) \in Nat
    BY <1>1, <1>3, RankSteps, ZenonT(40) DEF Rank
  <2>3. IsFiniteSet(named)
    <3>1. IsFiniteSet(1 .. l)
      BY <1>1, FS_Interval, SMT
    <3> QED
      BY <1>1, <3>1, FS_Subset
  <2> HIDE DEF upto, named
  <2>4. Cardinality(upto) <= Cardinality(named) /\ Cardinality(upto) # 0
    BY <2>1, <2>2, <2>3, FS_Subset, FS_EmptySet
  <2>5. Cardinality(upto) \in 1 .. Cardinality(named)
    BY <1>2, <2>2, <2>4, SMT
  <2> QED
    BY <2>5 DEF Rank, upto
<1>5. \A j \in named : Rank(named, j) = k => j = i
  <2> TAKE j \in named
  <2> HAVE Rank(named, j) = k
  <2>1. j \in Nat /\ Rank(named, i) \in Nat /\ Rank(named, j) \in Nat
    <3>1. j \in Nat
      BY <1>1, SMT
    <3> HIDE DEF named, l
    <3> QED
      BY <1>1, <1>3, <3>1, RankSteps
  <2>2. i < j => Rank(named, i) < Rank(named, j)
    BY <1>1, RankAscends
  <2>3. j < i => Rank(named, j) < Rank(named, i)
    BY <1>1, RankAscends
  <2> HIDE DEF named
  <2> QED
    BY <1>3, <2>1, <2>2, <2>3, SMT
<1>6. PlainNames(h.devices)[k] = h.devices[CHOOSE j \in named : Rank(named, j) = k].name
  BY <1>2, <1>4 DEF PlainNames, Rank
<1>7. (CHOOSE j \in named : Rank(named, j) = k) = i
  BY <1>5
<1> QED
  BY <1>2, <1>4, <1>6, <1>7

\* Up to a device that has a name, those that have one and those that have none are all.
LEMMA NamelessBefore ==
  ASSUME NEW h \in Hosts, NEW i \in Named(h.devices)
  PROVE  LET nameless == {j \in 1 .. i : h.devices[j].name = NoName}
         IN  i - Cardinality(nameless) = Rank(Named(h.devices), i)
<1> DEFINE named == Named(h.devices)
           upto == {j \in named : j <= i}
           nameless == {j \in 1 .. i : h.devices[j].name = NoName}
<1>1. /\ Len(h.devices) \in Nat /\ DOMAIN h.devices = 1 .. Len(h.devices)
      /\ named \in SUBSET (1 .. Len(h.devices)) /\ i \in 1 .. Len(h.devices)
  BY HostHas DEF Named
<1>2. i \in Nat /\ 1 <= i
  BY <1>1, SMT
<1>3. \A j \in 1 .. i : j \in 1 .. Len(h.devices)
  BY <1>1, <1>2, SMT
<1>4. nameless = (1 .. i) \ upto /\ (1 .. i) \cap upto = upto
  <2>1. \A j \in upto : j \in 1 .. i
    BY <1>1, <1>2, SMT
  <2>2. \A j \in 1 .. i : j <= i
    BY <1>2, SMT
  <2>3. \A j \in 1 .. i : j \in upto <=> h.devices[j].name # NoName
    BY <1>1, <1>3, <2>2 DEF Named
  <2> QED
    BY <2>1, <2>3
<1>5. IsFiniteSet(1 .. i) /\ Cardinality(1 .. i) = i
  BY <1>2, FS_Interval, SMT
<1>6. IsFiniteSet(upto) /\ Cardinality(upto) \in Nat
  BY <1>1, <1>2, RankSteps, ZenonT(40) DEF Rank
<1> HIDE DEF named, upto, nameless
<1>7. Cardinality(nameless) = i - Cardinality(upto)
  <2>1. Cardinality((1 .. i) \ upto) = Cardinality(1 .. i) - Cardinality((1 .. i) \cap upto)
    BY <1>5, FS_Difference, Zenon
  <2> QED
    BY <1>4, <1>5, <2>1, Zenon
<1>8. i - Cardinality(nameless) = Cardinality(upto)
  BY <1>2, <1>6, <1>7, SMT
<1> QED
  BY <1>8 DEF Rank, named, upto, nameless

\* The devices of one name up to a device are as many as their names up to its name.
LEMMA EqualsUpto ==
  ASSUME NEW h \in Hosts, NEW i \in Named(h.devices), NEW k, k = Rank(Named(h.devices), i)
  PROVE  LET p == PlainNames(h.devices)
         IN  Cardinality({m \in {m \in DOMAIN p : p[m] = p[k]} : m <= k})
               = Cardinality({j \in 1 .. i : h.devices[j].name = h.devices[i].name})
<1> DEFINE named == Named(h.devices)
           p == PlainNames(h.devices)
           l == Len(h.devices)
           n == Cardinality(named)
           devices == {j \in 1 .. i : h.devices[j].name = h.devices[i].name}
           names == {m \in {m \in DOMAIN p : p[m] = p[k]} : m <= k}
           f == [j \in devices |-> Rank(named, j)]
<1>1. /\ l \in Nat /\ DOMAIN h.devices = 1 .. l
      /\ named \in SUBSET (1 .. l) /\ i \in 1 .. l
  BY HostHas DEF Named
<1>2. i \in Nat /\ 1 <= i /\ i <= l
  BY <1>1, SMT
<1>3. DOMAIN p = 1 .. n /\ n \in Nat
  BY NamesCount
<1>4. k \in DOMAIN p /\ p[k] = h.devices[i].name /\ h.devices[i].name # NoName
  BY NameOfRank DEF Named
<1>5. devices \in SUBSET named /\ \A j \in devices : j \in Nat /\ j <= i
  <2>1. \A j \in 1 .. i : j \in 1 .. l /\ j \in Nat /\ j <= i
    BY <1>1, <1>2, SMT
  <2> QED
    BY <1>1, <1>4, <2>1 DEF Named
<1>6. \A a, b \in named : /\ Rank(named, a) \in Nat /\ a \in Nat
                          /\ a < b => Rank(named, a) < Rank(named, b)
  <2>1. \A a \in named : a \in Nat
    BY <1>1, SMT
  <2>2. \A a \in named : Rank(named, a) \in Nat
    <3> HIDE DEF named, l
    <3> QED
      BY <1>1, <2>1, RankSteps
  <2>3. \A a, b \in named : a < b => Rank(named, a) < Rank(named, b)
    <3> HIDE DEF named, l
    <3> QED
      BY <1>1, RankAscends
  <2> QED
    BY <2>1, <2>2, <2>3
<1>7. \A a \in named : Rank(named, a) \in DOMAIN p /\ p[Rank(named, a)] = h.devices[a].name
  BY NameOfRank
<1>8. \A j \in devices : Rank(named, j) \in names
  <2> TAKE j \in devices
  <2>1. j \in named /\ i \in named /\ j <= i
    BY <1>5
  <2>2. Rank(named, j) <= k
    <3> HIDE DEF named, devices
    <3> QED
      BY <1>6, <2>1, SMT DEF named
  <2>3. p[Rank(named, j)] = p[k] /\ Rank(named, j) \in DOMAIN p
    BY <1>4, <1>7, <2>1
  <2> QED
    BY <2>2, <2>3
<1>9. \A a, b \in devices : Rank(named, a) = Rank(named, b) => a = b
  <2> TAKE a \in devices, b \in devices
  <2>1. a \in named /\ b \in named
    BY <1>5
  <2> HIDE DEF named, devices
  <2> QED
    BY <1>6, <2>1, SMT
<1>10. \A m \in names : \E j \in devices : Rank(named, j) = m
  <2> TAKE m \in names
  <2>1. m \in 1 .. n /\ p[m] = p[k] /\ m <= k
    BY <1>3
  <2>2. PICK j \in named : Rank(named, j) = m
    <3> HIDE DEF named, l
    <3> QED
      BY <1>1, <1>3, <2>1, RankIsTaken
  <2>3. h.devices[j].name = h.devices[i].name
    BY <1>4, <1>7, <2>1, <2>2
  <2>4. ~(i < j)
    <3>1. i \in named /\ k = Rank(named, i)
      OBVIOUS
    <3> HIDE DEF named
    <3> QED
      BY <1>6, <2>1, <2>2, <3>1, SMT
  <2>5. j \in 1 .. i
    <3>1. j \in 1 .. l
      BY <1>1
    <3> HIDE DEF l
    <3> QED
      BY <1>1, <1>2, <2>4, <3>1, SMT
  <2> QED
    BY <2>2, <2>3, <2>5
<1>11. IsFiniteSet(devices)
  <2>1. IsFiniteSet(1 .. i) /\ devices \in SUBSET (1 .. i)
    BY <1>2, FS_Interval, SMT
  <2> QED
    BY <2>1, FS_Subset
<1> HIDE DEF devices, names, named, p
<1>12. f \in Bijection(devices, names)
  BY <1>8, <1>9, <1>10 DEF Bijection, Injection, Surjection, IsInjective
<1>13. Cardinality(names) = Cardinality(devices)
  BY <1>11, <1>12, FS_Bijection DEF ExistsBijection
<1> QED
  BY <1>13 DEF devices, names, named, p

\* A request opens the device that bears the name it asks for, or another one as many places
\* before it as devices without a name stand before it, while the host stays as it is
\* (get_device, audio_caps.rs).
THEOREM OpensByPosition ==
  Spec => []OpenedByPosition
<1>1. Inv => OpenedByPosition
  <2> SUFFICES ASSUME Inv, opened # NoDevice, wanted.device # NoName, "index" \notin stale
               PROVE  \E i \in DOMAIN host.devices :
                        /\ Bears(i, wanted.device)
                        /\ LET nameless == {j \in 1 .. i : host.devices[j].name = NoName}
                           IN  opened.device = host.devices[i - Cardinality(nameless)]
    BY DEF OpenedByPosition
  <2> DEFINE names == DeviceNames(host.devices)
             p == PlainNames(host.devices)
             named == Named(host.devices)
  <2>1. /\ host \in Hosts /\ index \in DOMAIN host.devices
        /\ opened.device = host.devices[index]
        /\ index = FirstNamed(host.devices, wanted.device)
    BY DEF Inv, TypeOK, OpenedWasFound
  <2>2. Len(host.devices) \in Nat /\ DOMAIN host.devices = 1 .. Len(host.devices)
        /\ named \in SUBSET (1 .. Len(host.devices))
    BY <2>1, HostHas DEF Named
  <2>3. index # 0
    BY <2>1, <2>2, SMT
  <2>4. index \in DOMAIN names /\ names[index] = wanted.device
    BY <2>1, <2>3, FirstNamedIs
  <2>5. /\ DOMAIN names = 1 .. Cardinality(named) /\ Cardinality(named) \in Nat
        /\ DOMAIN p = 1 .. Cardinality(named)
    BY <2>1, NamesCount
  <2>6. PICK i \in named : Rank(named, i) = index
    BY <2>2, <2>4, <2>5, RankIsTaken
  <2>7. p[index] = host.devices[i].name
    BY <2>1, <2>6, NameOfRank
  <2> DEFINE equal == {m \in DOMAIN p : p[m] = p[index]}
  <2>8. names[index] = IF Cardinality(equal) > 1
                       THEN Append(p[index], Cardinality({m \in equal : m <= index}))
                       ELSE p[index]
    BY <2>4, <2>5 DEF DeviceNames, make_strings_unique
  <2>9. Cardinality({m \in equal : m <= index})
          = Cardinality({j \in 1 .. i : host.devices[j].name = host.devices[i].name})
    BY <2>1, <2>6, EqualsUpto
  <2>10. Bears(i, wanted.device)
    <3>1. host.devices[i].name # NoName
      BY DEF Named
    <3> HIDE DEF equal, names, p
    <3> QED
      BY <2>4, <2>7, <2>8, <2>9, <3>1 DEF Bears
  <2>11. i - Cardinality({j \in 1 .. i : host.devices[j].name = NoName}) = index
    BY <2>1, <2>6, NamelessBefore
  <2>12. i \in DOMAIN host.devices
    BY DEF Named
  <2> QED
    BY <2>1, <2>10, <2>11, <2>12
<1> QED
  BY <1>1, Invariance, PTL
=============================================================================

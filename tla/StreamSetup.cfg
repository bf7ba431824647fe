\* One request of a user, with devices coming and going on the server's machine.
SPECIFICATION Spec
CONSTANTS
  NoName = NoName
  NoConfig = NoConfig
  NoDevice = NoDevice
  Hosts <- MCHosts
  LocalConfigs <- MCLocalConfigs
  TypedRates <- MCTypedRates
INVARIANTS
  TypeOK
  OpenedByPosition
  NamesTellApart
  
  TypedIsOpened
  AnswerTellsDevice
  RunningStreamsAreF32
  HolderMakesWay
\* A request comes to an end.
CHECK_DEADLOCK FALSE

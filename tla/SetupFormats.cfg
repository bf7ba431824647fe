\* A stream that both ends have accepted, with samples that neither task takes.
SPECIFICATION Spec
CONSTANTS
  NoName = NoName
  NoConfig = NoConfig
  NoDevice = NoDevice
  Hosts <- MCHosts
  LocalConfigs <- MCLocalConfigs
  TypedRates <- MCTypedRates
INVARIANTS
  AcceptedStreamsRun
\* A request comes to an end.
CHECK_DEADLOCK FALSE

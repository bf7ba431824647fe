\* A List request while a client streams, on a host whose device list fails.
SPECIFICATION FairSpec
CONSTANTS
  Conns = {c1, c2}
  Devices = {speaker}
  OutputDevices = {speaker}
  Ports = {}
  AnyPort = AnyPort
  NoConn = NoConn
  NoDevice = NoDevice
  EnumerationFails = TRUE
PROPERTY
  PanicIsTheEnd
\* listen() returns after Ctrl-C, and a server that has panicked stays so.
CHECK_DEADLOCK FALSE

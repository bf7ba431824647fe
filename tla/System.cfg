\* Two processes and one device.  The device list does not fail: what a panic leaves
\* behind is ServerPanic's.
SPECIFICATION FairSpec
CONSTANTS
  Conns = {c1, c2}
  Devices = {speaker}
  OutputDevices = {speaker}
  Ports = {}
  AnyPort = AnyPort
  NoConn = NoConn
  NoDevice = NoDevice
  EnumerationFails = FALSE
INVARIANTS
  TypeOK
PROPERTIES
  CancelledClientsStop
  ClientsAreAnswered
  DevicesFollowClients
\* The server and all clients may be over.
CHECK_DEADLOCK FALSE

\* A client whose device another client takes over, and takes over again.
SPECIFICATION FairSpec
CONSTANTS
  Conns = {c1, c2}
  Devices = {speaker}
  OutputDevices = {speaker}
  Ports = {}
  AnyPort = AnyPort
  NoConn = NoConn
  NoDevice = NoDevice
  EnumerationFails = FALSE
PROPERTY
  ConnectedUntilStopped
\* listen() returns after Ctrl-C, and a server that has panicked stays so.
CHECK_DEADLOCK FALSE

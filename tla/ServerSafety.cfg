\* Three clients, one input and one output device, one firewall port, and a host
\* whose device list can fail.
SPECIFICATION Spec
CONSTANTS
  Conns = {c1, c2, c3}
  Devices = {mic, speaker}
  OutputDevices = {speaker}
  Ports = {fw}
  AnyPort = AnyPort
  NoConn = NoConn
  NoDevice = NoDevice
  EnumerationFails = TRUE
SYMMETRY ConnSymmetry
INVARIANTS
  TypeOK
  OneStreamPerDevice
  StreamsAreOwned
  EndIsNoticed
  DeviceClosedBeforeBind
PROPERTIES
  LeaseSpec
\* listen() returns after Ctrl-C, and a server that has panicked stays so.
CHECK_DEADLOCK FALSE

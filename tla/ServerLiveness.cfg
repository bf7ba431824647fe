\* Progress.  Three clients that all want the one speaker, so that a client can be
\* displaced twice over while notices are on their way.  No symmetry: TLC does not
\* combine it with liveness.  No request names a port, since a bind may fail all
\* the same, and the device list does not fail: what a panic
\* leaves behind is ServerPanic's.
SPECIFICATION FairSpec
CONSTANTS
  Conns = {c1, c2, c3}
  Devices = {speaker}
  OutputDevices = {speaker}
  Ports = {}
  AnyPort = AnyPort
  NoConn = NoConn
  NoDevice = NoDevice
  EnumerationFails = FALSE
PROPERTIES
  KeepsListening
  DeviceReclaimed
  BacklogServed
  ShutdownCompletes
\* listen() returns after Ctrl-C.
CHECK_DEADLOCK FALSE

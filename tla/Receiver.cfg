\* A buffer that one packet and a half fill, a device that asks for less or more than
\* a packet.
SPECIFICATION FairSpec
CONSTANTS
  Incoming <- SomePackets
  PlayoutCapacity = 6
  InboxCapacity = 2
  OutputSizes = {2, 4}
  Silence = Silence
  NoPacket = NoPacket
INVARIANTS
  TypeOK
  FramesWhole
PROPERTIES
  ErrorsReplayNothing
  CancelStops
\* A stopped stream stays so.
CHECK_DEADLOCK FALSE

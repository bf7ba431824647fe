\* A mono stream of up to four packets, delivered late, twice or never, among those of an
\* earlier stream.
SPECIFICATION Spec
CONSTANTS
  Channels = 1
  Room = 4
  Capacity = 3
  CallbackSizes = {1, 2}
  MaxCaptured = 4
  PlayoutCapacity = 4
  InboxCapacity = 2
  OutputSizes = {2, 4}
  Silence = Silence
  NoPacket = NoPacket
  Strays <- EarlierStream
INVARIANTS
  PlayoutInOrder
  MonoOnBothSides
PROPERTIES
  StreamSpec
\* Both ends may be stopped.
CHECK_DEADLOCK FALSE

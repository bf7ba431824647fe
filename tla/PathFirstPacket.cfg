\* The first packet a receiver gets from its sender.
SPECIFICATION Spec
CONSTANTS
  Channels = 1
  Room = 4
  Capacity = 4
  CallbackSizes = {1, 2}
  MaxCaptured = 5
  PlayoutCapacity = 4
  InboxCapacity = 2
  OutputSizes = {2, 4}
  Silence = Silence
  NoPacket = NoPacket
  Strays = {}
INVARIANT
  FirstIsInOrder
\* Both ends may be stopped.
CHECK_DEADLOCK FALSE

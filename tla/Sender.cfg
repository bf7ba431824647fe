\* A stereo device that delivers for ever, fills the buffer more than once over and
\* may deliver more at once than it holds.
SPECIFICATION EndlessSpec
CONSTANTS
  Channels = 2
  Room = 4
  Capacity = 6
  CallbackSizes = {2, 4, 8}
  MaxCaptured = 10
INVARIANTS
  TypeOK
  NobodyWaitsUnnotified
  BufferIsLatest
  NumbersFollowSamples
  PacketsFit
PROPERTIES
  SamplesMoveOn
  CancelStops
\* A stopped stream stays so, and a spinning callback leaves nothing to do.
CHECK_DEADLOCK FALSE

SPECIFICATION FairSpec
CONSTANTS
  Clients = {ext, dal}
  Dal = dal
  Chunks = 2
  PipeCap = 1
  QueueCap = 1
  MaxFrames = 2
  MaxConns = 2
INVARIANTS FramesAreWhole AnnouncedIsReadable
PROPERTIES ClientsReconnect StopReturns

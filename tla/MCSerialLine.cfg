SPECIFICATION FairSerialSpec
CONSTANTS
  BufSize = 4
  RxSize = 6
  OutSize = 1
  RawFrames <- MCFrames
  MaxInFlight = 2
  LineBytes = 1
INVARIANTS
  OutputSound
  FramesInOrder
PROPERTIES
  PacketIntact
  EveryFrameArrives
CHECK_DEADLOCK FALSE

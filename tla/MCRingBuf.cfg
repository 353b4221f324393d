CONSTANTS
  FrameBytes = 3
  Frames = 4
  WriteFrames = 3
  ReadFrames = 2
  MaxFrames = 13
SPECIFICATION FairSpec
INVARIANT ExclusiveBytes
INVARIANT FrameAligned
INVARIANT NoPartialRead
PROPERTY ImplementsFifo
PROPERTY AudioIsDelivered

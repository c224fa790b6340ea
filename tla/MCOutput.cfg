CONSTANTS
  f1 = f1
  f2 = f2
  big = big
  NoFrame = NoFrame
  Frames <- MCFrames
  Oversized <- MCOversized
  FrameBytes <- MCFrameBytes
  PreludeBytes = 2
  PipeBytes = 3
  Budget = 2
  Refill = 2
  Burst = 2
  Window = 3
SPECIFICATION FairSpec
INVARIANTS
  TypeOK
  StreamWellFormed
  NoLostUpdate
  WatchedIffPending
  RateBound
PROPERTIES
  StreamSpec
  StatusShown

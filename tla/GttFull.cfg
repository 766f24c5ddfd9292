SPECIFICATION Spec
CONSTANTS
  Frames <- MCFrames
  BusFrames <- MCBusFrames
  Sizes <- MCSizes
  Entries = 2
  Dma32Frames <- MCDma32Frames
  Junk = Junk
INVARIANTS
  MemTypeOK
  ListIsPages
  ListIsShort
  BusPagesDistinct
  OnlyObjectsReachable
  FaultOnlyWhenFull
CHECK_DEADLOCK FALSE

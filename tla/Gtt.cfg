SPECIFICATION Spec
CONSTANTS
  Frames <- MCFrames
  BusFrames <- MCBusFrames
  Sizes <- MCSizes
  Entries = 3
  Dma32Frames <- MCDma32Frames
  Junk = Junk
INVARIANTS
  TypeOK
  ObjectMapped
  OnlyObjectsReachable
PROPERTY ImplementsAddressSpace
CHECK_DEADLOCK FALSE

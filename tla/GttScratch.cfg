SPECIFICATION Spec
CONSTANTS
  Frames <- MCFrames
  BusFrames <- MCBusFrames
  Sizes <- MCSizes
  Entries = 3
  Dma32Frames <- MCDma32Frames
  Junk = Junk
INVARIANT UnusedReachScratch
CHECK_DEADLOCK FALSE

SPECIFICATION FairSpec
CONSTANTS
  Ticks <- MCTicks
  JiffiesMod <- MCJiffiesMod
  MaxElapsed <- MCMaxElapsed
INVARIANT TypeOK
PROPERTIES
  ImplementsTimedWait
  AnsweredInTimeIsSeen
  WaitTerminates
CHECK_DEADLOCK FALSE

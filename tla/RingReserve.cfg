SPECIFICATION Spec
CONSTANTS
  Size = 16
  FreeSpace = 4
  Jobs <- TempJobs
  MaxPolls = 2
  MaxSent = 16
INVARIANT SpaceMatchesTail
CHECK_DEADLOCK FALSE

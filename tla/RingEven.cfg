SPECIFICATION FairSpec
CONSTANTS
  Size = 16
  FreeSpace = 4
  Jobs <- EvenJobs
  MaxPolls = 2
  MaxSent = 16
INVARIANT SpaceMatchesTail
PROPERTY SubmittedRuns
CHECK_DEADLOCK FALSE

SPECIFICATION FairSpec
CONSTANTS
  Size = 16
  FreeSpace = 4
  Jobs <- AllJobs
  MaxPolls = 2
  MaxSent = 20
INVARIANTS
  TypeOK
  RunsWhatWasSent
  VerdictSound
  SpaceKeepsInside
PROPERTY StoreLands
CHECK_DEADLOCK FALSE

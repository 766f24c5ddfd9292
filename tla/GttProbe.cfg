SPECIFICATION Spec
CONSTANTS
  StolenSizes <- MCStolenSizes
  TableSizes <- MCTableSizes
  OtherBits <- MCOtherBits
  Bases <- MCBases
  LowBits <- MCLowBits
  BarLen = 4
  MmioLen = 2
INVARIANTS
  TypeOK
  RegionIsStolen
  TableInBar
  OutcomeKnown
CHECK_DEADLOCK FALSE

SPECIFICATION Spec
CONSTANTS
  StolenSizes <- MCStolenSizes
  TableSizes <- MCTableSizes
  OtherBits <- MCOtherBits
  Bases <- MCBases
  LowBits <- MCLowBits
  BarLen = 4
  MmioLen = 2
INVARIANT MaskReportTrue
CHECK_DEADLOCK FALSE

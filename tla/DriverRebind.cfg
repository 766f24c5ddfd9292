SPECIFICATION Spec
CONSTANTS
  RingPages = 2
  MaxProbes = 2
  MaxLoads = 1
INVARIANT CommandsInRing
CHECK_DEADLOCK FALSE

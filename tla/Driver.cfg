SPECIFICATION Spec
CONSTANTS
  RingPages = 2
  MaxProbes = 3
  MaxLoads = 2
INVARIANTS
  TypeOK
  DeviceNodeWhole
  AwakeOnlyAfterFailedStart
  RingReadyUnlessLogged
  EngineMemoryInserted
  EnabledOnlyByLeak
PROPERTY ValidRingUntouched
CHECK_DEADLOCK FALSE

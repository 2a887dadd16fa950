CONSTANTS
  Offsets <- MCOffsets
  Unknown <- MCUnknown
  FixGood = 2
  PollingMode = FALSE
  AppCalls <- DriverCalls
  MaxCalls = 2
  Honest = FALSE
  NetworkFails = TRUE
  ClockJumps = FALSE
SPECIFICATION Spec
CHECK_DEADLOCK FALSE
INVARIANTS
  TypeOK
  NetworkIsHeeded
  SyncTimersMatch
  SynchronizedIsAccurate
  BoundsOverlapWhileUsed
PROPERTIES
  GivesUpAfterGlobalPools

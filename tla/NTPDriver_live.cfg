CONSTANTS
  Offsets <- MCOffsets
  Unknown <- MCUnknown
  FixGood = 2
  PollingMode = FALSE
  AppCalls <- StartingCalls
  MaxCalls = 1
  Honest = TRUE
  NetworkFails = FALSE
  ClockJumps = TRUE
SPECIFICATION FairSpec
CHECK_DEADLOCK FALSE
INVARIANTS
  ClaimIsCurrent
PROPERTIES
  SyncEnds
  

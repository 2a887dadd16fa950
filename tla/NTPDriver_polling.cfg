CONSTANTS
  Offsets <- MCOffsets
  Unknown <- MCUnknown
  FixGood = 2
  PollingMode = TRUE
  AppCalls <- PollingCalls
  MaxCalls = 2
  Honest = TRUE
  NetworkFails = TRUE
  ClockJumps = FALSE
SPECIFICATION Spec
CHECK_DEADLOCK FALSE
INVARIANTS
  PollingFlagsSettle
  ErrorBoundHolds

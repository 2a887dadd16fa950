CONSTANTS
  Builds = {"single", "iOS", "dual", "triple"}
  Errors <- MCErrors
  MaxBootTime = 2
  RebootGap = 4
  SleepGap = 1
  MaxOffset = 2
  MinAlt <- MCMinAlt
  NoBootTime <- MCNoBootTime
  Accurate = 1
  Unknown = 2
SPECIFICATION Spec
CHECK_DEADLOCK FALSE
INVARIANTS
  MovesAreTold
  
PROPERTIES
  SleepMovesNoClock

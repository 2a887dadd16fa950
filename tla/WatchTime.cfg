CONSTANTS
  Hour = 6
  Day = 24
  CacheSpan = 720
  CachePreload = 360
  Zones <- MCZones
  Cycles <- MCCycles
  Warps <- MCWarps
  Minute = 3
  Gap = 1
  Earliest <- MCEarliest
  Latest = 9000
  Starts <- MCStarts
  Skews = {0, 1}
  MaxNow = 1
  MaxOps = 3
SPECIFICATION Spec
CHECK_DEADLOCK FALSE
INVARIANTS
  HandsAreRight
PROPERTIES
  SpeedKeepsTheTime
  
  ClockIsKept

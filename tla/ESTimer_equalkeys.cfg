CONSTANTS
  Timers <- MCTimers
  Threads <- MCThreads
  ThreadOf <- MCThreadOf
  NoTimer = NoTimer
  AtTime <- SameTime
  Absolute = {t2}
  Repeat <- NoRepeat
  Skews <- NoSkew
  MaxClock = 2
  MaxResets = 0
  t1 = t1
  t2 = t2
  ui = ui
  driver = driver
SPECIFICATION FairSpec
CHECK_DEADLOCK FALSE
PROPERTIES
  ActivatedNotifies

CONSTANTS
  Timers <- MCTimers
  Threads <- MCThreads
  ThreadOf <- MCThreadOf
  NoTimer = NoTimer
  AtTime <- MCAtTime
  Absolute = {t2}
  Repeat <- MCRepeat
  Skews <- MCSkews
  MaxClock = 2
  MaxResets = 1
  t1 = t1
  t2 = t2
  ui = ui
  driver = driver
SPECIFICATION FairSpec
CHECK_DEADLOCK FALSE
INVARIANTS
  TypeOK
  NothingRefersToDeleted
PROPERTIES
  KeepsContract
  FulfilsContract
  CatchesUp
  ActivatedNotifies

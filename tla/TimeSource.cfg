CONSTANTS
  Last = 1
  Begins <- MCBegins
  Never = 99
  Second = 3
  Hold = 1
  MaxTime = 20
  Accurate = 1
  Unknown = 2
  NTPStatuses = {"PollingRefining", "Synchronized"}
  Observers <- MCObservers
  Direct = {"application"}
  MaxInbox = 2
SPECIFICATION Spec
CHECK_DEADLOCK FALSE
INVARIANTS
  ShowsTrueTime
  ElapsedIsTrue
  ObserversCatchUp
  BestIsUsable

CONSTANTS
  mine = mine
  near = near
  far = far
  NumHosts = 3
  UserHosts <- MCUserHosts
  Proximity <- MCProximity
  Sockets <- MCSockets
  HostOf <- MCHostOf
  MaxMeasured = 1
  Modes = {TRUE, FALSE}
  SendsFail = TRUE
  ThrottleBase = 1
  MaxPackets = 1
  MaxEntries = 2
SPECIFICATION FairSpec
CHECK_DEADLOCK FALSE
INVARIANTS
  TypeOK
  AssertionsHold
  GuardIsOpenAtRest
  NoHostIsLost
  SomethingIsPending

PROPERTIES
  HandlersReturn

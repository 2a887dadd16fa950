CONSTANTS
  Last = 4
  Begins <- MCBegins
  Never = 99
  Times <- MCTimes
  Callers = {driver, main}
SPECIFICATION FairSpec
INVARIANTS
  AnswersAreRight
PROPERTIES
  CallsReturn

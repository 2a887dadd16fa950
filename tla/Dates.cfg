CONSTANTS
  Periods <- MCPeriods
  Steps <- MCSteps
SPECIFICATION Spec
CHECK_DEADLOCK FALSE
INVARIANTS
  DatesFollow
  DatesComeBack
  
  WeeksAreRight

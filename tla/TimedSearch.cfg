CONSTANTS
  Checks <- MCChecks
  Searches = 3
SPECIFICATION Spec
INVARIANTS
  AlarmAge
  AnswerIsForGraph
  StaleOnlyAfterTimeout
CHECK_DEADLOCK FALSE

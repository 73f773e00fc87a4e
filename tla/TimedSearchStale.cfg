CONSTANTS
  Checks <- MCChecks
  Searches = 2
SPECIFICATION Spec
INVARIANT NoStaleAutomaton
CHECK_DEADLOCK FALSE

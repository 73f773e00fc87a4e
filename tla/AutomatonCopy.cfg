CONSTANTS
  Proofs <- MCProofs
SPECIFICATION FairSpec
INVARIANTS
  AssertionsHold
  AnswerIsTraceCondition
PROPERTIES
  ImplementsContainment
  CheckReturns
CHECK_DEADLOCK FALSE

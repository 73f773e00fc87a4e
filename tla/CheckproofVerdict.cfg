CONSTANTS
  Sessions <- TwoProofs
  Requests <- AnyRequest
  MaxCalls = 2
SPECIFICATION CSpec
INVARIANTS
  AnswerCorrect
CHECK_DEADLOCK FALSE

CONSTANTS
  Sessions <- OneProof
  Requests <- AnyRequest
  MaxCalls = 2
SPECIFICATION CSpec
INVARIANTS
  InputAccepted
  AnswerCorrect
  GivesUpWithoutLoop
CHECK_DEADLOCK FALSE

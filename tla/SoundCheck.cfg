CONSTANTS
  Requests <- MCRequests
  MaxCalls = 3
SPECIFICATION MCFairSpec
INVARIANTS
  TypeOK
  AssertionsHold
  MinimisePreservesSoundness
  NoDeadNodesAfterFusion
  VerdictCorrect
PROPERTY EveryCallReturns
CHECK_DEADLOCK FALSE

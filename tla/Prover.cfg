CONSTANTS
  Ax <- MCAx
  Rl <- MCRl
  Searches <- MCSearches
  Width = 4
  EntlDepths = {0, 1, 2}
  Jobs <- MCJobs
  Invalid <- MCInvalid
  MaxJobs = 3
SPECIFICATION MCFairSpec
INVARIANTS
  ResultIsProof
  PendingGoalsOpen
  RulesLegal
  FirstProof
  FailuresRight
  ProofsRight
PROPERTY BoundedSearchEnds
CHECK_DEADLOCK FALSE

CONSTANTS
  Rule <- MCRule
  Searches <- MCSearches
  InitialDefs = {}
  Acceptable <- MCAcceptable
SPECIFICATION FairSpec
INVARIANTS
  GoalsOpen
  ResultIsProof
  RulesLegal
PROPERTIES
  CutOnBranch
  Terminates
CHECK_DEADLOCK FALSE

CONSTANTS
  Ax <- MCAx
  Rl <- ModelRl
  Searches <- ModelSearches
  Width = 4
SPECIFICATION FairSpec
PROPERTY Terminates
CHECK_DEADLOCK FALSE

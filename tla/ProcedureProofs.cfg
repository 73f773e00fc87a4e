CONSTANTS
  Sequents <- MCSequents
  Goals <- MCGoals
  Axioms <- MCAxioms
  InfRules <- MCInfRules
  BackRules <- MCBackRules
  MaxNodes = 5
SPECIFICATION FairPSpec
INVARIANTS
  StrictBuds
  ProofsStayGood
  ExtractShares
PROPERTY ExtractionEnds
CHECK_DEADLOCK FALSE

CONSTANTS
  Sequents <- MCSequents
  Goals <- MCGoals
  Axioms <- MCAxioms
  InfRules <- MCInfRules
  BackRules <- MCBackRules
  MaxNodes = 5
SPECIFICATION Spec
INVARIANTS
  TypeOK
  ProofWellFormed
  SpliceNeverFails
  ValidForChecker
  AlwaysSound
  ClosedAtRoot
  SpliceIsCopy
PROPERTY NodesPersist
CHECK_DEADLOCK FALSE

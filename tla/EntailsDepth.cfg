CONSTANTS
  Ax <- MCAx
  Rl <- MCRl
  Searches <- MCSearches
  Width = 4
  EntlDepths = {1, 2}
  Jobs <- MCJobs
  Invalid <- MCInvalid
  MaxJobs = 2
SPECIFICATION UntimedSpec
INVARIANT DepthAsConfigured
CHECK_DEADLOCK FALSE

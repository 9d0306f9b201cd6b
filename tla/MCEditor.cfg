SPECIFICATION Spec
CONSTANTS
  Users <- BothUsers
  Runs <- TwoRuns
  Limit = 2
INVARIANTS TypeOK EdgesConnect SuccessIsReal PresentIsShown
CHECK_DEADLOCK FALSE

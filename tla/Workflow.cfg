CONSTANTS
  s1 = s1
  s2 = s2
  w = w
  Steps <- MCSteps
  Waits = {w}
  After <- MCAfter
  MaxAttempts = 2
  HasClass = TRUE
  Wraps = {"before"}
  MaxReplays = 2
SPECIFICATION FairSpec
CHECK_DEADLOCK FALSE
INVARIANTS OutcomesStay NoReleasedCall
PROPERTIES  RunSettles

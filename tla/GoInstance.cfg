CONSTANTS
  t1 = t1
  t2 = t2
  Tasks = {t1, t2}
  Kinds = {"stream", "fixed", "null", "raw", "ws"}
  Detach = {}
  ServesHTTP = TRUE
  HandlerJoins = TRUE
  MaxSteps = 2
SPECIFICATION FairSpec
CHECK_DEADLOCK FALSE
INVARIANTS NeverStuck  
PROPERTIES RequestEnds

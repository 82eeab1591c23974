CONSTANTS
  t1 = t1
  t2 = t2
  Tasks = {t1, t2}
  Kinds = {"stream", "fixed", "null", "raw", "ws"}
  Detach = {"cancel", "nullWrite"}
  ServesHTTP = TRUE
  HandlerJoins = FALSE
  MaxSteps = 2
SPECIFICATION Spec
CHECK_DEADLOCK FALSE
INVARIANTS ExitUnwound TasksOutlived
 

SPECIFICATION FairSpec
CONSTANTS
  None = None
  Triggers = {t1, t2, t3}
  Handled = {t1, t2}
  Failures = {"boot", "exit"}
INVARIANTS ServedBySame
PROPERTIES ImplementsSharedObject Answered 

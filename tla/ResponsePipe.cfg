CONSTANTS
  Sizes = {0, 1, 3}
  BufSize = 2
  MaxOps = 3
  Lengths = {2, 3}
  Foreign = {"raw", "ws"}
  HasFixedLength = TRUE
  MayCancel = TRUE
SPECIFICATION Spec
CHECK_DEADLOCK FALSE
INVARIANTS FixedIsWhole ClosedOnceAtEnd
PROPERTIES CommitFreezes ImplementsByteStream

SPECIFICATION FairSpec
CONSTANTS
  Chunks = {0, 1, 2}
  Slices = {1, 2}
  Deadlines = {0, 2, 3}
  MaxBytes = 3
  MaxReads = 3
  MaxWrites = 2
  MaxTime = 2
INVARIANTS ReadsInOrder WroteIsOnWire
 
CHECK_DEADLOCK FALSE

CONSTANTS
  Sizes = {1, 3}
  BufSize = 2
  MaxOps = 4
  Lengths = {2, 3}
  Foreign = {}
  HasFixedLength = TRUE
  MayCancel = TRUE
SPECIFICATION FairSpec
CHECK_DEADLOCK FALSE
 
PROPERTIES BodyEnds

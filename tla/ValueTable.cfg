SPECIFICATION Spec
CONSTANTS
  obj = obj
  str = str
  big = big
  Values <- MCValues
  Kind <- MCKind
  Results <- MCResults
  r1 = r1
  r2 = r2
  Slots = {r1, r2}
  Flavours = {"go", "tinygo"}
  GettersReenter = FALSE
  MaxDepth = 2
  MaxMoves = 1
  MaxCount = 2
INVARIANTS RefsAreValues ResultsArrive
SYMMETRY Symmetry
CHECK_DEADLOCK FALSE

CONSTANTS
  Small = FALSE
  Docs <- MCDocs
  Pascal <- MCPascal
SPECIFICATION Spec
INVARIANTS Wellformed AbsenceKept CallsFit 
CHECK_DEADLOCK FALSE

CONSTANTS
  Packages <- MCPackages
  Today = 9
SPECIFICATION Spec
INVARIANTS ScopesAreLexical IrIsWhole
CHECK_DEADLOCK FALSE

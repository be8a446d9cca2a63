SPECIFICATION MCSpec
CONSTANTS
  Grids <- MCGrids
  N = 4
INVARIANTS
  OneRootPerClass
  CountIsClasses
  RootsOnePerClass
PROPERTY BothReturn
CHECK_DEADLOCK FALSE

SPECIFICATION FairSpec
CONSTANTS
  N = 3
  Matrices = 1
  Tiles = 3
  Parts = 2
INVARIANTS
  CountersInv
PROPERTIES
  ImplementsLu
  Termination
CHECK_DEADLOCK FALSE

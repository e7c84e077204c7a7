SPECIFICATION FairSpec
CONSTANTS
  N = 2
  Matrices = 1
  Tiles = 3
  Parts = 2
INVARIANTS
  SyncInv
PROPERTIES
  ImplementsLu
  Termination
CHECK_DEADLOCK FALSE

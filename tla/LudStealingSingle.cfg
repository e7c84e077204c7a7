SPECIFICATION FairSpec
CONSTANTS
  N = 2
  Matrices = 1
  Tiles = 1
  Parts = 2
PROPERTIES
  Termination
CHECK_DEADLOCK FALSE

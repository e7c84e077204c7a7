SPECIFICATION FairSpec
CONSTANTS
  N = 2
  Inputs <- Arrays
  Modes = {"DataParallel", "OnlyTaskParallel"}
  BLOCK_SIZE = 2
  CHUNK_DIV = 1
  SEQUENTIAL_CUTOFF = 4
  DATAPAR_CUTOFF = 5
  HALF = 16
INVARIANTS
  SegmentsInv
  PendingCountsTasks
  ReturnedMeansSorted
PROPERTIES
  Termination
CHECK_DEADLOCK FALSE

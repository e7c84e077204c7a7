SPECIFICATION FairSpec
CONSTANTS
  N = 2
  Inputs <- Arrays
  BLOCK_SIZE = 2
  SEQUENTIAL_CUTOFF = 4
  DATAPAR_CUTOFF = 5
  HALF = 16
INVARIANTS
  PartitionInv
  ReferencesCounted
  FinishedMeansSorted
PROPERTIES
  Termination
CHECK_DEADLOCK FALSE

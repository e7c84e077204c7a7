SPECIFICATION FairSpec
CONSTANTS
  N = 3
  BlockSize = 2
  Lengths = {0, 1, 4, 7}
INVARIANTS
  SumInv
  FinishedMeansSummed
PROPERTIES
  Termination
CHECK_DEADLOCK FALSE

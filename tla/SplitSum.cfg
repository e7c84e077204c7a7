SPECIFICATION FairSumSpec
CONSTANTS
  N = 3
  BlockSize = 2
  Lengths = {0, 3, 4, 9, 15}
INVARIANTS
  SumInv
  FinishedMeansSummed
PROPERTIES
  SumTermination
CHECK_DEADLOCK FALSE

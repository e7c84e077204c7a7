SPECIFICATION FairSpec
CONSTANTS
  N = 3
  BlockSize = 2
  Programs <- SmallPrograms
INVARIANTS
  LookBackInv
  OutputCorrect
  CompletionInv
PROPERTIES
  Termination
CHECK_DEADLOCK FALSE

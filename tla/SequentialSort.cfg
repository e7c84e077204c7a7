SPECIFICATION FairSortSpec
CONSTANTS
  Numbers = {1, 2, 3}
  MaxLength = 6
  INSERTION_SORT_CUTOFF = 2
INVARIANTS
  SortInv
PROPERTIES
  SortTermination
CHECK_DEADLOCK FALSE

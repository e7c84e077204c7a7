SPECIFICATION Spec
CONSTANTS
  N = 3
  a1 = a1
  a2 = a2
  Addrs = {a1, a2}
  Null = Null
  MaxTasks = 2
  Sizes = {2}
  U32 = 5
  TAGS = 4
  HALF_ADDRESSES = 2
SYMMETRY AddrSymmetry
INVARIANTS
  TypeOK
  SchedulerInv
  ExclusiveFinish
  ChunkOwnership
PROPERTIES
  HiddenOnlyWhenClaimed
CHECK_DEADLOCK FALSE

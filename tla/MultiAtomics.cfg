SPECIFICATION FairHistorySpec
CONSTANTS
  N = 2
  a1 = a1
  a2 = a2
  Addrs = {a1, a2}
  Null = Null
  MaxTasks = 2
  Sizes = {0, 1, 3, 4}
  ATOMICS = 2
  MIN_CHUNKS = 1
  U32 = 9
INVARIANTS
  ChunkInv
PROPERTIES
  ImplementsPool
  ImplementsAssistPool
  ProtocolSpec
  Termination
CHECK_DEADLOCK FALSE

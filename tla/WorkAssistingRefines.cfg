SPECIFICATION FairHistorySpec
CONSTANTS
  N = 2
  a1 = a1
  a2 = a2
  Addrs = {a1, a2}
  Null = Null
  MaxTasks = 3
  Sizes = {0, 1, 2}
  U32 = 4
PROPERTIES
  ImplementsPool
  ImplementsAssistPool
  ProtocolSpec
  Termination
CHECK_DEADLOCK FALSE

CONSTANTS
  PoolThread = {1, 2}
  Controls = 3
  CleanupCapacity = 2
  UserdataCapacity = 1
  Data = {1}
  ArenaSize = 7
  BlockDefault = 2
  BlockHeader = 1
  AllocSizes = {1, 3}
  MaxPoolOps = 4
  Waiter = {w1, w2, w3}
  Timed = {w2, w3}
  MaxItems = 3
  Nobody = Nobody
  Creator = {c1, c2}
  MaxProcesses = 2
  MaxCreated = 4
SPECIFICATION AprSpec
INVARIANTS PoolMemory CleanupsOnce AprWellFormed
PROPERTIES CondServes JoinReturns
CHECK_DEADLOCK FALSE

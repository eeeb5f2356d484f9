\* The three regimes of the queue of a module.
CONSTANTS
  server = server
  peer = peer
  l1 = l1
  l2 = l2
  o1 = o1
  o2 = o2
  Producer <- MCProducer
  Elt <- LifeElt
  Pool <- MCPool
  PoolOf <- LifePoolOf
  NoElt = NoElt
  NoOp = NoOp
  UintMod = 8
  FifoSize = 2
  Op <- LifeOp
  SpuriousWakeups = FALSE
  Urgent <- MCProducer
  Regimes = {"life", "push", "spurious"}
SPECIFICATION MCSpec
INVARIANTS ElementsOwned ActivatingCounted NeverAsleepOnWork RequestsInQueue
PROPERTIES CleanKeepsAllowed KillIsRun QueuedServed
CHECK_DEADLOCK FALSE

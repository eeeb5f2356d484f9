\* The life cycle on several processors: a pop comes back with nothing.
CONSTANTS
  server = server
  peer = peer
  l1 = l1
  l2 = l2
  o1 = o1
  o2 = o2
  Producer <- MCProducer
  Elt <- LifeElt
  Pool <- MCPool
  PoolOf <- LifePoolOf
  NoElt = NoElt
  NoOp = NoOp
  UintMod = 8
  FifoSize = 3
  Op <- LifeOp
  SpuriousWakeups = FALSE
  Urgent = {}
  Regimes = {"life"}
SPECIFICATION MCSpec
PROPERTY PopNeverEmptyHanded
CHECK_DEADLOCK FALSE

\* Requests of every kind, answered in time or timed out.
CONSTANTS
  n1 = n1
  n2 = n2
  n3 = n3
  Node <- MCNode
  NoNode = NoNode
  MaxID = 3
  MaxConcurrent = 1
  Kinds <- AllKinds
  RequestPool = 1
  AnswerPool = 3
  EventPool = 1
  Expiry = FALSE
  Urgent = FALSE
  SpuriousWakeups = FALSE
  Regimes = {"in_time", "mixed"}
SPECIFICATION MCSpec
INVARIANT EntriesInTime
PROPERTIES OkMeansAnswered SyncReturns
CHECK_DEADLOCK FALSE

\* Synchronous requests that may time out, on several processors.
CONSTANTS
  n1 = n1
  n2 = n2
  n3 = n3
  Node = {n1, n2}
  NoNode = NoNode
  MaxID = 2
  MaxConcurrent = 1
  Kinds <- SyncKinds
  RequestPool = 1
  AnswerPool = 2
  EventPool = 0
  Expiry = TRUE
  Urgent = FALSE
  SpuriousWakeups = FALSE
  Regimes = {"in_time"}
SPECIFICATION MCSpec
PROPERTY OkMeansAnswered
CHECK_DEADLOCK FALSE

\* Start-up over DDS, and data between two domains.
CONSTANTS
  Main = "main"
  PD = {"sender", "receiver"}
  EntityOf <- MCEntityOf
  InfoPort <- MCInfoPort
  NbClient <- MCNbClient
  ReplyOffset = 5000
  ControlRoutes <- MCControlRoutes
  WireRoutes <- MCWireRoutes
  Topics <- MCTopics
  ModulesOf <- MCModulesOf
  DataInterface <- MCDataInterface
  KeepLast = 12
  TakeMax = 2
  MaxData = 1
  SlowInit = TRUE
SPECIFICATION DdsSpec
INVARIANT DdsInOrder
PROPERTIES DdsEveryoneRuns DdsKillStops
CHECK_DEADLOCK FALSE

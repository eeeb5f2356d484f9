\* The modules may be READY before the server that ordered their initialisation
\* tests whether they are.
CONSTANTS
  Main = "main"
  PD = {"sender", "receiver"}
  EntityOf <- MCEntityOf
  InfoPort <- MCInfoPort
  NbClient <- MCNbClient
  ReplyOffset = 5000
  ControlRoutes <- MCControlRoutes
  WireRoutes <- MCWireRoutes
  Topics <- MCTopics
  ModulesOf <- MCModulesOf
  DataInterface <- MCDataInterface
  KeepLast = 12
  TakeMax = 2
  MaxData = 1
  SlowInit = FALSE
SPECIFICATION DdsSpec
INVARIANT DdsStartsWhenReady
CHECK_DEADLOCK FALSE

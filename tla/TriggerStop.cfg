\* A STOP while the trigger thread of a dynamic trigger is between its test and
\* its wait.
CONSTANTS
  MaxEvents = 2
  Delays = {1}
  Ops <- StopOps
  MaxOps = 3
  MaxTime = 3
  Prompt = TRUE
  nb_trigger_event = 2
  NbOperations <- MCOperations
  MaxTriggerOps = 5
  NbEvents = 2
  MaxApexOps = 5
  Parts = {"dynamic"}
SPECIFICATION MCSpec
PROPERTY StopReturns
CHECK_DEADLOCK FALSE

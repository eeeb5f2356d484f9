\* A dynamic trigger through its life cycle, with two events; the periodic
\* triggers with two periods.
CONSTANTS
  MaxEvents = 2
  Delays = {0, 1}
  Ops <- AllOps
  MaxOps = 5
  MaxTime = 3
  Prompt = TRUE
  nb_trigger_event = 2
  NbOperations <- MCOperations
  MaxTriggerOps = 5
  NbEvents = 2
  MaxApexOps = 5
  Parts = {"dynamic", "periodic", "apex"}
SPECIFICATION MCSpec
INVARIANTS TriggersSendOnce NoOversleep NeverEarly
PROPERTIES PeriodicTriggersStop EventsAreSent
CHECK_DEADLOCK FALSE

CONSTANTS
  d1 = d1
  d2 = d2
  mod1 = mod1
  trig1 = trig1
  mod2 = mod2
  Domain <- MCDomain
  Unit <- MCUnit
  DomainOf <- MCDomainOf
  ComponentOf <- MCComponentOf
  Descriptors <- MCDescriptors
  Trigger <- MCTrigger
  IdOf <- MCIdOf
  NbTry = 2
  Script <- MCScript
  Killer <- MCKiller
  Orders <- MCOrders
  MaxFaults = 1
  CrashesEarly = FALSE
SPECIFICATION FairSpec
CHECK_DEADLOCK FALSE
INVARIANT StatesAgree
PROPERTIES StartWhenAllReady EveryoneRuns KillEndsDomain

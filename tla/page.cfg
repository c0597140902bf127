SPECIFICATION Spec
CONSTANTS
  None = None
  Customers = {"ana", "bia"}
  holder <- TwoCustomers
  Greets = TRUE
  MaxThreads = 2
  MaxCalls = 2
  MaxTurns = 2
  MaxAsides = 1
CHECK_DEADLOCK FALSE
INVARIANTS
  TypeOK
  OneTurnAtATime
  OneLiveRail
  ShownIsWhatWasSaid

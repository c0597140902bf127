SPECIFICATION Spec
CONSTANTS
  Conversations = {t1}
  Customers = {ana, bob}
  Requests = {r1, r2, r3, r4}
  InFlight = 3
  None = None
SYMMETRY Interchangeable
CHECK_DEADLOCK FALSE
INVARIANTS
  ThreadsInv
  OpenedIsKept
  CompletedIsListed

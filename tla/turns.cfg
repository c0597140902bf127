SPECIFICATION Spec
CONSTANTS
  Turns = {first, second}
  Tools = {pay, look}
  first = first
  second = second
  Asks <- AsksOf
SYMMETRY Interchangeable
CHECK_DEADLOCK FALSE
INVARIANTS
  TypeOK
  RailIsInOrder
  StartsSettle
  RefusedNeverRuns
  AnswerIsScreened
  BlockedMeansRefused
  AnsweredIsKept
  OrphansHaveACause
  GoesOnToItsTrace

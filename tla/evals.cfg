SPECIFICATION Spec
CONSTANTS
  cases <- Chosen
  thresholds <- Bars
  version = v3
  Versions = {v2, v3}
  Answers <- SomeAnswers
  Histories <- SomeHistories
  concurrency = 2
CHECK_DEADLOCK FALSE
INVARIANTS
  TypeOK
  EveryCaseIsCounted
  RatesAreRates
  FindingsReachTheReport
  GreenIsClean
  CrossingIsReported
  ThreadsAreDeleted
PROPERTIES
  RunEnds

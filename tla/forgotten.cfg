SPECIFICATION Spec
CONSTANTS
  cases <- Chosen
  thresholds <- Bars
  version = v3
  Versions = {v3}
  Answers <- SomeAnswers
  Histories <- NoHistory
  concurrency = 1
INVARIANT
  FabricationFailsTheRun
CHECK_DEADLOCK FALSE

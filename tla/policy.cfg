SPECIFICATION Spec
CONSTANTS
  Recipients = {"renata"}
  Amounts = {1, 50000, 50001, 100000, 100001, 500000, 500001}
INVARIANTS
  FollowsTheTable
  SmallerIsNeverStricter
PROPERTIES
  StepUpIsEnough

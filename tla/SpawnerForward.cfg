SPECIFICATION FairSpec
CONSTANTS
  Capacity = 2
  MaxChunks = 5
INVARIANTS
  OutputComplete
  ForwardedIsPrefix
  OkOnlyAfterLag
PROPERTIES
  StepReturns
CHECK_DEADLOCK FALSE

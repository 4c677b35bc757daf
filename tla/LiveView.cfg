SPECIFICATION ViewFairSpec
CONSTANTS
  a = a
  b = b
  Step = {a, b}
  Always = Always
  Never = Never
  Workflow = Workflow
  BadInterval = {}
  DependsOn <- PairDependsOn
  Condition <- PairCondition
  OnFailure <- PairOnFailure
  MaxAttempts <- PairMaxAttempts
  Capacity = 2
  MaxOutputs = 2
INVARIANTS
  ViewAgrees
PROPERTIES
  SettledStaysShown
  ListenerEnds
CHECK_DEADLOCK FALSE

SPECIFICATION FairSpec
CONSTANTS
  a = a
  b = b
  c = c
  d = d
  e = e
  Step = {a, b, c, d, e}
  Always = Always
  Never = Never
  Workflow = Workflow
  BadInterval = {d}
  DependsOn <- MCDependsOn
  Condition <- MCCondition
  OnFailure <- MCOnFailure
  MaxAttempts <- MCMaxAttempts
INVARIANTS
  DependenciesSettled
  ConditionNotStale
  NoFalseDeadlock
  AttemptsBounded
  EventsTell
PROPERTIES
  ContractSpec
  Termination

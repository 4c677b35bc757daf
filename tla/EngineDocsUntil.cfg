SPECIFICATION Spec
CONSTANTS
  check = check
  watch = watch
  report = report
  Step = {check, watch, report}
  Always = Always
  Never = Never
  Workflow = Workflow
  BadInterval = {}
  DependsOn <- MCDependsOn
  Condition <- MCCondition
  OnFailure <- MCOnFailure
  MaxAttempts <- MCMaxAttempts
  Until <- MCUntil
PROPERTY UntilStopsRetrying

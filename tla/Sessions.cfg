SPECIFICATION Spec
CONSTANTS
  coder = coder
  tester = tester
  Role = {coder, tester}
  MaxAgents = 2
  MaxStarts = 3
INVARIANTS
  IdsKept
  StatusAgreesAlone
SYMMETRY RoleSymmetry
CHECK_DEADLOCK FALSE

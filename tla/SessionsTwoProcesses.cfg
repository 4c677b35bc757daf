SPECIFICATION Spec
CONSTANTS
  coder = coder
  tester = tester
  Role = {coder, tester}
  MaxAgents = 1
  MaxStarts = 3
INVARIANTS
  StatusAgrees
SYMMETRY RoleSymmetry
CHECK_DEADLOCK FALSE

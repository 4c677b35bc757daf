SPECIFICATION TerminalSpec
CONSTANTS
  Step = {"review"}
  OutputCap = 2
  MaxProduced = 3
  MaxSelects = 2
INVARIANTS
  NewestIsShown
CHECK_DEADLOCK FALSE

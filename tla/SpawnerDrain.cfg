SPECIFICATION FairSpec
CONSTANTS
  Capacity = 2
  MaxChunks = 3
PROPERTIES
  DrainEnds
CHECK_DEADLOCK FALSE

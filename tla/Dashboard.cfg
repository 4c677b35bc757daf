SPECIFICATION FairSpec
CONSTANTS
  b1 = b1
  b2 = b2
  r1 = r1
  Box = {b1, b2}
  Refresh = {r1}
  Poll = Poll
  Warm = Warm
  NoBody = NoBody
  MaxEvents = 6
INVARIANTS
  PageAgrees
PROPERTIES
  PendingKept
  CatchesUp
CHECK_DEADLOCK FALSE

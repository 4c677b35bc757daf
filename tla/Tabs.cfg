SPECIFICATION Spec
CONSTANTS
  s1 = s1
  s2 = s2
  s3 = s3
  Session = {s1, s2, s3}
  NoSession = NoSession
INVARIANTS
  PaneAgrees
  RestoredAsLeft
  ClosedStaysClosed
PROPERTIES
  ShownStays
SYMMETRY SessionSymmetry

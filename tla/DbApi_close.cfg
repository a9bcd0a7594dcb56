SPECIFICATION Spec
CONSTANTS
  Cursors = {k1, k2}
  MaxRows = 1
  MaxExecutes = 0

INVARIANTS
  ClosedMeansAllClosed
CHECK_DEADLOCK FALSE

SPECIFICATION Spec
CONSTANTS
  Cursors = {k1, k2, k3}
  MaxRows = 2
  MaxExecutes = 3
SYMMETRY CursorSymmetry
INVARIANTS
  TypeOK
  FetchedInOrder
  BusyHasReader
  OpenCursorsListed
PROPERTIES
  ClosedStaysClosed
CHECK_DEADLOCK FALSE

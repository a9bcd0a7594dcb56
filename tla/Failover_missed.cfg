SPECIFICATION Spec
CONSTANTS
  Clients = {c1, c2}
  Hosts <- TwoHosts
  DequeOf <- SharedDeque
  Manners = {"up", "down"}
  MaxChanges = 0
INVARIANTS
  LiveHostIsFound
CHECK_DEADLOCK FALSE

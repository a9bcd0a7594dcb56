SPECIFICATION Spec
CONSTANTS
  MaxCalls = 2
  MaxBlocks = 1
  MaxFlight = 2
  Infos = {}
  Hosts <- TwoHosts
  Kinds = {"iter"}
  PullStale = FALSE
INVARIANTS
  UnreadIsGuarded
CHECK_DEADLOCK FALSE

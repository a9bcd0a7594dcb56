SPECIFICATION FairSpec
CONSTANTS
  MaxCalls = 3
  MaxBlocks = 1
  MaxFlight = 2
  Infos = {"PROGRESS", "PROFILE_INFO", "UNKNOWN"}
  Hosts <- TwoHosts
  Kinds = {"execute", "iter"}
  PullStale = TRUE
INVARIANTS
  TypeOK
  IInv
  CompleteAnswer
  OwnRows
  InFlightIsLastQuery
  QueryMeetsIdleServer
  LastQueryPresent
  RefusalJustified
PROPERTIES
  CallReturns
CHECK_DEADLOCK FALSE

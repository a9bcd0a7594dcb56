SPECIFICATION Spec
CONSTANTS
  MaxCalls = 3
  MaxBlocks = 2
  MaxFlight = 1
  Infos = {"PROGRESS", "LOG"}
  Hosts <- OneHost
  Kinds = {"insert", "iter", "progress"}
  PullStale = FALSE
INVARIANTS
  AnswerInv
  QueryMeetsIdleServer
  StreamedAnswer
PROPERTIES
  KeepsContract
  CompletionLeavesQuiet
  RefusedForUnreadResult
CHECK_DEADLOCK FALSE

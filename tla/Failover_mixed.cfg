SPECIFICATION FairSpec
CONSTANTS
  Clients = {c1, c2, c3}
  Hosts <- TwoHosts
  DequeOf <- MixedDeques
  Manners = {"up", "down", "hangup"}
  MaxChanges = 1
INVARIANTS
  TypeOK
  WalkInv
  MissedOnlyIfDisturbed
  LastHostRemembered
PROPERTIES
  ConnectedUnlessHungUp
CHECK_DEADLOCK FALSE

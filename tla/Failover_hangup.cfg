SPECIFICATION FairSpec
CONSTANTS
  Clients = {c1}
  Hosts <- TwoHosts
  DequeOf <- OwnDeques
  Manners = {"up", "hangup"}
  MaxChanges = 0
PROPERTIES
  EventuallyConnected
CHECK_DEADLOCK FALSE

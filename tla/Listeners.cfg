SPECIFICATION FairSpec
CONSTANTS
  a1 = a1
  a2 = a2
  x1 = x1
  x2 = x2
  Apps <- MCApps
  Exprs <- MCExprs
  Slots = 2
  MaxIds = 2
  MaxMessages = 2
  None = None
CHECK_DEADLOCK FALSE
INVARIANTS
  RightListener
  RoutesFollowListeners
  HandledInOrder
PROPERTIES
  MessagesHandled
  StopReturns

SPECIFICATION Spec
CONSTANTS
  updates = updates
  depth = depth
  lastTrade = lastTrade
  l1 = l1
  l2 = l2
  Destinations <- AllDestinations
  Feeds <- AccountAndMarket
  Listeners <- TwoListeners
  MaxReconnectAttempts = 1
  MaxSockets = 3
  MaxIds = 6
SYMMETRY ClientSymmetry
CHECK_DEADLOCK FALSE
INVARIANTS
  SubscribedOnce
  NothingLeftBehind

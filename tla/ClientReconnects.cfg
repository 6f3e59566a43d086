SPECIFICATION Spec
CONSTANTS
  updates = updates
  depth = depth
  lastTrade = lastTrade
  l1 = l1
  l2 = l2
  Destinations <- OneDestination
  Feeds <- OneFeed
  Listeners <- OneListener
  MaxReconnectAttempts = 5
  MaxSockets = 3
  MaxIds = 4
CHECK_DEADLOCK FALSE
PROPERTIES
  Resubscribed

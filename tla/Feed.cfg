SPECIFICATION Spec
CONSTANTS
  k1 = k1
  order = order
  depth = depth
  Clients <- OneClient
  AccountTopics <- OneRow
  OrderStates <- OneRow
  MarketTopics <- OneDepth
  MaxChanges = 2
  MaxSessions = 2
  MaxMishaps = 1
VIEW OpenView
CHECK_DEADLOCK FALSE
INVARIANTS
  
  AtMostOneBehind

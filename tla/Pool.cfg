SPECIFICATION FairSpec
CONSTANTS
  s1 = s1
  s2 = s2
  c1 = c1
  u1 = u1
  e1 = e1
  x1 = x1
  Submits <- TwoSubmits
  Cancels <- OneCancel
  Reads <- NoTask
  Updates <- OneUpdate
  Executions <- OneExecution
  Exchanges <- OneExchange
  ExchangeOf <- FromOneExchange
  PoolSize = 2
  MaxAttempts = 2
CHECK_DEADLOCK FALSE
INVARIANTS
  StuckOnlyOnSubmits
PROPERTIES
  EveryTaskReturns

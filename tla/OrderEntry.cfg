SPECIFICATION Spec
CONSTANTS
  r1 = r1
  r2 = r2
  l1 = l1
  l2 = l2
  e0 = e0
  e1 = e1
  e2 = e2
  a1 = a1
  id1 = id1
  A = A
  B = B
  x7 = x7
  x8 = x8
  None = None
  Creates = {e1, e2}
  Loads = {l1, l2}
  Codes = {A, B}
  Xids = {x7, x8}
  Listings <- SomeListings
  InitialExchanges <- OneExchange
  MaxMishaps = 1
  Requests = {r1, r2}
  Accounts = {a1}
  ExtIds = {id1}
  Forms <- SomeForms
  Scenarios <- SomeScenarios
SYMMETRY Interchangeable
VIEW LiveView
CHECK_DEADLOCK FALSE
INVARIANTS
  TypeOK
  NumbersAreConsecutive
  SelfTradeOnlyWhenRacing
  OrdersSurviveRestart
  MemoryIsTable
  TableKeysKnown
  FoundByExchangeId
  OneFeedPerExchange
PROPERTIES
  ImplementsAccountOrders

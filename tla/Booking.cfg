SPECIFICATION FairSpec
CONSTANTS
  a1 = a1
  a2 = a2
  i1 = i1
  i2 = i2
  iUnknown = iUnknown
  x1 = x1
  x2 = x2
  None = None
  Exchanges = {x1, x2}
  Accounts = {a1, a2}
  Instruments = {i1, i2}
  Executions <- Reported
  InitialCash <- StartingCash
  MaxExecutions = 3
  MaxFaults = 1
  MaxCrashes = 1
INVARIANTS TypeOK PositionIsSumOfBooked OnePositionRow PublishedIsCommitted BroadcastInOrder
PROPERTIES ImplementsLedger EveryExecutionIsBooked

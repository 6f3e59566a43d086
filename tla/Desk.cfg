SPECIFICATION FairSpec
CONSTANTS
  A = A
  B = B
  i1 = i1
  i2 = i2
  Accounts = {A, B}
  Instruments = {i1, i2}
  Listed = {i1}
  Held <- SomeHeld
  MaxEvents = 2
CHECK_DEADLOCK FALSE
INVARIANTS
  TotalsAddUp
  RowsAreCurrent
PROPERTIES
  RowsNeverGoBack
  

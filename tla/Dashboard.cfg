SPECIFICATION Spec
CONSTANTS
  A = A
  B = B
  NoAccount = NoAccount
  Accounts = {A, B}
  MaxCalls = 1
INVARIANTS
  ShowsSelected

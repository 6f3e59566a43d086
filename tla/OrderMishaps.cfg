SPECIFICATION Spec
CONSTANTS
  o1 = o1
  c1 = c1
  c2 = c2
  None = None
  Orders = {o1}
  Cancelers = {c1}
  MaxMsgs = 2
  MaxAttempts = 2
  MaxTime = 1
  Skew = 0
  DistinctTimes = FALSE
  LiveCancelReply = TRUE
  MaxFaults = 1
  MaxOutages = 1
  MaxMishaps = 1
VIEW BehaviourView
INVARIANTS HistoryIsComplete OrderIsKnown
PROPERTIES CancelNeverReopens TerminalReopenedOnlyOnTie ImplementsLog

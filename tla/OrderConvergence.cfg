SPECIFICATION FairSpec
CONSTANTS
  o1 = o1
  c1 = c1
  c2 = c2
  None = None
  Orders = {o1}
  Cancelers = {c1}
  MaxMsgs = 2
  MaxAttempts = 4
  MaxTime = 1
  Skew = 0
  DistinctTimes = TRUE
  LiveCancelReply = FALSE
  MaxFaults = 1
  MaxOutages = 0
  MaxMishaps = 1
PROPERTIES TerminalIsFinal HandlersFinish Converges

SPECIFICATION Spec
CONSTANTS
  o1 = o1
  c1 = c1
  c2 = c2
  None = None
  Orders = {o1}
  Cancelers = {c1, c2}
  MaxMsgs = 2
  MaxAttempts = 2
  MaxTime = 1
  Skew = 0
  DistinctTimes = FALSE
  LiveCancelReply = FALSE
  MaxFaults = 0
  MaxOutages = 0
  MaxMishaps = 0
SYMMETRY CancelSymmetry
VIEW PublishedView
INVARIANTS TypeOK LockedIsNextVersion PublishedIsCommittedOrSuperseded

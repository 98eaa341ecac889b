SPECIFICATION FairSpec
CONSTANTS
  N = 5
  MaxFrags = 1
  FragSizes <- TwoBytes
  Budget = 2
  Smp = TRUE
  SlowEnd = FALSE
  MapFaults = FALSE
  Reopen = FALSE
PROPERTY QueuedIsSent
CHECK_DEADLOCK FALSE

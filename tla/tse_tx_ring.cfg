SPECIFICATION Spec
CONSTANTS
  N = 6
  MaxFrags = 2
  FragSizes <- TwoBytes
  Budget = 2
  Smp = TRUE
  SlowEnd = TRUE
  MapFaults = FALSE
  Reopen = FALSE
INVARIANT NoOverwrite
INVARIANT PacketsWhole
INVARIANT StoppedNeedsReason
CHECK_DEADLOCK FALSE

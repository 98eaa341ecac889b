SPECIFICATION FairSpec
CONSTANTS
  N = 5
  MaxFrags = 1
  FragSizes <- TwoBytes
  Budget = 2
  Smp = FALSE
  SlowEnd = FALSE
  MapFaults = FALSE
  Reopen = FALSE
INVARIANT NeverUnexpectedlyFull
PROPERTY QueuedIsSent
PROPERTY QueueWakes
PROPERTY Reclaimed

SPECIFICATION Spec
CONSTANTS
  N = 4
  MaxFrags = 1
  FragSizes <- TwoBytes
  Budget = 2
  Smp = TRUE
  SlowEnd = TRUE
  MapFaults = TRUE
  Reopen = TRUE
INVARIANT TailTerminates

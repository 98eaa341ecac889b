SPECIFICATION FairSpec
CONSTANTS
  p1 = p1
  p2 = p2
  Procs <- TwoProcs
  MaxRefs = 2
INVARIANT PinnedWhileOpen
INVARIANT CaptureKept
PROPERTY StartsOnWholeFrame
PROPERTY CaptureServed
PROPERTY DisplayActive
PROPERTY ThreadStops
CHECK_DEADLOCK FALSE

SPECIFICATION FairSpec
CONSTANTS
  h0 = h0
  h1 = h1
  tx = tx
  rx = rx
  Harts <- TwoHarts
  Hart0 = h0
  Kickers <- TwoKickers
  Depth = 1
  KickMod = 3
  MayWrap = FALSE
  InitUseIpi = FALSE
  ParamWrites = FALSE
  Slow = FALSE
  Recovery = FALSE
  Faults <- NoFaults
PROPERTY SendReceived
PROPERTY StopCompletes
PROPERTY KickDrained

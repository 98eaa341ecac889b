SPECIFICATION Spec
CONSTANTS
  h0 = h0
  h1 = h1
  tx = tx
  rx = rx
  Harts <- OneHart
  Hart0 = h0
  Kickers <- NoFaults
  Depth = 2
  KickMod = 8
  MayWrap = TRUE
  InitUseIpi = TRUE
  ParamWrites = FALSE
  Slow = FALSE
  Recovery = FALSE
  Faults <- HandledFaults
INVARIANT KickNotLost
INVARIANT BootHandshake
INVARIANT NoUseAfterFree
INVARIANT InboundQuiet

SPECIFICATION Spec
CONSTANTS
  h0 = h0
  h1 = h1
  tx = tx
  rx = rx
  Harts <- OneHart
  Hart0 = h0
  Kickers <- NoFaults
  Depth = 1
  KickMod = 3
  MayWrap = FALSE
  InitUseIpi = TRUE
  ParamWrites = TRUE
  Slow = TRUE
  Recovery = TRUE
  Faults <- AllFaults
INVARIANT KickInv
INVARIANT VringsInCarveouts

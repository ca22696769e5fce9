SPECIFICATION Spec
CONSTANTS
  w1 = w1
  w2 = w2
  base = base
  app = app
  peer = peer
  Workers = {w1, w2}
  Modules = {base, app}
  Requires <- AppOnBase
  Items = 1
  Ops <- NoClosing
  ViaBus = TRUE
  MayMountFail = FALSE
  MayCleanupFail = FALSE
  MaxScopes = 3
INVARIANT RequiredStay
CHECK_DEADLOCK FALSE

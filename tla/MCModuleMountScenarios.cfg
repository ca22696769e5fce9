SPECIFICATION ScenarioSpec
CONSTANTS
  w1 = w1
  w2 = w2
  base = base
  app = app
  peer = peer
  Workers = {w1, w2}
  Modules = {base, app, peer}
  Requires <- BothOnBase
  Items = 2
  Ops <- AllOps
  ViaBus = FALSE
  MayMountFail = TRUE
  MayCleanupFail = TRUE
  MaxScopes = 5
INVARIANTS TypeOK NothingLeaks MountsKeepRequired MountsKeepOrder OneMountRuns ListedIsMounted
PROPERTIES UnmountReleases RemovedIsReleased
CHECK_DEADLOCK FALSE

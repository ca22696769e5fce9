SPECIFICATION CalmSpec
CONSTANTS
  r1 = r1
  r2 = r2
  r3 = r3
  source = source
  Replicas = {r1, r2, r3}
  Sources = {source}
  MayFail = FALSE
  MaxVersions = 2
  MaxStops = 0
CHECK_DEADLOCK FALSE
INVARIANT VisibleOnEveryReplica

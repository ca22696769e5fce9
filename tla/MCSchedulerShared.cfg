SPECIFICATION DrainSpec
CONSTANTS
  r1 = r1
  r2 = r2
  Replicas = {r1, r2}
  Late = {r2}
  Ids <- OneId
  Kinds <- EveryOne
  Reuse = TRUE
  BucketTicks = 2
  SecondTicks = 2
  MayCancel = TRUE
  MayFail = TRUE
  StoreFails = {"claim", "save", "delete", "load"}
  Prompt = FALSE
  MaxNow = 1
  MaxAdds = 2
INVARIANTS TypeOK OneFirePerClaim
PROPERTIES SilencedStaysSilent StaysArmed
CHECK_DEADLOCK FALSE

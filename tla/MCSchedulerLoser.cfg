SPECIFICATION UpSpec
CONSTANTS
  r1 = r1
  r2 = r2
  Replicas = {r1, r2}
  Late = {r2}
  Ids <- OneId
  Kinds <- EveryTwo
  Reuse = FALSE
  BucketTicks = 1
  SecondTicks = 1
  MayCancel = FALSE
  MayFail = FALSE
  StoreFails = {}
  Prompt = TRUE
  MaxNow = 2
  MaxAdds = 2
INVARIANT ListedIsArmed
CHECK_DEADLOCK FALSE

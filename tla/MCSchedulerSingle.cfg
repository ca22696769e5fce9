SPECIFICATION SingleSpec
CONSTANTS
  r1 = r1
  r2 = r2
  Replicas = {r1}
  Late = {}
  Ids <- TwoIds
  Kinds <- EveryOneIn
  Reuse = FALSE
  BucketTicks = 1
  SecondTicks = 2
  MayCancel = FALSE
  MayFail = FALSE
  StoreFails = {"delete"}
  Prompt = TRUE
  MaxNow = 2
  MaxAdds = 2
INVARIANTS StoreMatchesMemory
PROPERTIES NoPublishAfterClose CloseReturns OneTimeAtLeastOnce StaysArmed UpEveryDueFires
CHECK_DEADLOCK FALSE

CONSTANTS
  c1 = c1
  c2 = c2
  Calls <- OneCall
  ModesOf <- AnyMode
  ReplyKinds = {"plain"}
  Deadlines <- OneCall
  Fallible <- OneCall
  Closing = TRUE
  NoCancelSignal <- NoCalls
  BufferSize = 1
  MaxChunks <- Two
  MaxTerminals <- One
SPECIFICATION Spec
INVARIANTS TypeOK NoSendOnClosedStream ChunksInOrder ReplyAfterItsChunks CloseJoinsDrains CloseSettlesCalls
CHECK_DEADLOCK FALSE

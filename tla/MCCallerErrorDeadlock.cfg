CONSTANTS
  c1 = c1
  c2 = c2
  Calls <- OneCall
  ModesOf <- ErrorMode
  ReplyKinds = {"plain"}
  Deadlines <- OneCall
  Fallible <- NoCalls
  Closing = FALSE
  NoCancelSignal <- NoCalls
  BufferSize = 1
  MaxChunks <- Two
  MaxTerminals <- None
SPECIFICATION FairSpec
PROPERTIES CallsReturn
CHECK_DEADLOCK FALSE

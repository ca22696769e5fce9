CONSTANTS
  c1 = c1
  c2 = c2
  Calls <- TwoCalls
  ModesOf <- BlockUnary
  ReplyKinds = {"plain"}
  Deadlines <- OneCall
  Fallible <- NoCalls
  Closing = TRUE
  NoCancelSignal <- NoCalls
  BufferSize = 1
  MaxChunks <- ThreeZero
  MaxTerminals <- ZeroOne
SPECIFICATION LiveSpec
INVARIANT BlockLosesNothing
PROPERTIES CallsReturn RepliedCallsReturn DrainsExit CloseReturns
CHECK_DEADLOCK FALSE

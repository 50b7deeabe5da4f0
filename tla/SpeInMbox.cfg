SPECIFICATION FairSpec
CONSTANTS
  None = None
  Writers = {w1, w2}
  Depth = 2
  MaxCount = 2
  MaxCalls = 2
  MayFail = TRUE
CHECK_DEADLOCK FALSE
INVARIANT WordsArrive
PROPERTIES ImplementsBuffer BlockingWrites WritesReturn

SPECIFICATION OutSpec
CONSTANTS
  OutNone = OutNone
  Readers = {r1, r2}
  OutDepth = 2
  OutCount = 2
  OutCalls = 3
  OutFails = TRUE
CHECK_DEADLOCK FALSE
INVARIANT WordsTakenOnce
PROPERTIES ReadsEnough ReadsReturn

SPECIFICATION LibSpec
CONSTANTS
  Abis = {32, 64}
  RegArgs = 2
  PrintfDirectives <- Printf
  ScanfDirectives <- Scanf
  MaxLength = 0
  Base = 8
  Addresses <- Somewhere
  Sizes <- SomeSizes
  MaxBlocks = 2
  Calls <- OneOfEach
  IovMax = 2
CHECK_DEADLOCK FALSE
INVARIANTS GetcwdRefusesNull
PROPERTIES ReallocFollows

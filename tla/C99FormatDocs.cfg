SPECIFICATION FormatSpec
CONSTANTS
  Abis = {32, 64}
  RegArgs = 2
  PrintfDirectives <- Printf
  ScanfDirectives <- Scanf
  MaxLength = 2
CHECK_DEADLOCK FALSE
INVARIANTS LongDoublePassed UnconvertedKept

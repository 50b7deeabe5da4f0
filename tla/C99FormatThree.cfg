SPECIFICATION FormatSpec
CONSTANTS
  Abis = {32, 64}
  RegArgs = 2
  PrintfDirectives <- FewPrintf
  ScanfDirectives <- FewScanf
  MaxLength = 3
CHECK_DEADLOCK FALSE
INVARIANTS ArgumentsPassed FitsAllocated ResultsStored

SPECIFICATION Spec
CONSTANTS
  t1 = t1  t2 = t2  t3 = t3
  None = None
  Threads = {t1, t2, t3}
  Entries = {"FD_SIG1", "FD_MBOX"}
  SignalEntries = {"FD_SIG1"}
  Numbers = {3, 4}
  OpenMayFail = TRUE
  InitialRefcounts <- Garbage
  MaxRefcount = 3
SYMMETRY Symmetric
INVARIANTS UsesOwnFile

SPECIFICATION Spec
CONSTANTS
  t1 = t1  t2 = t2  t3 = t3
  None = None
  Threads = {t1, t2, t3}
  Entries = {"FD_SIG1", "FD_MBOX"}
  SignalEntries = {"FD_SIG1"}
  Numbers = {0, 3, 4}
  OpenMayFail = TRUE
  InitialRefcounts <- Garbage
  MaxRefcount = 2
SYMMETRY Symmetric
INVARIANTS SaneUsesOwnFile NoLostFile
PROPERTIES ClosesOwnFile

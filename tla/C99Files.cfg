SPECIFICATION Spec
CONSTANTS
  c1 = c1  c2 = c2
  f1 = f1  f2 = f2
  None = None
  Contexts = {c1, c2}
  SPE_FOPEN_MAX = 6
  Operations = {"fopen", "tmpfile", "freopen", "fclose", "fgetc", "vprintf"}
  Files = {f1, f2}
  MinNr = 2
CONSTRAINT NotRaced
CHECK_DEADLOCK FALSE
SYMMETRY Symmetric
INVARIANTS OwnStreams NoLostStream CountsStreams

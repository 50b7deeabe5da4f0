SPECIFICATION Spec
CONSTANTS
  t1 = t1  t2 = t2  t3 = t3  h1 = h1  h2 = h2
  None = None
  Threads = {t1, t2, t3}
  Runners = {t1, t2}
  Handlers = {h1, h2}
  Requests <- StopOnly
  MapPS = FALSE
  PipeCap = 2
  MaxOrphans = 1
SYMMETRY Symmetric
INVARIANTS StopCount WriterHasPipe
PROPERTIES StopInfoKept ImplementsChannel

SPECIFICATION Spec
CONSTANTS
  t1 = t1  t2 = t2  t3 = t3  h1 = h1  h2 = h2
  None = None
  Threads = {t1, t2}
  Runners = {t1}
  Handlers = {h1, h2}
  Requests <- StopOnly
  MapPS = FALSE
  PipeCap = 1
  MaxOrphans = 1
PROPERTIES WriteNeedsHandler WaitReportsOwn

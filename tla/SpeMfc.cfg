SPECIFICATION FairSpec
CONSTANTS
  t1 = t1  t2 = t2
  None = None
  Threads = {t1, t2}
  Tags = {0, 1}
  AllTags = {0, 1}
  InitialMasks <- Garbage
  QueueDepth = 1
  MaxCommands = 1
INVARIANTS WholeCommands ReportsCompleted
PROPERTIES CallsReturn

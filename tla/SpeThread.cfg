SPECIFICATION FairSpec
CONSTANTS
  c1 = c1  c2 = c2
  NoOne = NoOne
  Senders = {c1, c2}
  Signals = {"SIGSTOP", "SIGCONT", "SIGKILL"}
  Applications = {"any", "answers"}
  MaxRuns = 2
  PipeSize = 4
CHECK_DEADLOCK FALSE
INVARIANTS EventsInOrder
PROPERTIES KillEnds ContWakes GetEventReturns

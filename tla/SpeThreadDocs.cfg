SPECIFICATION ThreadSpec
CONSTANTS
  c1 = c1  c2 = c2
  NoOne = NoOne
  Senders = {c1, c2}
  Signals = {"SIGSTOP", "SIGCONT", "SIGKILL"}
  Applications = {"any", "answers"}
  MaxRuns = 3
  PipeSize = 4
CHECK_DEADLOCK FALSE
INVARIANTS EventData InOrder AnsweredInOrder ExitIsSeen TermSignal
PROPERTIES StopIsKept

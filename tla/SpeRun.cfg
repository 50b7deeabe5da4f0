SPECIFICATION Spec
CONSTANTS
  t1 = t1  t2 = t2
  isolated = isolated  emulated = emulated
  user = user
  None = None
  Threads = {t1, t2}
  Contexts = {isolated, emulated}
  Isolated = {isolated}
  Emulated = {emulated}
  EventsEnabled = {emulated}
  CallNums = {0, 3, 5}
  UserHandlers = {user}
  Stops <- AllStops
  MaxDepth = 2
CHECK_DEADLOCK FALSE
SYMMETRY Symmetric
INVARIANTS BreadcrumbsFollowRuns ReturnMatchesStopInfo ReservedCallsServed

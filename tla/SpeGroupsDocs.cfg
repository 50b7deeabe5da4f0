SPECIFICATION Spec
CONSTANTS
  c1 = c1  c2 = c2
  g1 = g1  g2 = g2  g3 = g3
  t1 = t1  t2 = t2  t3 = t3
  None = None
  Callers = {c1, c2}
  Groups = {g1}
  SharedGroups = {g1}
  SpeThreads = {t1, t2, t3}
  MaxMembers = 2
SYMMETRY Symmetric
CHECK_DEADLOCK FALSE
INVARIANTS GroupLimit RunningIsFound MarkedGroupGoes

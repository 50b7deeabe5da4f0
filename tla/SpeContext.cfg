SPECIFICATION Spec
CONSTANTS
  c1 = c1  c2 = c2
  p1 = p1  p2 = p2
  None = None
  Contexts = {c1, c2}
  FlagSets <- FewFlagSets
  Programs = {p1, p2}
  MboxDepth = 3
  MaxImages = 2
SYMMETRY Symmetric
INVARIANTS Accounted EntryIsLoaded

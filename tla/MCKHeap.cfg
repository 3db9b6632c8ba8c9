SPECIFICATION Spec
CONSTANTS
  NPages = 4
  Frames = {f1, f2, f3, f4}
  NoFrame = NoFrame
  Blocks = 4
  Clients = {c1, c2, c3}
SYMMETRY Symmetry
INVARIANTS HeapInvariant RefusesOnlyWhenFull ContentsKept
CHECK_DEADLOCK FALSE

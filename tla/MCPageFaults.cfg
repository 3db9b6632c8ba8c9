SPECIFICATION Spec
CONSTANTS
  c1 = c1
  s1 = s1
  Code = {c1}
  Stack = {s1}
  Heap = {h1, h2}
  Outside = {x}
  NoPage = NoPage
  Loaded <- LoadedPages
  MaxSize = 3
  DiskFrames = 3
  StampBits = 2
  BitAt <- Bits
SYMMETRY Symmetry
INVARIANTS WorkingSet NoLostWrites
PROPERTY VictimChoice
CHECK_DEADLOCK FALSE

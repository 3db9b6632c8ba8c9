SPECIFICATION Spec
CONSTANTS
  NFrames = 7
  IoStart = 4
  Extended = 5
  KernelEnd = 6
  HeapStart = 2
  HeapMax = 6
  Blocks = 2
  Procs = {p1, p2}
  Names = {n1}
  NoName = NoName
  MaxPages = 2
  KernelBlocks = 4
  MaxGets = 1
SYMMETRY Symmetry
INVARIANTS HeapAccounted FramesCounted MemoryApart
PROPERTIES BackingStable
CHECK_DEADLOCK FALSE

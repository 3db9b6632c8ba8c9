SPECIFICATION Spec
CONSTANTS
  NFrames = 44
  IoStart = 4
  Extended = 5
  PageSize = 2
  KTablePages = 6
  KSlots = 7
  StackPages = 2
  ArraySizes <- MCArrays
  KHeapStart = 33
  DiskFrames = 9
  PagesPerTable = 3
  NEnv = 2
  EndsOfKernel = {1, 3}
  Images <- MCImages
  Limits <- MCLimits
  ProgramPages = 5
  WsSizes = {3}
  TwsSize = 4
  Cleared = 1
  Word = 64
  Writes = {1, 10}
  MaxFaults = 2
INVARIANTS ProgramIntact DiskAccounted WorkingSets KernelHalf
CHECK_DEADLOCK FALSE

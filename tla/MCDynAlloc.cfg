SPECIFICATION Spec
CONSTANTS
  PageIds = {p1, p2, p3}
  PageSize = 8
  BlockSizes = {2, 4, 8}
  Requests = {1, 3, 4, 8}
SYMMETRY Symmetry
INVARIANT PagesTiled
PROPERTY AllocatorSpec

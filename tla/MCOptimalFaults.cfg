SPECIFICATION Spec
CONSTANTS
  a = a
  b = b
  c = c
  d = d
  e = e
  Pages <- MCPages
  InitialLists <- MCInitialLists
  MaxSize = 3
  MaxReferences = 6
INVARIANT CountIsOptimal
CHECK_DEADLOCK FALSE

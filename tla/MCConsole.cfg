SPECIFICATION Spec
CONSTANTS
  Procs = {p1, p2}
  BufSize = 3
  MaxBytes = 4
INVARIANTS BufferSound LockHolds
PROPERTIES NextCharacter KeysAreRead
CHECK_DEADLOCK FALSE

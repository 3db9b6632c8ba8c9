SPECIFICATION FairSpec
CONSTANTS
  Procs = {p1, p2, p3}
  Sched = Sched
  NoProc = NoProc
  Value = 1
  MaxPosts = 1
INVARIANTS NoPanic CpuInOrder CountMatchesSleepers
CHECK_DEADLOCK FALSE
PROPERTIES WaitersEnter FifoSpec

SPECIFICATION FairSpec
CONSTANTS
  Procs = {p1, p2, p3}
  Sched = Sched
  NoProc = NoProc
INVARIANTS MutualExclusion NoSleepOnFreeLock
PROPERTIES LockGetsOn LastWaiterEnters
CHECK_DEADLOCK FALSE

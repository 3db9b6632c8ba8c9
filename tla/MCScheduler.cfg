SPECIFICATION FairSpec
CONSTANTS
  Envs = {e1, e2, e3}
  NoEnv = NoEnv
  MaxQueues = 3
  Chans = {c1}
  NoChan = NoChan
  Thresholds = {1, 2}
  MaxWait = 3
INVARIANTS TypeOK QueueInvariant CpuInvariant AgingOrder PromptIsQuiet
PROPERTIES DispatchOrder AgingStep LifeSpec RoundRobinFair AgingPreventsStarvation
CHECK_DEADLOCK FALSE

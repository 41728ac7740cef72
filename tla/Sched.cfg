CONSTANTS
  Procs = {p1, p2}
  CPUs = {c1, c2}
  None = None
SPECIFICATION FairSpec
INVARIANTS TypeOK OneCPU NoPanic IntrMatched SleepLockExclusive NoLostWakeup
PROPERTY SleeperRuns

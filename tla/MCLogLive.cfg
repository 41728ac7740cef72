CONSTANTS
  Procs = {p1, p2}
  Blocks = {b1, b2}
  Data = {v0}
  InitData = v0
  Torn = Torn
  None = None
  MAXOPBLOCKS = 1
  LOGBLOCKS = 2
  OpBlocks = 1
  MaxCrashes = 2
SPECIFICATION FairSpec
INVARIANT SpaceSuffices
PROPERTIES  RecoveryEnds
\* log_write() may panic, and with it everybody may come to wait.
CHECK_DEADLOCK FALSE

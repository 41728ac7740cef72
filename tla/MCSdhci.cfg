CONSTANTS
  Procs = {p1, p2}
  None = None
  NBlocks = 2
  Words = {x, y}
  InitWord = x
  SECTOR = 2
  BSIZE = 4
  Retries = 2
SPECIFICATION FairSpec
INVARIANTS TypeOK CommandsInOrder TransfersWhole
PROPERTIES BootEnds RwEnds
\* The system may stop: every process may end in panic().
CHECK_DEADLOCK FALSE

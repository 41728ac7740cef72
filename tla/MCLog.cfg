CONSTANTS
  Procs = {p1, p2}
  Blocks = {b1, b2}
  Data = {v0, v1}
  InitData = v0
  Torn = Torn
  None = None
  MAXOPBLOCKS = 3
  LOGBLOCKS = 7
  OpBlocks = 2
  MaxCrashes = 2
SPECIFICATION Spec
SYMMETRY Symmetry
INVARIANTS TypeOK CommitAlone QuiescentIsDurable RefcntExact
PROPERTY ImplementsAtomicStore

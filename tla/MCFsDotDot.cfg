CONSTANTS
  Procs = {p1}
  None = None
  Names = {"a", "b"}
  NInodes = 3
  Calls <- MCNested
SPECIFICATION Spec
INVARIANT NoFreeInode

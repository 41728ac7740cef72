CONSTANTS
  Procs = {p1, p2}
  None = None
  Names = {"a", "b"}
  NInodes = 3
  Calls <- MCCalls
SPECIFICATION Spec
SYMMETRY Symmetry
INVARIANTS TypeOK RefExact CopyCurrent NothingDangles NlinkExact IputNeverSleeps

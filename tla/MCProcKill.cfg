CONSTANTS
  Procs = {init, p1, p2}
  InitProc = init
  None = None
  MaxPid = 3
  Killable = {0, 2}
SPECIFICATION Spec
SYMMETRY Symmetry
INVARIANT KilledWasAsked

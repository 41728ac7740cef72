CONSTANTS
  Procs = {init, p1, p2}
  InitProc = init
  None = None
  MaxPid = 5
  Killable = {0, 2, 3}
SPECIFICATION FairSpec
INVARIANTS TypeOK ParentAlive NoFreeOnStack ExitsReported NoMissedExit PidsUnique
PROPERTIES OrphanReaped ExitEnds KilledExits
\* A standstill, with a process stuck on the way out, violates ExitEnds or
\* OrphanReaped, which then shows how it came about.
CHECK_DEADLOCK FALSE

---------------------------- MODULE AtomicStore ----------------------------
(***************************************************************************)
(* What the logging layer promises to the file system.  Operations update  *)
(* a volatile image of the blocks.  At a moment when no operation is       *)
(* active the whole image becomes stable, in one step.  A crash throws     *)
(* away everything that did not become stable, and nothing else.           *)
(***************************************************************************)
CONSTANTS Procs, Blocks, Data, InitData

VARIABLES
  stable,    \* what a restart would find
  volatile,  \* what a reader of the running system finds
  active     \* the processes inside an operation

vars == <<stable, volatile, active>>

Init ==
  /\ stable = [b \in Blocks |-> InitData]
  /\ volatile = stable
  /\ active = {}

Begin(p) ==
  /\ p \notin active
  /\ active' = active \cup {p}
  /\ UNCHANGED <<stable, volatile>>

Write(p, b, v) ==
  /\ p \in active
  /\ volatile' = [volatile EXCEPT ![b] = v]
  /\ UNCHANGED <<stable, active>>

End(p) ==
  /\ p \in active
  /\ active' = active \ {p}
  /\ UNCHANGED <<stable, volatile>>

Commit ==
  /\ active = {}
  /\ stable' = volatile
  /\ UNCHANGED <<volatile, active>>

Crash ==
  /\ volatile' = stable
  /\ active' = {}
  /\ UNCHANGED stable

Next ==
  \/ \E p \in Procs : Begin(p) \/ End(p)
  \/ \E p \in Procs, b \in Blocks, v \in Data : Write(p, b, v)
  \/ Commit
  \/ Crash

Spec == Init /\ [][Next]_vars
=============================================================================

-------------------------------- MODULE Proc --------------------------------
(***************************************************************************)
(* The life of a process: fork, exit, wait, kill and the passing of        *)
(* orphans to init (proc.c).                                               *)
(*                                                                         *)
(* wait_lock and the p->lock that kfork() and kexit() hold across several  *)
(* steps are explicit.  Which process has a CPU is left to Sched: here a   *)
(* process in state RUNNABLE may take its next step, and sleep() and       *)
(* wakeup() are the atomic operations Sched shows them to be.              *)
(***************************************************************************)
EXTENDS Integers, FiniteSets

CONSTANTS
  Procs,     \* the slots of proc[]
  InitProc,  \* initproc
  None,      \* no process
  MaxPid,    \* bound: the last pid handed out
  Killable   \* the arguments programs give to kill(); 1 would kill init, a panic

ASSUME ProcAssumption ==
  /\ InitProc \in Procs /\ None \notin Procs
  /\ MaxPid \in Nat \ {0}
  /\ Killable \subseteq Nat

VARIABLES
  state,      \* p->state
  parent,     \* p->parent
  pid,        \* p->pid, 0 in a free slot
  killed,     \* p->killed
  plock,      \* the process holding p->lock across steps, or None
  wait_lock,  \* the process holding wait_lock, or None
  nextpid,
  pc,         \* where the process is
  child,      \* np in kfork()
  forker,     \* history: the pid of the process that forked this one
  asked,      \* history: the arguments of kill() so far
  told        \* history: the pids kwait() has returned or a failed kfork() has given up

vars == <<state, parent, pid, killed, plock, wait_lock, nextpid, pc, child, forker, asked, told>>

Init ==
  /\ state = [p \in Procs |-> IF p = InitProc THEN "RUNNABLE" ELSE "UNUSED"]
  /\ parent = [p \in Procs |-> None]
  /\ pid = [p \in Procs |-> IF p = InitProc THEN 1 ELSE 0]
  /\ killed = [p \in Procs |-> FALSE]
  /\ plock = [p \in Procs |-> None]
  /\ wait_lock = None
  /\ nextpid = 2
  /\ pc = [p \in Procs |-> IF p = InitProc THEN "user" ELSE "free"]
  /\ child = [p \in Procs |-> None]
  /\ forker = [p \in Procs |-> 0]
  /\ asked = {}
  /\ told = {}
-----------------------------------------------------------------------------
At(p, l) == state[p] = "RUNNABLE" /\ pc[p] = l

\* usertrap() starts no system call of a process that is already killed.
Syscall(p) == At(p, "user") /\ ~killed[p]

\* wakeup(r): only r itself ever sleeps on the address of its struct proc.
MutWakeup(r) == state
MutWakeRunning(r) == [state EXCEPT ![r] = IF @ = "SLEEPING" THEN "RUNNING" ELSE @]
Wakeup(r) == [state EXCEPT ![r] = IF @ = "SLEEPING" THEN "RUNNABLE" ELSE @]

\* wakeup() takes the lock of every other process in turn.
LocksFree(p) == \A q \in Procs \ {p} : plock[q] = None

FreeProc(q) ==
  /\ state' = [state EXCEPT ![q] = "UNUSED"]
  /\ parent' = [parent EXCEPT ![q] = None]
  /\ pid' = [pid EXCEPT ![q] = 0]
  /\ killed' = [killed EXCEPT ![q] = FALSE]
-----------------------------------------------------------------------------
(* kfork(). *)

\* allocpid().
MutAllocPid == nextpid' = nextpid
AllocPid == nextpid' = nextpid + 1

\* allocproc(): a free slot, its lock kept, a new pid.
AllocProc(p, np) ==
  /\ Syscall(p)
  /\ state[np] = "UNUSED" /\ plock[np] = None
  /\ nextpid <= MaxPid
  /\ plock' = [plock EXCEPT ![np] = p]
  /\ pid' = [pid EXCEPT ![np] = nextpid]
  /\ AllocPid
  /\ state' = [state EXCEPT ![np] = "USED"]
  /\ child' = [child EXCEPT ![p] = np]
  /\ forker' = [forker EXCEPT ![np] = pid[p]]
  /\ pc' = [pc EXCEPT ![p] = "fork_copy"]
  /\ UNCHANGED <<parent, killed, wait_lock, asked, told>>

\* No memory for the trapframe, the page table or the copy of the parent's.
MutForkFails(p) ==
  /\ At(p, "fork_copy")
  /\ FreeProc(child[p])
  /\ child' = [child EXCEPT ![p] = None]
  /\ pc' = [pc EXCEPT ![p] = "user"]
  /\ told' = told \cup {pid[child[p]]}
  /\ UNCHANGED <<plock, wait_lock, nextpid, forker, asked>>
ForkFails(p) ==
  /\ At(p, "fork_copy")
  /\ FreeProc(child[p])
  /\ plock' = [plock EXCEPT ![child[p]] = None]
  /\ child' = [child EXCEPT ![p] = None]
  /\ pc' = [pc EXCEPT ![p] = "user"]
  /\ told' = told \cup {pid[child[p]]}
  /\ UNCHANGED <<wait_lock, nextpid, forker, asked>>

\* Memory, registers and files copied; np->lock is released before wait_lock
\* is taken, for the lock order is wait_lock first.
ForkCopied(p) ==
  /\ At(p, "fork_copy")
  /\ plock' = [plock EXCEPT ![child[p]] = None]
  /\ pc' = [pc EXCEPT ![p] = "fork_parent"]
  /\ UNCHANGED <<state, parent, pid, killed, wait_lock, nextpid, child, forker, asked, told>>

ForkSetParent(p) ==
  /\ At(p, "fork_parent")
  /\ wait_lock = None
  /\ parent' = [parent EXCEPT ![child[p]] = p]
  /\ pc' = [pc EXCEPT ![p] = "fork_run"]
  /\ UNCHANGED <<state, pid, killed, plock, wait_lock, nextpid, child, forker, asked, told>>

ForkRunnable(p) ==
  /\ At(p, "fork_run")
  /\ plock[child[p]] = None
  /\ state' = [state EXCEPT ![child[p]] = "RUNNABLE"]
  /\ pc' = [pc EXCEPT ![p] = "user", ![child[p]] = "user"]
  /\ child' = [child EXCEPT ![p] = None]
  /\ UNCHANGED <<parent, pid, killed, plock, wait_lock, nextpid, forker, asked, told>>
-----------------------------------------------------------------------------
(* kexit(). *)

\* Files closed; from sys_exit(), or from usertrap() when killed.
ExitLock(p) ==
  /\ At(p, "user")
  /\ p # InitProc
  /\ wait_lock = None
  /\ wait_lock' = p
  /\ pc' = [pc EXCEPT ![p] = "exit_reparent"]
  /\ UNCHANGED <<state, parent, pid, killed, plock, nextpid, child, forker, asked, told>>

Children(p) == {q \in Procs : parent[q] = p}

\* reparent(): each child goes to init, which is woken.
MutExitReparent(p) ==
  /\ At(p, "exit_reparent")
  /\ pc' = [pc EXCEPT ![p] = "exit_wake"]
  /\ UNCHANGED <<state, parent, pid, killed, plock, wait_lock, nextpid, child, forker, asked, told>>
MutReparentSilently(p) ==
  /\ At(p, "exit_reparent")
  /\ parent' = [q \in Procs |-> IF q \in Children(p) THEN InitProc ELSE parent[q]]
  /\ pc' = [pc EXCEPT ![p] = "exit_wake"]
  /\ UNCHANGED <<state, pid, killed, plock, wait_lock, nextpid, child, forker, asked, told>>
ExitReparent(p) ==
  /\ At(p, "exit_reparent")
  /\ \/ Children(p) = {} /\ UNCHANGED <<parent, state>>
     \/ /\ Children(p) # {}
        /\ LocksFree(p)
        /\ parent' = [q \in Procs |-> IF q \in Children(p) THEN InitProc ELSE parent[q]]
        /\ state' = Wakeup(InitProc)
  /\ pc' = [pc EXCEPT ![p] = "exit_wake"]
  /\ UNCHANGED <<pid, killed, plock, wait_lock, nextpid, child, forker, asked, told>>

ExitWake(p) ==
  /\ At(p, "exit_wake")
  /\ LocksFree(p)
  /\ state' = Wakeup(parent[p])
  /\ pc' = [pc EXCEPT ![p] = "exit_zombie"]
  /\ UNCHANGED <<parent, pid, killed, plock, wait_lock, nextpid, child, forker, asked, told>>

\* p->lock is taken and kept into sched(), wait_lock released.
ExitZombie(p) ==
  /\ At(p, "exit_zombie")
  /\ plock[p] = None
  /\ plock' = [plock EXCEPT ![p] = p]
  /\ state' = [state EXCEPT ![p] = "ZOMBIE"]
  /\ wait_lock' = None
  /\ pc' = [pc EXCEPT ![p] = "exit_sched"]
  /\ UNCHANGED <<parent, pid, killed, nextpid, child, forker, asked, told>>

\* swtch() has left the stack; the scheduler releases p->lock.
ExitGone(p) ==
  /\ pc[p] = "exit_sched"
  /\ plock' = [plock EXCEPT ![p] = None]
  /\ pc' = [pc EXCEPT ![p] = "free"]
  /\ UNCHANGED <<state, parent, pid, killed, wait_lock, nextpid, child, forker, asked, told>>
-----------------------------------------------------------------------------
(* kwait(). *)

WaitLock(p) ==
  /\ Syscall(p) \/ At(p, "slept")
  /\ wait_lock = None
  /\ wait_lock' = p
  /\ pc' = [pc EXCEPT ![p] = "scan"]
  /\ UNCHANGED <<state, parent, pid, killed, plock, nextpid, child, forker, asked, told>>

\* The zombies the scan can look at: each child's lock is taken first.
MutReapable(p) == {q \in Children(p) : state[q] = "ZOMBIE"}
Reapable(p) == {q \in Children(p) : state[q] = "ZOMBIE" /\ plock[q] = None}

WaitReap(p) ==
  /\ At(p, "scan")
  /\ \E q \in Reapable(p) : FreeProc(q) /\ told' = told \cup {pid[q]}
  /\ wait_lock' = None
  /\ pc' = [pc EXCEPT ![p] = "user"]
  /\ UNCHANGED <<plock, nextpid, child, forker, asked>>

\* copyout() of the status fails: the child stays a zombie.  init calls
\* wait(0), which copies nothing.
MutWaitCopyoutFails(p) ==
  /\ p # InitProc
  /\ At(p, "scan")
  /\ \E q \in Reapable(p) : FreeProc(q)
  /\ wait_lock' = None
  /\ pc' = [pc EXCEPT ![p] = "user"]
  /\ UNCHANGED <<plock, nextpid, child, forker, asked, told>>
WaitCopyoutFails(p) ==
  /\ p # InitProc
  /\ At(p, "scan")
  /\ Reapable(p) # {}
  /\ wait_lock' = None
  /\ pc' = [pc EXCEPT ![p] = "user"]
  /\ UNCHANGED <<state, parent, pid, killed, plock, nextpid, child, forker, asked, told>>

\* No zombie: give up without children or when killed, sleep otherwise.
MutGiveUp(p) == Children(p) = {}
GiveUp(p) == Children(p) = {} \/ killed[p]

WaitNone(p) ==
  /\ At(p, "scan")
  /\ \A q \in Children(p) : state[q] # "ZOMBIE" /\ plock[q] = None
  /\ IF GiveUp(p)
     THEN wait_lock' = None /\ pc' = [pc EXCEPT ![p] = "user"]
     ELSE wait_lock' = wait_lock /\ pc' = [pc EXCEPT ![p] = "sleep"]
  /\ UNCHANGED <<state, parent, pid, killed, plock, nextpid, child, forker, asked, told>>

\* sleep(p, &wait_lock).
WaitSleep(p) ==
  /\ At(p, "sleep")
  /\ state' = [state EXCEPT ![p] = "SLEEPING"]
  /\ wait_lock' = None
  /\ pc' = [pc EXCEPT ![p] = "slept"]
  /\ UNCHANGED <<parent, pid, killed, plock, nextpid, child, forker, asked, told>>
-----------------------------------------------------------------------------
\* kkill(): the first slot with that pid, free ones included.
Kill(p, n) ==
  /\ Syscall(p)
  /\ \E q \in Procs :
       /\ pid[q] = n /\ plock[q] = None
       /\ killed' = [killed EXCEPT ![q] = TRUE]
       /\ state' = [state EXCEPT ![q] = IF @ = "SLEEPING" THEN "RUNNABLE" ELSE @]
  /\ asked' = asked \cup {n}
  /\ UNCHANGED <<parent, pid, plock, wait_lock, nextpid, pc, child, forker, told>>
-----------------------------------------------------------------------------
Fork(p) == ForkFails(p) \/ ForkCopied(p) \/ ForkSetParent(p) \/ ForkRunnable(p)
Exit(p) == ExitReparent(p) \/ ExitWake(p) \/ ExitZombie(p) \/ ExitGone(p)
Wait(p) == WaitReap(p) \/ WaitNone(p) \/ WaitSleep(p)

Next ==
  \E p \in Procs :
    \/ \E np \in Procs : AllocProc(p, np)
    \/ Fork(p)
    \/ ExitLock(p) \/ Exit(p)
    \/ WaitLock(p) \/ Wait(p) \/ WaitCopyoutFails(p)
    \/ \E n \in Killable : Kill(p, n)

Spec == Init /\ [][Next]_vars

\* A system call goes on once begun, a killed process is caught by usertrap()
\* at the next timer interrupt if not before, init calls wait() for ever,
\* and wait_lock and the p->locks go in the end to a
\* process that keeps trying.  No other program need ever exit or wait.
Run(p) ==
  \/ Fork(p) \/ Exit(p) \/ Wait(p)
  \/ pc[p] = "slept" /\ WaitLock(p)
  \/ killed[p] /\ ExitLock(p)

Fairness == SF_vars(WaitLock(InitProc)) /\ \A p \in Procs : SF_vars(Run(p))

FairSpec == Spec /\ Fairness
-----------------------------------------------------------------------------
\* The type invariant.
TypeOK ==
  /\ state \in [Procs -> {"UNUSED", "USED", "SLEEPING", "RUNNABLE", "ZOMBIE"}]
  /\ parent \in [Procs -> Procs \cup {None}]
  /\ pid \in [Procs -> Nat]
  /\ killed \in [Procs -> BOOLEAN]
  /\ plock \in [Procs -> Procs \cup {None}]
  /\ wait_lock \in Procs \cup {None}
  /\ nextpid \in Nat
  /\ pc \in [Procs -> {"free", "user", "fork_copy", "fork_parent", "fork_run", "exit_reparent",
                       "exit_wake", "exit_zombie", "exit_sched", "scan", "sleep", "slept"}]
  /\ child \in [Procs -> Procs \cup {None}]
  /\ forker \in [Procs -> Nat]
  /\ asked \subseteq Nat
  /\ told \subseteq Nat

\* A process's parent is alive, and is the process that forked it or init:
\* p->parent never dangles and never points to a slot that was freed and reused.
ParentAlive ==
  \A q, r \in Procs : parent[q] = r =>
    /\ state[r] \in {"RUNNABLE", "SLEEPING"}
    /\ r = InitProc \/ pid[r] = forker[q]

\* kwait() never frees a process that is still on its kernel stack on the way
\* into sched().  Nobody else keeps a slot locked from step to step but the fork
\* that has just taken it: a free slot, and one that a failed kfork() or kwait()
\* was looking at, is locked by nobody.
NoFreeOnStack ==
  \A q \in Procs :
    /\ pc[q] = "exit_sched" => state[q] = "ZOMBIE" /\ plock[q] = q
    /\ plock[q] # None =>
         \/ pc[q] = "exit_sched" /\ plock[q] = q
         \/ pc[plock[q]] = "fork_copy" /\ child[plock[q]] = q /\ state[q] = "USED"

\* Every exit is reported, and once: a pid goes out of use only when kwait()
\* returns it to the parent, or when the kfork() that took it fails; a copyout()
\* of the status that fails loses neither the zombie nor its pid.
ExitsReported == told = 2..(nextpid - 1) \ {pid[q] : q \in Procs}

\* No exit is missed: a parent asleep in kwait() has no zombie child, its own
\* or one that reparent() gave to init.
NoMissedExit ==
  \A q \in Procs : state[q] = "ZOMBIE" => state[parent[q]] # "SLEEPING"

\* No two processes in use have the same pid, and none has pid 0.
PidsUnique ==
  \A p, q \in Procs : state[p] # "UNUSED" =>
    /\ pid[p] # 0
    /\ pid[p] = pid[q] => p = q

\* A zombie that is init's child is reaped.
OrphanReaped ==
  \A q \in Procs : state[q] = "ZOMBIE" /\ parent[q] = InitProc ~> state[q] = "UNUSED"

\* An exit that has begun ends: wait_lock before p->lock is an order every
\* path keeps, so that exit, wait and fork never wait for each other.
ExitEnds ==
  \A p \in Procs : pc[p] = "exit_reparent" ~> pc[p] = "free"

\* A killed process exits once it is on its way to user space; so does one
\* that kill() wakes in kwait(), whatever its children do.
KilledExits ==
  \A p \in Procs :
    killed[p] /\ p # InitProc /\ (pc[p] = "user" \/ At(p, "slept")) ~> pc[p] = "free"

\* A process is marked killed only if somebody called kill() with its pid.
KilledWasAsked ==
  \A q \in Procs : state[q] # "UNUSED" /\ killed[q] => pid[q] \in asked
=============================================================================

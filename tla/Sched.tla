------------------------------- MODULE Sched -------------------------------
(***************************************************************************)
(* Spinlocks, the scheduler, sleep/wakeup and a sleep-lock: spinlock.c,    *)
(* sleeplock.c and the second half of proc.c.                              *)
(*                                                                         *)
(* A process runs on a CPU, takes the sleep-lock, works and gives it back; *)
(* a timer interrupt may take the CPU away whenever interrupts are on, and *)
(* a kill may wake a sleeper at any time.  Each action does at most one    *)
(* operation on a spinlock; what the code does under a lock without        *)
(* touching another one is part of the same action.                        *)
(***************************************************************************)
EXTENDS Integers, FiniteSets

CONSTANTS
  Procs,  \* struct proc
  CPUs,   \* struct cpu
  None    \* no process, no CPU

ASSUME SchedAssumption == None \notin Procs \cup CPUs

VARIABLES
  cpu,     \* struct cpu: proc, noff, intena; intr: SIE; at: "scan", "run", "back"
  state,   \* p->state
  asleep,  \* p->chan is the sleep-lock
  killed,  \* p->killed
  plock,   \* the CPU in p->lock.cpu, None when p->lock is free
  lk,      \* the same for the sleep-lock's own spinlock, lk->lk
  locked,  \* lk->locked
  owner,   \* lk->pid
  pc,      \* where the process is
  ret,     \* where it was when the timer interrupted it; "out" outside a trap
  sint,    \* the local intena of sched(); FALSE outside a switch
  old,     \* the local old of push_off(); FALSE outside it
  todo     \* the processes wakeup() has still to look at

vars == <<cpu, state, asleep, killed, plock, lk, locked, owner, pc, ret, sint, old, todo>>

\* Where a process may be with interrupts on.
Open == {"out", "acq", "off", "woken", "cs", "reloff"}

PCs == Open \cup {"forkret", "spin", "test", "sleep", "gosleep", "sched", "swtched",
                  "resumed", "relspin", "wakeup", "yield"}

CpuType == [proc : Procs \cup {None}, noff : Nat, intena : BOOLEAN, intr : BOOLEAN,
            at : {"scan", "run", "back"}]

Init ==
  /\ cpu = [c \in CPUs |-> [proc |-> None, noff |-> 0, intena |-> FALSE, intr |-> FALSE, at |-> "scan"]]
  /\ state = [p \in Procs |-> "RUNNABLE"]
  /\ asleep = [p \in Procs |-> FALSE]
  /\ killed = [p \in Procs |-> FALSE]
  /\ plock = [p \in Procs |-> None]
  /\ lk = None
  /\ locked = FALSE
  /\ owner = None
  /\ pc = [p \in Procs |-> "forkret"]
  /\ ret = [p \in Procs |-> "out"]
  /\ sint = [p \in Procs |-> FALSE]
  /\ old = [p \in Procs |-> FALSE]
  /\ todo = [p \in Procs |-> {}]
-----------------------------------------------------------------------------
(* spinlock.c: push_off() and pop_off() on one CPU. *)

\* push_off() after its intr_get(), which found o.
MutPushOff(r, o) ==
  [r EXCEPT !.noff = @ + 1, !.intena = IF r.noff = 0 THEN o ELSE @]
PushOff(r, o) ==
  [r EXCEPT !.noff = @ + 1, !.intr = FALSE, !.intena = IF r.noff = 0 THEN o ELSE @]

PopOff(r) ==
  [r EXCEPT !.noff = @ - 1, !.intr = (r.noff = 1 /\ r.intena)]

Running(p, c) == cpu[c].proc = p /\ cpu[c].at = "run"

Goto(p, from, to) ==
  /\ pc[p] = from
  /\ pc' = [pc EXCEPT ![p] = to]
-----------------------------------------------------------------------------
(* scheduler(), sched(), yield(), forkret(). *)

\* The top of the loop: intr_on(), then intr_off().
ScanTop(c) ==
  /\ cpu[c].at = "scan"
  /\ cpu' = [cpu EXCEPT ![c].intr = FALSE]
  /\ UNCHANGED <<state, asleep, killed, plock, lk, locked, owner, pc, ret, sint, old, todo>>

\* A runnable process is found; its lock stays held across the switch.
MutPick(c, p) ==
  /\ cpu[c].at = "scan"
  /\ state[p] = "RUNNABLE"
  /\ plock' = [plock EXCEPT ![p] = c]
  /\ state' = [state EXCEPT ![p] = "RUNNING"]
  /\ cpu' = [cpu EXCEPT ![c] = [PushOff(@, @.intr) EXCEPT !.proc = p, !.at = "run"]]
  /\ UNCHANGED <<asleep, killed, lk, locked, owner, pc, ret, sint, old, todo>>
Pick(c, p) ==
  /\ cpu[c].at = "scan"
  /\ plock[p] = None
  /\ state[p] = "RUNNABLE"
  /\ plock' = [plock EXCEPT ![p] = c]
  /\ state' = [state EXCEPT ![p] = "RUNNING"]
  /\ cpu' = [cpu EXCEPT ![c] = [PushOff(@, @.intr) EXCEPT !.proc = p, !.at = "run"]]
  /\ UNCHANGED <<asleep, killed, lk, locked, owner, pc, ret, sint, old, todo>>

\* Back from swtch(): the scheduler releases the lock of the process.
Back(c) ==
  /\ cpu[c].at = "back"
  /\ plock' = [plock EXCEPT ![cpu[c].proc] = None]
  /\ cpu' = [cpu EXCEPT ![c] = [PopOff(@) EXCEPT !.proc = None, !.at = "scan"]]
  /\ UNCHANGED <<state, asleep, killed, lk, locked, owner, pc, ret, sint, old, todo>>

\* A process's first run, when the file system is up: release p->lock, go to user space.
Forkret(p, c) ==
  /\ Running(p, c)
  /\ Goto(p, "forkret", "out")
  /\ plock' = [plock EXCEPT ![p] = None]
  /\ cpu' = [cpu EXCEPT ![c] = [PopOff(@) EXCEPT !.intr = TRUE]]
  /\ UNCHANGED <<state, asleep, killed, lk, locked, owner, ret, sint, old, todo>>

\* sched(): keep intena, switch to the scheduler.
SchedPanics(p, c) == plock[p] # c \/ cpu[c].noff # 1 \/ state[p] = "RUNNING" \/ cpu[c].intr

SchedSwtch(p, c) ==
  /\ Running(p, c)
  /\ ~SchedPanics(p, c)
  /\ Goto(p, "sched", "swtched")
  /\ sint' = [sint EXCEPT ![p] = cpu[c].intena]
  /\ cpu' = [cpu EXCEPT ![c].at = "back"]
  /\ UNCHANGED <<state, asleep, killed, plock, lk, locked, owner, ret, old, todo>>

\* The return of swtch() in sched(): restore intena.
MutRestore(p, c) == cpu
Restore(p, c) == [cpu EXCEPT ![c].intena = sint[p]]

SchedReturn(p, c) ==
  /\ Running(p, c)
  /\ Goto(p, "swtched", "resumed")
  /\ cpu' = Restore(p, c)
  /\ sint' = [sint EXCEPT ![p] = FALSE]
  /\ UNCHANGED <<state, asleep, killed, plock, lk, locked, owner, ret, old, todo>>

\* A timer interrupt in the kernel or in user space; the trap turns SIE off.
\* clockintr()'s count of ticks, and its wakeup of who waits for it, are left out.
TimerIntr(p, c) ==
  /\ Running(p, c)
  /\ cpu[c].intr
  /\ cpu' = [cpu EXCEPT ![c].intr = FALSE]
  /\ ret' = [ret EXCEPT ![p] = pc[p]]
  /\ pc' = [pc EXCEPT ![p] = "yield"]
  /\ UNCHANGED <<state, asleep, killed, plock, lk, locked, owner, sint, old, todo>>

MutYield(p, c) ==
  /\ Running(p, c)
  /\ Goto(p, "yield", "sched")
  /\ state' = [state EXCEPT ![p] = "RUNNABLE"]
  /\ UNCHANGED <<cpu, plock, asleep, killed, lk, locked, owner, ret, sint, old, todo>>
Yield(p, c) ==
  /\ Running(p, c)
  /\ plock[p] = None
  /\ Goto(p, "yield", "sched")
  /\ plock' = [plock EXCEPT ![p] = c]
  /\ cpu' = [cpu EXCEPT ![c] = PushOff(@, @.intr)]
  /\ state' = [state EXCEPT ![p] = "RUNNABLE"]
  /\ UNCHANGED <<asleep, killed, lk, locked, owner, ret, sint, old, todo>>

\* release(&p->lock) at the end of yield(), and the return from the trap.
YieldReturn(p, c) ==
  /\ Running(p, c)
  /\ ~asleep[p]
  /\ Goto(p, "resumed", ret[p])
  /\ ret' = [ret EXCEPT ![p] = "out"]
  /\ plock' = [plock EXCEPT ![p] = None]
  /\ cpu' = [cpu EXCEPT ![c] = [PopOff(@) EXCEPT !.intr = TRUE]]
  /\ UNCHANGED <<state, asleep, killed, lk, locked, owner, sint, old, todo>>
-----------------------------------------------------------------------------
(* acquiresleep() and sleep(). *)

Want(p, c) ==
  /\ Running(p, c)
  /\ Goto(p, "out", "acq")
  /\ UNCHANGED <<cpu, state, asleep, killed, plock, lk, locked, owner, ret, sint, old, todo>>

\* acquire(&lk->lk) with interrupts on: push_off() reads the interrupt state ...
IntrGet(p, c) ==
  /\ Running(p, c)
  /\ pc[p] \in {"acq", "woken", "cs"}
  /\ pc' = [pc EXCEPT ![p] = IF @ = "cs" THEN "reloff" ELSE "off"]
  /\ old' = [old EXCEPT ![p] = cpu[c].intr]
  /\ UNCHANGED <<cpu, state, asleep, killed, plock, lk, locked, owner, ret, sint, todo>>

\* ... and turns interrupts off, perhaps on another CPU, before the first attempt.
Spin(p, c) ==
  /\ Running(p, c)
  /\ pc[p] \in {"off", "reloff"}
  /\ pc' = [pc EXCEPT ![p] = IF @ = "reloff" THEN "relspin" ELSE "spin"]
  /\ cpu' = [cpu EXCEPT ![c] = PushOff(@, old[p])]
  /\ old' = [old EXCEPT ![p] = FALSE]
  /\ UNCHANGED <<state, asleep, killed, plock, lk, locked, owner, ret, sint, todo>>

AcquireLk(p, c) ==
  /\ Running(p, c)
  /\ lk = None
  /\ Goto(p, "spin", "test")
  /\ lk' = c
  /\ UNCHANGED <<cpu, state, asleep, killed, plock, locked, owner, ret, sint, old, todo>>

\* while(lk->locked) sleep(...); else take it and release(&lk->lk).
MutTest(p, c) ==
  /\ Running(p, c)
  /\ Goto(p, "test", "cs")
  /\ locked' = TRUE
  /\ owner' = p
  /\ lk' = None
  /\ cpu' = [cpu EXCEPT ![c] = PopOff(@)]
  /\ UNCHANGED <<state, asleep, killed, plock, ret, sint, old, todo>>
Test(p, c) ==
  /\ Running(p, c)
  /\ \/ /\ locked
        /\ Goto(p, "test", "sleep")
        /\ UNCHANGED <<cpu, lk, locked, owner>>
     \/ /\ ~locked
        /\ Goto(p, "test", "cs")
        /\ locked' = TRUE
        /\ owner' = p
        /\ lk' = None
        /\ cpu' = [cpu EXCEPT ![c] = PopOff(@)]
  /\ UNCHANGED <<state, asleep, killed, plock, ret, sint, old, todo>>

\* sleep(): p->lock is taken before the condition lock is released.
SleepLock(p, c) ==
  /\ Running(p, c)
  /\ plock[p] = None
  /\ Goto(p, "sleep", "gosleep")
  /\ plock' = [plock EXCEPT ![p] = c]
  /\ cpu' = [cpu EXCEPT ![c] = PushOff(@, @.intr)]
  /\ UNCHANGED <<lk, state, asleep, killed, locked, owner, ret, sint, old, todo>>

GoToSleep(p, c) ==
  /\ Running(p, c)
  /\ Goto(p, "gosleep", "sched")
  /\ lk' = None
  /\ cpu' = [cpu EXCEPT ![c] = PopOff(@)]
  /\ asleep' = [asleep EXCEPT ![p] = TRUE]
  /\ state' = [state EXCEPT ![p] = "SLEEPING"]
  /\ UNCHANGED <<killed, plock, locked, owner, ret, sint, old, todo>>

\* Woken: clear p->chan, release p->lock; acquire(lk) comes next.
SleepReturn(p, c) ==
  /\ Running(p, c)
  /\ asleep[p]
  /\ Goto(p, "resumed", "woken")
  /\ asleep' = [asleep EXCEPT ![p] = FALSE]
  /\ plock' = [plock EXCEPT ![p] = None]
  /\ cpu' = [cpu EXCEPT ![c] = PopOff(@)]
  /\ UNCHANGED <<state, killed, lk, locked, owner, ret, sint, old, todo>>
-----------------------------------------------------------------------------
(* releasesleep() and wakeup(). *)

\* releasesleep(): take lk->lk, clear the lock, start wakeup(lk).
MutRelease(p, c) ==
  /\ Running(p, c)
  /\ lk = None
  /\ Goto(p, "relspin", "wakeup")
  /\ lk' = c
  /\ locked' = FALSE
  /\ owner' = None
  /\ UNCHANGED <<cpu, state, asleep, killed, plock, ret, sint, old, todo>>
Release(p, c) ==
  /\ Running(p, c)
  /\ lk = None
  /\ Goto(p, "relspin", "wakeup")
  /\ lk' = c
  /\ locked' = FALSE
  /\ owner' = None
  /\ todo' = [todo EXCEPT ![p] = Procs \ {p}]
  /\ UNCHANGED <<cpu, state, asleep, killed, plock, ret, sint, old>>

\* One turn of wakeup()'s loop, under q->lock.
MutWakeOne(p, c, q) ==
  /\ Running(p, c)
  /\ pc[p] = "wakeup"
  /\ q \in todo[p]
  /\ state' = IF state[q] = "SLEEPING" /\ asleep[q] /\ plock[q] = None
              THEN [state EXCEPT ![q] = "RUNNABLE"] ELSE state
  /\ todo' = [todo EXCEPT ![p] = @ \ {q}]
  /\ UNCHANGED <<cpu, asleep, killed, plock, lk, locked, owner, pc, ret, sint, old>>
WakeOne(p, c, q) ==
  /\ Running(p, c)
  /\ pc[p] = "wakeup"
  /\ q \in todo[p]
  /\ plock[q] = None
  /\ state' = IF state[q] = "SLEEPING" /\ asleep[q]
              THEN [state EXCEPT ![q] = "RUNNABLE"] ELSE state
  /\ todo' = [todo EXCEPT ![p] = @ \ {q}]
  /\ UNCHANGED <<cpu, asleep, killed, plock, lk, locked, owner, pc, ret, sint, old>>

ReleaseDone(p, c) ==
  /\ Running(p, c)
  /\ todo[p] = {}
  /\ Goto(p, "wakeup", "out")
  /\ lk' = None
  /\ cpu' = [cpu EXCEPT ![c] = PopOff(@)]
  /\ UNCHANGED <<state, asleep, killed, plock, locked, owner, ret, sint, old, todo>>

\* kkill(): a running process marks another one and wakes it if it sleeps.
Kill(p, c, q) ==
  /\ Running(p, c)
  /\ pc[p] = "out"
  /\ plock[q] = None
  /\ killed' = [killed EXCEPT ![q] = TRUE]
  /\ state' = IF state[q] = "SLEEPING" THEN [state EXCEPT ![q] = "RUNNABLE"] ELSE state
  /\ UNCHANGED <<cpu, asleep, plock, lk, locked, owner, pc, ret, sint, old, todo>>
-----------------------------------------------------------------------------
\* What the kernel code of a process does next, once it has left user space.
Kernel(p, c) ==
  \/ Forkret(p, c) \/ SchedSwtch(p, c) \/ SchedReturn(p, c) \/ Yield(p, c) \/ YieldReturn(p, c)
  \/ IntrGet(p, c) \/ Spin(p, c) \/ AcquireLk(p, c) \/ Test(p, c)
  \/ SleepLock(p, c) \/ GoToSleep(p, c) \/ SleepReturn(p, c)
  \/ Release(p, c) \/ ReleaseDone(p, c)
  \/ \E q \in Procs : WakeOne(p, c, q)

Next ==
  \/ \E c \in CPUs : ScanTop(c) \/ Back(c)
  \/ \E c \in CPUs, p \in Procs :
       \/ Pick(c, p) \/ Want(p, c) \/ TimerIntr(p, c) \/ Kernel(p, c)
       \/ \E q \in Procs : Kill(p, c, q)

Spec == Init /\ [][Next]_vars

\* Every CPU goes on.  The scheduler's scan meets each runnable process again
\* and again, a pending timer interrupt is taken once interrupts are on, a
\* spinlock that is free again and again is won, and a process gets to its next
\* step before the timer fires for ever.
Fairness ==
  /\ \A c \in CPUs : WF_vars(Back(c))
  /\ \A p \in Procs :
       /\ SF_vars(\E c \in CPUs : Pick(c, p))
       /\ SF_vars(\E c \in CPUs : TimerIntr(p, c))
       /\ SF_vars(\E c \in CPUs : \/ IntrGet(p, c) \/ Spin(p, c)
                                \/ AcquireLk(p, c) \/ Release(p, c))
       /\ WF_vars(\E c \in CPUs : Kernel(p, c))

FairSpec == Spec /\ Fairness
-----------------------------------------------------------------------------
\* The type invariant.
TypeOK ==
  /\ cpu \in [CPUs -> CpuType]
  /\ state \in [Procs -> {"RUNNABLE", "RUNNING", "SLEEPING"}]
  /\ asleep \in [Procs -> BOOLEAN]
  /\ killed \in [Procs -> BOOLEAN]
  /\ plock \in [Procs -> CPUs \cup {None}]
  /\ lk \in CPUs \cup {None}
  /\ locked \in BOOLEAN
  /\ owner \in Procs \cup {None}
  /\ pc \in [Procs -> PCs]
  /\ ret \in [Procs -> Open]
  /\ sint \in [Procs -> BOOLEAN] /\ old \in [Procs -> BOOLEAN]
  /\ todo \in [Procs -> SUBSET Procs]

\* No two CPUs ever execute on the kernel stack of one process: p->lock, held
\* across swtch(), keeps a process that is giving up its CPU from being picked.
OneCPU ==
  \A p \in Procs, c, d \in CPUs :
    cpu[c].proc = p /\ cpu[d].proc = p => c = d

\* sched() is entered with p->lock and no other lock, with interrupts off and
\* with the state changed, so none of its panics is reached; acquire() never
\* finds its lock already held by its own CPU, pop_off() never underflows.
NoPanic ==
  \A p \in Procs, c \in CPUs : Running(p, c) =>
    /\ pc[p] = "sched" => ~SchedPanics(p, c)
    /\ pc[p] \in {"spin", "relspin"} => lk # c
    /\ pc[p] \in {"sleep", "yield"} => plock[p] # c
    /\ pc[p] = "wakeup" => \A q \in todo[p] : plock[q] # c
    /\ pc[p] \in {"test", "gosleep", "resumed", "wakeup"} => cpu[c].noff >= 1 /\ ~cpu[c].intr

\* push_off/pop_off nest and intena follows the thread from CPU to CPU: code
\* that holds no lock runs with interrupts on, code that holds one with them
\* off; and the scheduler, whose stack must never be yielded, takes no interrupt
\* while c->proc is set.
IntrMatched ==
  /\ \A c \in CPUs : cpu[c].at = "back" => ~cpu[c].intr
  /\ \A p \in Procs, c \in CPUs : Running(p, c) =>
       /\ pc[p] \in Open => cpu[c].intr /\ cpu[c].noff = 0
       /\ cpu[c].noff > 0 => ~cpu[c].intr

\* Mutual exclusion of the sleep-lock, which is held across context switches.
Holds(p) == pc[p] \in {"cs", "reloff", "relspin"} \/ ret[p] \in {"cs", "reloff"}
SleepLockExclusive ==
  /\ \A p, q \in Procs : Holds(p) /\ Holds(q) => p = q
  /\ \A p \in Procs : Holds(p) => locked /\ owner = p

\* No wakeup is lost: whoever sleeps for the lock, or is past the test that
\* sends it to sleep, either finds the lock still held or is still ahead of a
\* wakeup() in progress.
NoLostWakeup ==
  \A p \in Procs :
    pc[p] \in {"sleep", "gosleep"} \/ (state[p] = "SLEEPING" /\ asleep[p]) =>
      locked \/ \E q \in Procs : pc[q] = "wakeup" /\ p \in todo[q]

\* A process that sleeps for the lock runs again.
SleeperRuns == \A p \in Procs : state[p] = "SLEEPING" ~> state[p] = "RUNNING"
=============================================================================

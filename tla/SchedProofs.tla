---------------------------- MODULE SchedProofs ----------------------------
(***************************************************************************)
(* Sched's safety properties for any number of processes and CPUs.         *)
(***************************************************************************)
EXTENDS Sched, TLAPS

\* Where a running process holds its p->lock, and where it holds lk->lk.
HoldsP == {"forkret", "gosleep", "sched", "swtched", "resumed"}
HoldsLk == {"test", "sleep", "gosleep", "wakeup"}

\* The number of spinlocks a running process holds or is spinning for.
Depth(at) == IF at \in Open \cup {"yield"} THEN 0 ELSE IF at = "gosleep" THEN 2 ELSE 1

\* A process on a CPU: its lock, its state, the CPU's interrupt bookkeeping.
OnCpu(p, c) ==
  /\ plock[p] = IF pc[p] \in HoldsP THEN c ELSE None
  /\ state[p] = "RUNNING" <=> pc[p] # "sched"
  /\ cpu[c].noff = Depth(pc[p])
  /\ cpu[c].intr <=> pc[p] \in Open
  /\ pc[p] \in HoldsLk \cup {"spin", "relspin"} => cpu[c].intena
  /\ pc[p] \in {"sched", "resumed"} => (cpu[c].intena <=> asleep[p])
  /\ pc[p] \in HoldsLk => lk = c

\* A process whose CPU is about to be back in scheduler().
Leaving(p, c) ==
  /\ plock[p] = c
  /\ pc[p] = "swtched"
  /\ state[p] # "RUNNING"
  /\ cpu[c].noff = 1 /\ ~cpu[c].intr

\* A process on no CPU.
OffCpu(p) ==
  /\ plock[p] = None
  /\ pc[p] \in {"forkret", "swtched"}
  /\ state[p] # "RUNNING"

CpuInv ==
  /\ \A c \in CPUs : cpu[c].at = "scan" => cpu[c].proc = None /\ cpu[c].noff = 0
  /\ \A c \in CPUs : cpu[c].at # "scan" => cpu[c].proc # None
  /\ OneCPU
  /\ \A p \in Procs, c \in CPUs : Running(p, c) => OnCpu(p, c)
  /\ \A p \in Procs, c \in CPUs : cpu[c].proc = p /\ cpu[c].at = "back" => Leaving(p, c)
  /\ \A p \in Procs : (\A c \in CPUs : cpu[c].proc # p) => OffCpu(p)

LkInv ==
  \A c \in CPUs : lk = c => \E p \in Procs : Running(p, c) /\ pc[p] \in HoldsLk

\* What a process keeps on its stack across a switch.
StackInv ==
  \A p \in Procs :
    /\ asleep[p] => pc[p] \in {"sched", "swtched", "resumed"} /\ ret[p] = "out"
    /\ state[p] = "SLEEPING" => asleep[p] /\ pc[p] \in {"sched", "swtched"}
    /\ ret[p] # "out" => pc[p] \in {"yield", "sched", "swtched", "resumed"}
    /\ pc[p] = "swtched" => (sint[p] <=> asleep[p])
    /\ pc[p] \in {"off", "reloff"} \/ ret[p] \in {"off", "reloff"} => old[p]

IInv == TypeOK /\ CpuInv /\ LkInv /\ StackInv /\ SleepLockExclusive /\ NoLostWakeup
-----------------------------------------------------------------------------
\* push_off() and pop_off() keep the type of a CPU.
LEMMA PushOffType ==
  ASSUME NEW r \in CpuType, NEW o \in BOOLEAN PROVE PushOff(r, o) \in CpuType
<1> DEFINE n == r.noff + 1
           b == IF r.noff = 0 THEN o ELSE r.intena
<1>1. n \in Nat /\ b \in BOOLEAN
  BY DEF CpuType
<1> HIDE DEF n, b
<1>2. [r EXCEPT !.noff = n, !.intr = FALSE, !.intena = b] \in CpuType
  BY <1>1 DEF CpuType
<1> QED
  BY <1>2 DEF PushOff, n, b

LEMMA PopOffType == ASSUME NEW r \in CpuType, r.noff >= 1 PROVE PopOff(r) \in CpuType
<1> DEFINE n == r.noff - 1
           b == (r.noff = 1 /\ r.intena)
<1>1. n \in Nat
  BY DEF CpuType
<1>2. b \in BOOLEAN
  OBVIOUS
<1> HIDE DEF n, b
<1>3. [r EXCEPT !.noff = n, !.intr = b] \in CpuType
  BY <1>1, <1>2 DEF CpuType
<1> QED
  BY <1>3 DEF PopOff, n, b

\* Changing one CPU to another value of its type keeps the type of all.
LEMMA CpuUpdate ==
  ASSUME NEW f \in [CPUs -> CpuType], NEW c \in CPUs, NEW r \in CpuType
  PROVE  [f EXCEPT ![c] = r] \in [CPUs -> CpuType]
  OBVIOUS

\* Every step keeps the types.
LEMMA TypeStep == IInv /\ [Next]_vars => TypeOK'
<1> SUFFICES ASSUME IInv, [Next]_vars PROVE TypeOK'
  OBVIOUS
<1> USE SchedAssumption DEF IInv, TypeOK
<1>1. ASSUME NEW c \in CPUs, ScanTop(c) PROVE TypeOK'
  <2>1. cpu[c] \in CpuType
    OBVIOUS
  <2>4. [cpu[c] EXCEPT !.intr = FALSE] \in CpuType
    BY <2>1 DEF CpuType
  <2>5. cpu' \in [CPUs -> CpuType]
    BY <1>1, <2>4, CpuUpdate DEF ScanTop
  <2> QED
    BY <1>1, <2>5 DEF ScanTop, PCs, Open
<1>2. ASSUME NEW c \in CPUs, Back(c) PROVE TypeOK'
  <2>1. cpu[c] \in CpuType
    OBVIOUS
  <2>2. cpu[c].noff >= 1
    BY <1>2 DEF Back, CpuInv, OnCpu, Leaving, Running, Depth, Open, CpuType
  <2>3. PopOff(cpu[c]) \in CpuType
    BY <2>1, <2>2, PopOffType
  <2>4. [PopOff(cpu[c]) EXCEPT !.proc = None, !.at = "scan"] \in CpuType
    BY <2>1, <2>3 DEF CpuType
  <2>5. cpu' \in [CPUs -> CpuType]
    BY <1>2, <2>4, CpuUpdate DEF Back
  <2> QED
    BY <1>2, <2>5 DEF Back, PCs, Open
<1>3. ASSUME NEW c \in CPUs, NEW p \in Procs, Pick(c, p) PROVE TypeOK'
  <2>1. cpu[c] \in CpuType
    OBVIOUS
  <2>2. cpu[c].intr \in BOOLEAN
    BY <2>1 DEF CpuType
  <2>3. PushOff(cpu[c], cpu[c].intr) \in CpuType
    BY <2>1, <2>2, PushOffType
  <2>4. [PushOff(cpu[c], cpu[c].intr) EXCEPT !.proc = p, !.at = "run"] \in CpuType
    BY <2>1, <2>3 DEF CpuType
  <2>5. cpu' \in [CPUs -> CpuType]
    BY <1>3, <2>4, CpuUpdate DEF Pick
  <2> QED
    BY <1>3, <2>5 DEF Pick, PCs, Open
<1>4. ASSUME NEW c \in CPUs, NEW p \in Procs, Forkret(p, c) PROVE TypeOK'
  <2>1. cpu[c] \in CpuType
    OBVIOUS
  <2>0. Running(p, c) /\ pc[p] = "forkret"
    BY <1>4 DEF Forkret, Goto
  <2>2. cpu[c].noff >= 1
    BY <2>0 DEF CpuInv, OnCpu, Depth, Open
  <2>3. PopOff(cpu[c]) \in CpuType
    BY <2>1, <2>2, PopOffType
  <2>4. [PopOff(cpu[c]) EXCEPT !.intr = TRUE] \in CpuType
    BY <2>1, <2>3 DEF CpuType
  <2>5. cpu' \in [CPUs -> CpuType]
    BY <1>4, <2>4, CpuUpdate DEF Forkret
  <2> QED
    BY <1>4, <2>5 DEF Forkret, Goto, PCs, Open
<1>5. ASSUME NEW c \in CPUs, NEW p \in Procs, SchedSwtch(p, c) PROVE TypeOK'
  <2>1. cpu[c] \in CpuType
    OBVIOUS
  <2>4. [cpu[c] EXCEPT !.at = "back"] \in CpuType
    BY <2>1 DEF CpuType
  <2>5. cpu' \in [CPUs -> CpuType]
    BY <1>5, <2>4, CpuUpdate DEF SchedSwtch
  <2>6. cpu[c].intena \in BOOLEAN
    BY <2>1 DEF CpuType
  <2> QED
    BY <1>5, <2>5, <2>6 DEF SchedSwtch, Goto, PCs, Open
<1>6. ASSUME NEW c \in CPUs, NEW p \in Procs, SchedReturn(p, c) PROVE TypeOK'
  <2>1. cpu[c] \in CpuType
    OBVIOUS
  <2>3. sint[p] \in BOOLEAN
    OBVIOUS
  <2>4. [cpu[c] EXCEPT !.intena = sint[p]] \in CpuType
    BY <2>1, <2>3 DEF CpuType
  <2>5. cpu' \in [CPUs -> CpuType]
    BY <1>6, <2>4, CpuUpdate DEF SchedReturn, Restore
  <2> QED
    BY <1>6, <2>5 DEF SchedReturn, Goto, PCs, Open
<1>7. ASSUME NEW c \in CPUs, NEW p \in Procs, Yield(p, c) PROVE TypeOK'
  <2>1. cpu[c] \in CpuType
    OBVIOUS
  <2>2. cpu[c].intr \in BOOLEAN
    BY <2>1 DEF CpuType
  <2>3. PushOff(cpu[c], cpu[c].intr) \in CpuType
    BY <2>1, <2>2, PushOffType
  <2>5. cpu' \in [CPUs -> CpuType]
    BY <1>7, <2>3, CpuUpdate DEF Yield
  <2> QED
    BY <1>7, <2>5 DEF Yield, Goto, PCs, Open
<1>8. ASSUME NEW c \in CPUs, NEW p \in Procs, YieldReturn(p, c) PROVE TypeOK'
  <2>1. cpu[c] \in CpuType
    OBVIOUS
  <2>0. Running(p, c) /\ pc[p] = "resumed"
    BY <1>8 DEF YieldReturn, Goto
  <2>2. cpu[c].noff >= 1
    BY <2>0 DEF CpuInv, OnCpu, Depth, Open
  <2>3. PopOff(cpu[c]) \in CpuType
    BY <2>1, <2>2, PopOffType
  <2>4. [PopOff(cpu[c]) EXCEPT !.intr = TRUE] \in CpuType
    BY <2>1, <2>3 DEF CpuType
  <2>5. cpu' \in [CPUs -> CpuType]
    BY <1>8, <2>4, CpuUpdate DEF YieldReturn
  <2> QED
    BY <1>8, <2>5 DEF YieldReturn, Goto, PCs, Open
<1>9. ASSUME NEW c \in CPUs, NEW p \in Procs, Spin(p, c) PROVE TypeOK'
  <2>1. cpu[c] \in CpuType
    OBVIOUS
  <2>2. old[p] \in BOOLEAN
    OBVIOUS
  <2>3. PushOff(cpu[c], old[p]) \in CpuType
    BY <2>1, <2>2, PushOffType
  <2>5. cpu' \in [CPUs -> CpuType]
    BY <1>9, <2>3, CpuUpdate DEF Spin
  <2> QED
    BY <1>9, <2>5 DEF Spin, PCs, Open
<1>10. ASSUME NEW c \in CPUs, NEW p \in Procs, AcquireLk(p, c) PROVE TypeOK'
  BY <1>10 DEF AcquireLk, Goto, PCs, Open
<1>11. ASSUME NEW c \in CPUs, NEW p \in Procs, Test(p, c) PROVE TypeOK'
  <2>1. CASE locked
    BY <1>11, <2>1 DEF Test, Goto, PCs
  <2>2. CASE ~locked
    <3>1. cpu[c] \in CpuType
      OBVIOUS
    <3>0. Running(p, c) /\ pc[p] = "test"
      BY <1>11 DEF Test, Goto
    <3>2. cpu[c].noff >= 1
      BY <3>0 DEF CpuInv, OnCpu, Depth, Open
    <3>3. PopOff(cpu[c]) \in CpuType
      BY <3>1, <3>2, PopOffType
    <3>5. cpu' \in [CPUs -> CpuType]
      BY <1>11, <2>2, <3>3, CpuUpdate DEF Test
    <3>6. /\ pc' = [pc EXCEPT ![p] = "cs"] /\ locked' = TRUE /\ owner' = p /\ lk' = None
          /\ UNCHANGED <<state, asleep, killed, plock, ret, sint, old, todo>>
      BY <1>11, <2>2 DEF Test, Goto
    <3> QED
      BY <3>5, <3>6 DEF PCs, Open
  <2> QED
    BY <2>1, <2>2
<1>12. ASSUME NEW c \in CPUs, NEW p \in Procs, SleepLock(p, c) PROVE TypeOK'
  <2>1. cpu[c] \in CpuType
    OBVIOUS
  <2>2. cpu[c].intr \in BOOLEAN
    BY <2>1 DEF CpuType
  <2>3. PushOff(cpu[c], cpu[c].intr) \in CpuType
    BY <2>1, <2>2, PushOffType
  <2>5. cpu' \in [CPUs -> CpuType]
    BY <1>12, <2>3, CpuUpdate DEF SleepLock
  <2> QED
    BY <1>12, <2>5 DEF SleepLock, Goto, PCs, Open
<1>13. ASSUME NEW c \in CPUs, NEW p \in Procs, GoToSleep(p, c) PROVE TypeOK'
  <2>1. cpu[c] \in CpuType
    OBVIOUS
  <2>0. Running(p, c) /\ pc[p] = "gosleep"
    BY <1>13 DEF GoToSleep, Goto
  <2>2. cpu[c].noff >= 1
    BY <2>0 DEF CpuInv, OnCpu, Depth, Open
  <2>3. PopOff(cpu[c]) \in CpuType
    BY <2>1, <2>2, PopOffType
  <2>5. cpu' \in [CPUs -> CpuType]
    BY <1>13, <2>3, CpuUpdate DEF GoToSleep
  <2> QED
    BY <1>13, <2>5 DEF GoToSleep, Goto, PCs, Open
<1>14. ASSUME NEW c \in CPUs, NEW p \in Procs, SleepReturn(p, c) PROVE TypeOK'
  <2>1. cpu[c] \in CpuType
    OBVIOUS
  <2>0. Running(p, c) /\ pc[p] = "resumed"
    BY <1>14 DEF SleepReturn, Goto
  <2>2. cpu[c].noff >= 1
    BY <2>0 DEF CpuInv, OnCpu, Depth, Open
  <2>3. PopOff(cpu[c]) \in CpuType
    BY <2>1, <2>2, PopOffType
  <2>5. cpu' \in [CPUs -> CpuType]
    BY <1>14, <2>3, CpuUpdate DEF SleepReturn
  <2> QED
    BY <1>14, <2>5 DEF SleepReturn, Goto, PCs, Open
<1>15. ASSUME NEW c \in CPUs, NEW p \in Procs, Release(p, c) PROVE TypeOK'
  BY <1>15 DEF Release, Goto, PCs, Open
<1>16. ASSUME NEW c \in CPUs, NEW p \in Procs, ReleaseDone(p, c) PROVE TypeOK'
  <2>1. cpu[c] \in CpuType
    OBVIOUS
  <2>0. Running(p, c) /\ pc[p] = "wakeup"
    BY <1>16 DEF ReleaseDone, Goto
  <2>2. cpu[c].noff >= 1
    BY <2>0 DEF CpuInv, OnCpu, Depth, Open
  <2>3. PopOff(cpu[c]) \in CpuType
    BY <2>1, <2>2, PopOffType
  <2>5. cpu' \in [CPUs -> CpuType]
    BY <1>16, <2>3, CpuUpdate DEF ReleaseDone
  <2> QED
    BY <1>16, <2>5 DEF ReleaseDone, Goto, PCs, Open
<1>17. ASSUME NEW c \in CPUs, NEW p \in Procs, Want(p, c) PROVE TypeOK'
  BY <1>17 DEF Want, Goto, PCs, Open
<1>18. ASSUME NEW c \in CPUs, NEW p \in Procs, TimerIntr(p, c) PROVE TypeOK'
  <2>1. cpu[c] \in CpuType
    OBVIOUS
  <2>4. [cpu[c] EXCEPT !.intr = FALSE] \in CpuType
    BY <2>1 DEF CpuType
  <2>5. cpu' \in [CPUs -> CpuType]
    BY <1>18, <2>4, CpuUpdate DEF TimerIntr
  <2>6. pc[p] \in Open
    BY <1>18 DEF TimerIntr, CpuInv, OnCpu
  <2> QED
    BY <1>18, <2>5, <2>6 DEF TimerIntr, PCs, Open
<1>19. ASSUME NEW c \in CPUs, NEW p \in Procs, NEW q \in Procs, WakeOne(p, c, q) PROVE TypeOK'
  BY <1>19 DEF WakeOne, PCs, Open
<1>20. ASSUME NEW c \in CPUs, NEW p \in Procs, NEW q \in Procs, Kill(p, c, q) PROVE TypeOK'
  BY <1>20 DEF Kill, PCs, Open
<1>21. CASE UNCHANGED vars
  BY <1>21 DEF vars
<1>22. ASSUME NEW c \in CPUs, NEW p \in Procs, IntrGet(p, c) PROVE TypeOK'
  <2>1. cpu[c].intr \in BOOLEAN
    BY DEF CpuType
  <2> QED
    BY <1>22, <2>1 DEF IntrGet, PCs, Open
<1> QED
  BY <1>1, <1>2, <1>3, <1>4, <1>5, <1>6, <1>7, <1>8, <1>9, <1>10, <1>11,
      <1>12, <1>13, <1>14, <1>15, <1>16, <1>17, <1>18, <1>19, <1>20, <1>21, <1>22 DEF Next, Kernel

\* Every step keeps each process on at most one CPU, with the locks its place calls for.
LEMMA CpuStep == IInv /\ [Next]_vars => CpuInv'
<1> SUFFICES ASSUME IInv, [Next]_vars PROVE CpuInv'
  OBVIOUS
<1> USE SchedAssumption DEF IInv, TypeOK, PCs, Open, Running, CpuInv, OneCPU,
    OnCpu, Leaving, OffCpu, CpuType, Depth, HoldsP, HoldsLk, LkInv, StackInv
<1>1. ASSUME NEW c \in CPUs, ScanTop(c) PROVE CpuInv'
  BY <1>1 DEF ScanTop
<1>2. ASSUME NEW c \in CPUs, Back(c) PROVE CpuInv'
  BY <1>2 DEF Back, PopOff
<1>3. ASSUME NEW c \in CPUs, NEW p \in Procs, Pick(c, p) PROVE CpuInv'
  BY <1>3 DEF Pick, PushOff
<1>4. ASSUME NEW c \in CPUs, NEW p \in Procs, Forkret(p, c) PROVE CpuInv'
  BY <1>4 DEF Forkret, Goto, PopOff
<1>5. ASSUME NEW c \in CPUs, NEW p \in Procs, SchedSwtch(p, c) PROVE CpuInv'
  BY <1>5 DEF SchedSwtch, Goto, SchedPanics
<1>6. ASSUME NEW c \in CPUs, NEW p \in Procs, SchedReturn(p, c) PROVE CpuInv'
  BY <1>6 DEF SchedReturn, Goto, Restore
<1>7. ASSUME NEW c \in CPUs, NEW p \in Procs, Yield(p, c) PROVE CpuInv'
  BY <1>7 DEF Yield, Goto, PushOff
<1>8. ASSUME NEW c \in CPUs, NEW p \in Procs, YieldReturn(p, c) PROVE CpuInv'
  BY <1>8 DEF YieldReturn, Goto, PopOff
<1>9. ASSUME NEW c \in CPUs, NEW p \in Procs, Spin(p, c) PROVE CpuInv'
  BY <1>9 DEF Spin, PushOff
<1>10. ASSUME NEW c \in CPUs, NEW p \in Procs, AcquireLk(p, c) PROVE CpuInv'
  BY <1>10 DEF AcquireLk, Goto
<1>11. ASSUME NEW c \in CPUs, NEW p \in Procs, Test(p, c) PROVE CpuInv'
  <2>1. CASE locked
    BY <1>11, <2>1 DEF Test, Goto
  <2>2. CASE ~locked
    <3>1. Running(p, c) /\ pc[p] = "test" /\ OnCpu(p, c)
      BY <1>11 DEF Test, Goto
    <3>2. /\ pc' = [pc EXCEPT ![p] = "cs"]
          /\ cpu' = [cpu EXCEPT ![c] = PopOff(@)]
          /\ lk' = None
          /\ UNCHANGED <<state, plock, asleep>>
      BY <1>11, <2>2 DEF Test, Goto
    <3>3. \A d \in CPUs : /\ cpu'[d].proc = cpu[d].proc
                          /\ cpu'[d].at = cpu[d].at
                          /\ d # c => cpu'[d] = cpu[d]
      BY <3>2 DEF PopOff, CpuType
    <3>4. cpu'[c].noff = 0 /\ cpu'[c].intr
      BY <3>1, <3>2 DEF PopOff, CpuType
    <3> QED
      BY <3>1, <3>2, <3>3, <3>4
  <2> QED
    BY <2>1, <2>2
<1>12. ASSUME NEW c \in CPUs, NEW p \in Procs, SleepLock(p, c) PROVE CpuInv'
  BY <1>12 DEF SleepLock, Goto, PushOff
<1>13. ASSUME NEW c \in CPUs, NEW p \in Procs, GoToSleep(p, c) PROVE CpuInv'
  BY <1>13 DEF GoToSleep, Goto, PopOff
<1>14. ASSUME NEW c \in CPUs, NEW p \in Procs, SleepReturn(p, c) PROVE CpuInv'
  BY <1>14 DEF SleepReturn, Goto, PopOff
<1>15. ASSUME NEW c \in CPUs, NEW p \in Procs, Release(p, c) PROVE CpuInv'
  BY <1>15 DEF Release, Goto
<1>16. ASSUME NEW c \in CPUs, NEW p \in Procs, ReleaseDone(p, c) PROVE CpuInv'
  BY <1>16 DEF ReleaseDone, Goto, PopOff
<1>17. ASSUME NEW c \in CPUs, NEW p \in Procs, Want(p, c) PROVE CpuInv'
  BY <1>17 DEF Want, Goto
<1>18. ASSUME NEW c \in CPUs, NEW p \in Procs, TimerIntr(p, c) PROVE CpuInv'
  BY <1>18 DEF TimerIntr
<1>19. ASSUME NEW c \in CPUs, NEW p \in Procs, NEW q \in Procs, WakeOne(p, c, q) PROVE CpuInv'
  BY <1>19 DEF WakeOne
<1>20. ASSUME NEW c \in CPUs, NEW p \in Procs, NEW q \in Procs, Kill(p, c, q) PROVE CpuInv'
  BY <1>20 DEF Kill
<1>21. CASE UNCHANGED vars
  BY <1>21 DEF vars
<1>22. ASSUME NEW c \in CPUs, NEW p \in Procs, IntrGet(p, c) PROVE CpuInv'
  BY <1>22 DEF IntrGet
<1> QED
  BY <1>1, <1>2, <1>3, <1>4, <1>5, <1>6, <1>7, <1>8, <1>9, <1>10, <1>11,
      <1>12, <1>13, <1>14, <1>15, <1>16, <1>17, <1>18, <1>19, <1>20, <1>21, <1>22 DEF Next, Kernel

\* Every step keeps a holder of lk->lk.
LEMMA LkStep == IInv /\ [Next]_vars => LkInv'
<1> SUFFICES ASSUME IInv, [Next]_vars PROVE LkInv'
  OBVIOUS
<1> USE SchedAssumption DEF IInv, TypeOK, PCs, Open, Running, CpuInv, OneCPU,
    OnCpu, Leaving, OffCpu, CpuType, HoldsP, HoldsLk, LkInv
<1>1. ASSUME NEW c \in CPUs, ScanTop(c) PROVE LkInv'
  BY <1>1 DEF ScanTop
<1>2. ASSUME NEW c \in CPUs, Back(c) PROVE LkInv'
  BY <1>2 DEF Back, PopOff
<1>3. ASSUME NEW c \in CPUs, NEW p \in Procs, Pick(c, p) PROVE LkInv'
  BY <1>3 DEF Pick, PushOff
<1>4. ASSUME NEW c \in CPUs, NEW p \in Procs, Forkret(p, c) PROVE LkInv'
  BY <1>4 DEF Forkret, Goto, PopOff
<1>5. ASSUME NEW c \in CPUs, NEW p \in Procs, SchedSwtch(p, c) PROVE LkInv'
  BY <1>5 DEF SchedSwtch, Goto, SchedPanics
<1>6. ASSUME NEW c \in CPUs, NEW p \in Procs, SchedReturn(p, c) PROVE LkInv'
  BY <1>6 DEF SchedReturn, Goto, Restore
<1>7. ASSUME NEW c \in CPUs, NEW p \in Procs, Yield(p, c) PROVE LkInv'
  BY <1>7 DEF Yield, Goto, PushOff
<1>8. ASSUME NEW c \in CPUs, NEW p \in Procs, YieldReturn(p, c) PROVE LkInv'
  BY <1>8 DEF YieldReturn, Goto, PopOff
<1>9. ASSUME NEW c \in CPUs, NEW p \in Procs, Spin(p, c) PROVE LkInv'
  BY <1>9 DEF Spin, PushOff
<1>10. ASSUME NEW c \in CPUs, NEW p \in Procs, AcquireLk(p, c) PROVE LkInv'
  BY <1>10 DEF AcquireLk, Goto
<1>11. ASSUME NEW c \in CPUs, NEW p \in Procs, Test(p, c) PROVE LkInv'
  BY <1>11 DEF Test, Goto, PopOff
<1>12. ASSUME NEW c \in CPUs, NEW p \in Procs, SleepLock(p, c) PROVE LkInv'
  BY <1>12 DEF SleepLock, Goto, PushOff
<1>13. ASSUME NEW c \in CPUs, NEW p \in Procs, GoToSleep(p, c) PROVE LkInv'
  BY <1>13 DEF GoToSleep, Goto, PopOff
<1>14. ASSUME NEW c \in CPUs, NEW p \in Procs, SleepReturn(p, c) PROVE LkInv'
  BY <1>14 DEF SleepReturn, Goto, PopOff
<1>15. ASSUME NEW c \in CPUs, NEW p \in Procs, Release(p, c) PROVE LkInv'
  BY <1>15 DEF Release, Goto
<1>16. ASSUME NEW c \in CPUs, NEW p \in Procs, ReleaseDone(p, c) PROVE LkInv'
  BY <1>16 DEF ReleaseDone, Goto, PopOff
<1>17. ASSUME NEW c \in CPUs, NEW p \in Procs, Want(p, c) PROVE LkInv'
  BY <1>17 DEF Want, Goto
<1>18. ASSUME NEW c \in CPUs, NEW p \in Procs, TimerIntr(p, c) PROVE LkInv'
  <2>1. pc[p] \in Open
    BY <1>18 DEF TimerIntr, CpuType
  <2> QED
    BY <1>18, <2>1 DEF TimerIntr
<1>19. ASSUME NEW c \in CPUs, NEW p \in Procs, NEW q \in Procs, WakeOne(p, c, q) PROVE LkInv'
  BY <1>19 DEF WakeOne
<1>20. ASSUME NEW c \in CPUs, NEW p \in Procs, NEW q \in Procs, Kill(p, c, q) PROVE LkInv'
  BY <1>20 DEF Kill
<1>21. CASE UNCHANGED vars
  BY <1>21 DEF vars
<1>22. ASSUME NEW c \in CPUs, NEW p \in Procs, IntrGet(p, c) PROVE LkInv'
  BY <1>22 DEF IntrGet
<1> QED
  BY <1>1, <1>2, <1>3, <1>4, <1>5, <1>6, <1>7, <1>8, <1>9, <1>10, <1>11,
      <1>12, <1>13, <1>14, <1>15, <1>16, <1>17, <1>18, <1>19, <1>20, <1>21, <1>22 DEF Next, Kernel

\* Every step keeps what a process has on its stack.
LEMMA StackStep == IInv /\ [Next]_vars => StackInv'
<1> SUFFICES ASSUME IInv, [Next]_vars PROVE StackInv'
  OBVIOUS
<1> USE SchedAssumption DEF IInv, TypeOK, PCs, Open, Running, CpuInv, OneCPU,
    OnCpu, Leaving, OffCpu, CpuType, Depth, HoldsP, StackInv
<1>1. ASSUME NEW c \in CPUs, ScanTop(c) PROVE StackInv'
  BY <1>1 DEF ScanTop
<1>2. ASSUME NEW c \in CPUs, Back(c) PROVE StackInv'
  BY <1>2 DEF Back, PopOff
<1>3. ASSUME NEW c \in CPUs, NEW p \in Procs, Pick(c, p) PROVE StackInv'
  BY <1>3 DEF Pick, PushOff
<1>4. ASSUME NEW c \in CPUs, NEW p \in Procs, Forkret(p, c) PROVE StackInv'
  BY <1>4 DEF Forkret, Goto, PopOff
<1>5. ASSUME NEW c \in CPUs, NEW p \in Procs, SchedSwtch(p, c) PROVE StackInv'
  BY <1>5 DEF SchedSwtch, Goto, SchedPanics
<1>6. ASSUME NEW c \in CPUs, NEW p \in Procs, SchedReturn(p, c) PROVE StackInv'
  BY <1>6 DEF SchedReturn, Goto, Restore
<1>7. ASSUME NEW c \in CPUs, NEW p \in Procs, Yield(p, c) PROVE StackInv'
  BY <1>7 DEF Yield, Goto, PushOff
<1>8. ASSUME NEW c \in CPUs, NEW p \in Procs, YieldReturn(p, c) PROVE StackInv'
  <2>1. ret[p] \in Open
    BY DEF TypeOK
  <2> QED
    BY <1>8, <2>1 DEF YieldReturn, Goto, PopOff
<1>9. ASSUME NEW c \in CPUs, NEW p \in Procs, Spin(p, c) PROVE StackInv'
  BY <1>9 DEF Spin, PushOff
<1>10. ASSUME NEW c \in CPUs, NEW p \in Procs, AcquireLk(p, c) PROVE StackInv'
  BY <1>10 DEF AcquireLk, Goto
<1>11. ASSUME NEW c \in CPUs, NEW p \in Procs, Test(p, c) PROVE StackInv'
  BY <1>11 DEF Test, Goto, PopOff
<1>12. ASSUME NEW c \in CPUs, NEW p \in Procs, SleepLock(p, c) PROVE StackInv'
  BY <1>12 DEF SleepLock, Goto, PushOff
<1>13. ASSUME NEW c \in CPUs, NEW p \in Procs, GoToSleep(p, c) PROVE StackInv'
  BY <1>13 DEF GoToSleep, Goto, PopOff
<1>14. ASSUME NEW c \in CPUs, NEW p \in Procs, SleepReturn(p, c) PROVE StackInv'
  BY <1>14 DEF SleepReturn, Goto, PopOff
<1>15. ASSUME NEW c \in CPUs, NEW p \in Procs, Release(p, c) PROVE StackInv'
  BY <1>15 DEF Release, Goto
<1>16. ASSUME NEW c \in CPUs, NEW p \in Procs, ReleaseDone(p, c) PROVE StackInv'
  BY <1>16 DEF ReleaseDone, Goto, PopOff
<1>17. ASSUME NEW c \in CPUs, NEW p \in Procs, Want(p, c) PROVE StackInv'
  BY <1>17 DEF Want, Goto
<1>18. ASSUME NEW c \in CPUs, NEW p \in Procs, TimerIntr(p, c) PROVE StackInv'
  BY <1>18 DEF TimerIntr
<1>19. ASSUME NEW c \in CPUs, NEW p \in Procs, NEW q \in Procs, WakeOne(p, c, q) PROVE StackInv'
  BY <1>19 DEF WakeOne
<1>20. ASSUME NEW c \in CPUs, NEW p \in Procs, NEW q \in Procs, Kill(p, c, q) PROVE StackInv'
  BY <1>20 DEF Kill
<1>21. CASE UNCHANGED vars
  BY <1>21 DEF vars
<1>22. ASSUME NEW c \in CPUs, NEW p \in Procs, IntrGet(p, c) PROVE StackInv'
  BY <1>22 DEF IntrGet
<1> QED
  BY <1>1, <1>2, <1>3, <1>4, <1>5, <1>6, <1>7, <1>8, <1>9, <1>10, <1>11,
      <1>12, <1>13, <1>14, <1>15, <1>16, <1>17, <1>18, <1>19, <1>20, <1>21, <1>22 DEF Next, Kernel

\* Every step keeps the sleep-lock exclusive.
LEMMA ExclStep == IInv /\ [Next]_vars => SleepLockExclusive'
<1> SUFFICES ASSUME IInv, [Next]_vars PROVE SleepLockExclusive'
  OBVIOUS
<1> USE SchedAssumption DEF IInv, TypeOK, PCs, Open, Running, CpuInv, OneCPU,
    OnCpu, Leaving, OffCpu, StackInv, SleepLockExclusive, Holds
<1>1. ASSUME NEW c \in CPUs, ScanTop(c) PROVE SleepLockExclusive'
  BY <1>1 DEF ScanTop
<1>2. ASSUME NEW c \in CPUs, Back(c) PROVE SleepLockExclusive'
  BY <1>2 DEF Back, PopOff
<1>3. ASSUME NEW c \in CPUs, NEW p \in Procs, Pick(c, p) PROVE SleepLockExclusive'
  BY <1>3 DEF Pick, PushOff
<1>4. ASSUME NEW c \in CPUs, NEW p \in Procs, Forkret(p, c) PROVE SleepLockExclusive'
  BY <1>4 DEF Forkret, Goto, PopOff
<1>5. ASSUME NEW c \in CPUs, NEW p \in Procs, SchedSwtch(p, c) PROVE SleepLockExclusive'
  BY <1>5 DEF SchedSwtch, Goto, SchedPanics
<1>6. ASSUME NEW c \in CPUs, NEW p \in Procs, SchedReturn(p, c) PROVE SleepLockExclusive'
  BY <1>6 DEF SchedReturn, Goto, Restore
<1>7. ASSUME NEW c \in CPUs, NEW p \in Procs, Yield(p, c) PROVE SleepLockExclusive'
  BY <1>7 DEF Yield, Goto, PushOff
<1>8. ASSUME NEW c \in CPUs, NEW p \in Procs, YieldReturn(p, c) PROVE SleepLockExclusive'
  BY <1>8 DEF YieldReturn, Goto, PopOff
<1>9. ASSUME NEW c \in CPUs, NEW p \in Procs, Spin(p, c) PROVE SleepLockExclusive'
  BY <1>9 DEF Spin, PushOff
<1>10. ASSUME NEW c \in CPUs, NEW p \in Procs, AcquireLk(p, c) PROVE SleepLockExclusive'
  BY <1>10 DEF AcquireLk, Goto
<1>11. ASSUME NEW c \in CPUs, NEW p \in Procs, Test(p, c) PROVE SleepLockExclusive'
  BY <1>11 DEF Test, Goto, PopOff
<1>12. ASSUME NEW c \in CPUs, NEW p \in Procs, SleepLock(p, c) PROVE SleepLockExclusive'
  BY <1>12 DEF SleepLock, Goto, PushOff
<1>13. ASSUME NEW c \in CPUs, NEW p \in Procs, GoToSleep(p, c) PROVE SleepLockExclusive'
  BY <1>13 DEF GoToSleep, Goto, PopOff
<1>14. ASSUME NEW c \in CPUs, NEW p \in Procs, SleepReturn(p, c) PROVE SleepLockExclusive'
  BY <1>14 DEF SleepReturn, Goto, PopOff
<1>15. ASSUME NEW c \in CPUs, NEW p \in Procs, Release(p, c) PROVE SleepLockExclusive'
  BY <1>15 DEF Release, Goto
<1>16. ASSUME NEW c \in CPUs, NEW p \in Procs, ReleaseDone(p, c) PROVE SleepLockExclusive'
  BY <1>16 DEF ReleaseDone, Goto, PopOff
<1>17. ASSUME NEW c \in CPUs, NEW p \in Procs, Want(p, c) PROVE SleepLockExclusive'
  BY <1>17 DEF Want, Goto
<1>18. ASSUME NEW c \in CPUs, NEW p \in Procs, TimerIntr(p, c) PROVE SleepLockExclusive'
  BY <1>18 DEF TimerIntr
<1>19. ASSUME NEW c \in CPUs, NEW p \in Procs, NEW q \in Procs, WakeOne(p, c, q) PROVE SleepLockExclusive'
  BY <1>19 DEF WakeOne
<1>20. ASSUME NEW c \in CPUs, NEW p \in Procs, NEW q \in Procs, Kill(p, c, q) PROVE SleepLockExclusive'
  BY <1>20 DEF Kill
<1>21. CASE UNCHANGED vars
  BY <1>21 DEF vars
<1>22. ASSUME NEW c \in CPUs, NEW p \in Procs, IntrGet(p, c) PROVE SleepLockExclusive'
  BY <1>22 DEF IntrGet
<1> QED
  BY <1>1, <1>2, <1>3, <1>4, <1>5, <1>6, <1>7, <1>8, <1>9, <1>10, <1>11,
      <1>12, <1>13, <1>14, <1>15, <1>16, <1>17, <1>18, <1>19, <1>20, <1>21, <1>22 DEF Next, Kernel

\* No step loses a wakeup.
LEMMA WakeStep == IInv /\ [Next]_vars => NoLostWakeup'
<1> SUFFICES ASSUME IInv, [Next]_vars PROVE NoLostWakeup'
  OBVIOUS
<1> USE SchedAssumption DEF IInv, TypeOK, PCs, Open, Running, CpuInv, OneCPU,
    OnCpu, Leaving, OffCpu, HoldsP, HoldsLk, LkInv, StackInv, NoLostWakeup
<1>1. ASSUME NEW c \in CPUs, ScanTop(c) PROVE NoLostWakeup'
  BY <1>1 DEF ScanTop
<1>2. ASSUME NEW c \in CPUs, Back(c) PROVE NoLostWakeup'
  BY <1>2 DEF Back, PopOff
<1>3. ASSUME NEW c \in CPUs, NEW p \in Procs, Pick(c, p) PROVE NoLostWakeup'
  BY <1>3 DEF Pick, PushOff
<1>4. ASSUME NEW c \in CPUs, NEW p \in Procs, Forkret(p, c) PROVE NoLostWakeup'
  BY <1>4 DEF Forkret, Goto, PopOff
<1>5. ASSUME NEW c \in CPUs, NEW p \in Procs, SchedSwtch(p, c) PROVE NoLostWakeup'
  BY <1>5 DEF SchedSwtch, Goto, SchedPanics
<1>6. ASSUME NEW c \in CPUs, NEW p \in Procs, SchedReturn(p, c) PROVE NoLostWakeup'
  BY <1>6 DEF SchedReturn, Goto, Restore
<1>7. ASSUME NEW c \in CPUs, NEW p \in Procs, Yield(p, c) PROVE NoLostWakeup'
  BY <1>7 DEF Yield, Goto, PushOff
<1>8. ASSUME NEW c \in CPUs, NEW p \in Procs, YieldReturn(p, c) PROVE NoLostWakeup'
  <2>1. ret[p] \in Open
    BY DEF TypeOK
  <2> QED
    BY <1>8, <2>1 DEF YieldReturn, Goto, PopOff
<1>9. ASSUME NEW c \in CPUs, NEW p \in Procs, Spin(p, c) PROVE NoLostWakeup'
  BY <1>9 DEF Spin, PushOff
<1>10. ASSUME NEW c \in CPUs, NEW p \in Procs, AcquireLk(p, c) PROVE NoLostWakeup'
  BY <1>10 DEF AcquireLk, Goto
<1>11. ASSUME NEW c \in CPUs, NEW p \in Procs, Test(p, c) PROVE NoLostWakeup'
  BY <1>11 DEF Test, Goto, PopOff
<1>12. ASSUME NEW c \in CPUs, NEW p \in Procs, SleepLock(p, c) PROVE NoLostWakeup'
  BY <1>12 DEF SleepLock, Goto, PushOff
<1>13. ASSUME NEW c \in CPUs, NEW p \in Procs, GoToSleep(p, c) PROVE NoLostWakeup'
  BY <1>13 DEF GoToSleep, Goto, PopOff
<1>14. ASSUME NEW c \in CPUs, NEW p \in Procs, SleepReturn(p, c) PROVE NoLostWakeup'
  BY <1>14 DEF SleepReturn, Goto, PopOff
<1>15. ASSUME NEW c \in CPUs, NEW p \in Procs, Release(p, c) PROVE NoLostWakeup'
  BY <1>15 DEF Release, Goto
<1>16. ASSUME NEW c \in CPUs, NEW p \in Procs, ReleaseDone(p, c) PROVE NoLostWakeup'
  BY <1>16 DEF ReleaseDone, Goto, PopOff
<1>17. ASSUME NEW c \in CPUs, NEW p \in Procs, Want(p, c) PROVE NoLostWakeup'
  BY <1>17 DEF Want, Goto
<1>18. ASSUME NEW c \in CPUs, NEW p \in Procs, TimerIntr(p, c) PROVE NoLostWakeup'
  <2>1. pc[p] \in Open
    BY <1>18 DEF TimerIntr, CpuType
  <2> QED
    BY <1>18, <2>1 DEF TimerIntr
<1>19. ASSUME NEW c \in CPUs, NEW p \in Procs, NEW q \in Procs, WakeOne(p, c, q) PROVE NoLostWakeup'
  <2>1. CASE state[q] = "SLEEPING" /\ asleep[q]
    BY <1>19, <2>1 DEF WakeOne
  <2>2. CASE ~(state[q] = "SLEEPING" /\ asleep[q])
    <3>1. pc[q] \notin {"sleep", "gosleep"}
      <4>1. SUFFICES ASSUME pc[q] \in {"sleep", "gosleep"} PROVE FALSE
        OBVIOUS
      <4>2. PICK d \in CPUs : cpu[d].proc = q
        BY <4>1
      <4>3. Running(q, d) /\ lk = d
        BY <4>1, <4>2 DEF CpuType
      <4>4. Running(p, c) /\ lk = c /\ pc[p] = "wakeup"
        BY <1>19 DEF WakeOne
      <4> QED
        BY <4>1, <4>3, <4>4
    <3> QED
      BY <1>19, <2>2, <3>1 DEF WakeOne
  <2> QED
    BY <2>1, <2>2
<1>20. ASSUME NEW c \in CPUs, NEW p \in Procs, NEW q \in Procs, Kill(p, c, q) PROVE NoLostWakeup'
  BY <1>20 DEF Kill
<1>21. CASE UNCHANGED vars
  BY <1>21 DEF vars
<1>22. ASSUME NEW c \in CPUs, NEW p \in Procs, IntrGet(p, c) PROVE NoLostWakeup'
  BY <1>22 DEF IntrGet
<1> QED
  BY <1>1, <1>2, <1>3, <1>4, <1>5, <1>6, <1>7, <1>8, <1>9, <1>10, <1>11,
      <1>12, <1>13, <1>14, <1>15, <1>16, <1>17, <1>18, <1>19, <1>20, <1>21, <1>22 DEF Next, Kernel
-----------------------------------------------------------------------------
\* The invariant holds initially: every process is runnable and on no CPU.
LEMMA InitIInv == Init => IInv
<1> SUFFICES ASSUME Init PROVE IInv
  OBVIOUS
<1> USE SchedAssumption DEF Init, IInv
<1>1. TypeOK
  BY DEF TypeOK, CpuType, PCs, Open
<1>2. CpuInv
  BY DEF CpuInv, OneCPU, Running, OffCpu
<1>3. LkInv /\ StackInv
  BY DEF LkInv, StackInv
<1>4. SleepLockExclusive /\ NoLostWakeup
  BY DEF SleepLockExclusive, Holds, NoLostWakeup
<1> QED
  BY <1>1, <1>2, <1>3, <1>4

\* The inductive invariant of scheduler, sleep, wakeup and the sleep-lock.
THEOREM SchedInvariant == Spec => []IInv
<1>1. IInv /\ [Next]_vars => IInv'
  BY TypeStep, CpuStep, LkStep, StackStep, ExclStep, WakeStep DEF IInv
<1> QED
  BY <1>1, InitIInv, PTL DEF Spec

\* Every state of the scheduler has its type; noff never goes below zero.
THEOREM SchedTypeCorrect == Spec => []TypeOK
<1>1. IInv => TypeOK
  BY DEF IInv
<1> QED
  BY <1>1, SchedInvariant, PTL

\* No two CPUs ever run on one kernel stack, whatever the numbers of both.
THEOREM SchedOneCPU == Spec => []OneCPU
<1>1. IInv => OneCPU
  BY DEF IInv, CpuInv
<1> QED
  BY <1>1, SchedInvariant, PTL

\* The panics of sched(), acquire() and pop_off() are never reached.
THEOREM SchedNeverPanics == Spec => []NoPanic
<1>1. IInv => NoPanic
  <2> SUFFICES ASSUME IInv, NEW p \in Procs, NEW c \in CPUs, Running(p, c)
               PROVE  /\ pc[p] = "sched" => ~SchedPanics(p, c)
                      /\ pc[p] \in {"spin", "relspin"} => lk # c
                      /\ pc[p] \in {"sleep", "yield"} => plock[p] # c
                      /\ pc[p] = "wakeup" => \A q \in todo[p] : plock[q] # c
                      /\ pc[p] \in {"test", "gosleep", "resumed", "wakeup"} =>
                           cpu[c].noff >= 1 /\ ~cpu[c].intr
    BY DEF NoPanic
  <2> USE SchedAssumption DEF IInv
  <2>1. OnCpu(p, c)
    BY DEF CpuInv
  <2>2. pc[p] = "sched" => ~SchedPanics(p, c)
    BY <2>1 DEF OnCpu, HoldsP, SchedPanics, Depth, Open
  <2>3. pc[p] \in {"spin", "relspin"} => lk # c
    BY DEF LkInv, HoldsLk, Running
  <2>4. pc[p] \in {"sleep", "yield"} => plock[p] # c
    BY <2>1 DEF OnCpu, HoldsP
  <2>5. ASSUME pc[p] = "wakeup", NEW q \in todo[p] PROVE plock[q] # c
    <3>1. q \in Procs
      BY DEF TypeOK
    <3>2. plock[p] = None
      BY <2>1, <2>5 DEF OnCpu, HoldsP
    <3>3. CASE \A d \in CPUs : cpu[d].proc # q
      BY <3>1, <3>3 DEF CpuInv, OffCpu
    <3>4. ASSUME NEW d \in CPUs, cpu[d].proc = q PROVE plock[q] # c
      <4>1. cpu[d].at \in {"run", "back"}
        BY <3>1, <3>4 DEF TypeOK, CpuType, CpuInv
      <4>2. plock[q] = None \/ plock[q] = d
        BY <3>1, <3>4, <4>1 DEF CpuInv, OnCpu, Leaving, Running
      <4>3. d = c => q = p
        BY <3>4 DEF Running
      <4> QED
        BY <3>2, <4>2, <4>3
    <3> QED
      BY <3>3, <3>4
  <2>6. pc[p] \in {"test", "gosleep", "resumed", "wakeup"} => cpu[c].noff >= 1 /\ ~cpu[c].intr
    BY <2>1 DEF OnCpu, Depth, Open
  <2> QED
    BY <2>2, <2>3, <2>4, <2>5, <2>6
<1> QED
  BY <1>1, SchedInvariant, PTL

\* Interrupts are on exactly where a process holds no lock and is in no trap.
THEOREM SchedIntrMatched == Spec => []IntrMatched
<1>1. IInv => IntrMatched
  BY DEF IInv, IntrMatched, CpuInv, OnCpu, Leaving, Running, Depth, Open, TypeOK, CpuType
<1> QED
  BY <1>1, SchedInvariant, PTL

\* At most one process holds the sleep-lock, preempted or not.
THEOREM SchedExclusive == Spec => []SleepLockExclusive
<1>1. IInv => SleepLockExclusive
  BY DEF IInv
<1> QED
  BY <1>1, SchedInvariant, PTL

\* sleep() and wakeup() never lose a wakeup.
THEOREM SchedNoLostWakeup == Spec => []NoLostWakeup
<1>1. IInv => NoLostWakeup
  BY DEF IInv
<1> QED
  BY <1>1, SchedInvariant, PTL
=============================================================================

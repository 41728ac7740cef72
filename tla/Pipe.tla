-------------------------------- MODULE Pipe --------------------------------
(***************************************************************************)
(* One pipe (pipe.c) with any number of processes at each end: the ring    *)
(* buffer with its unsigned counters, sleeping and waking, kill, and the   *)
(* close that frees it.  pi->lock is explicit; sleep() and wakeup() are    *)
(* the atomic operations Sched shows them to be.                           *)
(***************************************************************************)
EXTENDS Integers, FiniteSets, Sequences

CONSTANTS
  Readers, Writers,  \* the processes with the one or the other end open
  None,              \* no process
  Bytes,             \* the values of a char
  PIPESIZE,
  UINT,              \* 2^32, the modulus of nread and nwrite
  MaxN               \* bound: the longest read or write

ASSUME PipeAssumption ==
  /\ Readers \cap Writers = {} /\ None \notin Readers \cup Writers
  /\ PIPESIZE \in Nat \ {0} /\ UINT \in Nat /\ MaxN \in Nat
  /\ PIPESIZE < UINT /\ UINT % PIPESIZE = 0

Procs == Readers \cup Writers

VARIABLES
  nread, nwrite, data, readopen, writeopen,  \* struct pipe
  lock,    \* the process holding pi->lock, or None
  pc,      \* where the process is
  left,    \* how many bytes of its read or write are left
  killed,  \* p->killed
  open,    \* the process has its descriptor open
  frees    \* how often the pipe was freed

pipeVars == <<nread, nwrite, data, readopen, writeopen>>
vars == <<pipeVars, lock, pc, left, killed, open, frees>>

Init ==
  /\ nread = 0 /\ nwrite = 0
  /\ data \in {[k \in 0..PIPESIZE-1 |-> b] : b \in Bytes}  \* what kalloc() fills a page with
  /\ readopen = TRUE /\ writeopen = TRUE
  /\ lock = None
  /\ pc = [p \in Procs |-> "idle"]
  /\ left = [p \in Procs |-> 0]
  /\ killed = [p \in Procs |-> FALSE]
  /\ open = [p \in Procs |-> TRUE]
  /\ frees = 0
-----------------------------------------------------------------------------
Empty == nread = nwrite
MutFull == nwrite = nread + PIPESIZE
Full == nwrite = (nread + PIPESIZE) % UINT

\* wakeup(): whoever sleeps at the label asleep runs on at the label to.
Woken(f, asleep, to) == [p \in Procs |-> IF f[p] = asleep THEN to ELSE f[p]]
MutWake(f) == f
WakeReaders(f) == Woken(f, "read_asleep", "read_woken")
WakeWriters(f) == Woken(f, "write_asleep", "write_woken")

Acquire(p, from, to) ==
  /\ pc[p] = from
  /\ lock = None
  /\ lock' = p
  /\ pc' = [pc EXCEPT ![p] = to]

\* A system call that ends: release(&pi->lock) and return.
Return(p, f) ==
  /\ lock' = None
  /\ pc' = [f EXCEPT ![p] = "idle"]
  /\ left' = [left EXCEPT ![p] = 0]
-----------------------------------------------------------------------------
(* pipewrite(). *)

MutMore(p) == left[p] >= 0
More(p) == left[p] > 0

WriteStart(p, n) ==
  /\ open[p] /\ ~killed[p]
  /\ Acquire(p, "idle", "write")
  /\ left' = [left EXCEPT ![p] = n]
  /\ UNCHANGED <<pipeVars, killed, open, frees>>

WriteWoken(p) ==
  /\ Acquire(p, "write_woken", "write")
  /\ UNCHANGED <<pipeVars, left, killed, open, frees>>

\* Nobody reads any more, or the writer was killed: return -1.
WriteFails(p) ==
  /\ pc[p] = "write" /\ More(p)
  /\ ~readopen \/ killed[p]
  /\ Return(p, pc)
  /\ UNCHANGED <<pipeVars, killed, open, frees>>

\* killed() has given up p->lock when it returns, and sleep() takes it again: a
\* kill() in between finds nobody asleep.
WriteFull(p) ==
  /\ pc[p] = "write" /\ More(p)
  /\ readopen /\ ~killed[p]
  /\ Full
  /\ pc' = [WakeReaders(pc) EXCEPT ![p] = "write_sleep"]
  /\ UNCHANGED <<pipeVars, lock, left, killed, open, frees>>

WriteSleep(p) ==
  /\ pc[p] = "write_sleep"
  /\ pc' = [pc EXCEPT ![p] = "write_asleep"]
  /\ lock' = None
  /\ UNCHANGED <<pipeVars, left, killed, open, frees>>

WriteByte(p, b) ==
  /\ pc[p] = "write" /\ More(p)
  /\ readopen /\ ~killed[p]
  /\ ~Full
  /\ data' = [data EXCEPT ![nwrite % PIPESIZE] = b]
  /\ nwrite' = (nwrite + 1) % UINT
  /\ left' = [left EXCEPT ![p] = @ - 1]
  /\ UNCHANGED <<nread, readopen, writeopen, lock, pc, killed, open, frees>>

\* All written, or copyin() failed and ended the loop.
WriteDone(p) ==
  /\ pc[p] = "write"
  /\ ~More(p) \/ (readopen /\ ~killed[p] /\ ~Full)
  /\ Return(p, WakeReaders(pc))
  /\ UNCHANGED <<pipeVars, killed, open, frees>>
-----------------------------------------------------------------------------
(* piperead(). *)

ReadStart(p, n) ==
  /\ open[p] /\ ~killed[p]
  /\ Acquire(p, "idle", "read_test")
  /\ left' = [left EXCEPT ![p] = n]
  /\ UNCHANGED <<pipeVars, killed, open, frees>>

ReadWoken(p) ==
  /\ Acquire(p, "read_woken", "read_test")
  /\ UNCHANGED <<pipeVars, left, killed, open, frees>>

ReadTest(p) ==
  /\ pc[p] = "read_test"
  /\ \/ /\ Empty /\ writeopen /\ killed[p]
        /\ Return(p, pc)
     \/ /\ Empty /\ writeopen /\ ~killed[p]
        /\ pc' = [pc EXCEPT ![p] = "read_sleep"]
        /\ UNCHANGED <<lock, left>>
     \/ /\ ~(Empty /\ writeopen)
        /\ pc' = [pc EXCEPT ![p] = "read"]
        /\ UNCHANGED <<lock, left>>
  /\ UNCHANGED <<pipeVars, killed, open, frees>>

ReadSleep(p) ==
  /\ pc[p] = "read_sleep"
  /\ pc' = [pc EXCEPT ![p] = "read_asleep"]
  /\ lock' = None
  /\ UNCHANGED <<pipeVars, left, killed, open, frees>>

ReadByte(p) ==
  /\ pc[p] = "read" /\ More(p)
  /\ ~Empty
  /\ nread' = (nread + 1) % UINT
  /\ left' = [left EXCEPT ![p] = @ - 1]
  /\ UNCHANGED <<nwrite, data, readopen, writeopen, lock, pc, killed, open, frees>>

\* All read, the pipe empty, or copyout() failed: the byte stays.
ReadDone(p) ==
  /\ pc[p] = "read"
  /\ Return(p, WakeWriters(pc))
  /\ UNCHANGED <<pipeVars, killed, open, frees>>
-----------------------------------------------------------------------------
(* Closing: fileclose() drops the reference and calls pipeclose() with the  *)
(* last one.                                                                *)

End(p) == IF p \in Readers THEN Readers ELSE Writers

Close(p) ==
  /\ pc[p] = "idle" /\ open[p]
  /\ open' = [open EXCEPT ![p] = FALSE]
  /\ pc' = [pc EXCEPT ![p] = IF \E q \in End(p) \ {p} : open[q] THEN "closed" ELSE "pipeclose"]
  /\ UNCHANGED <<pipeVars, lock, left, killed, frees>>

MutUnused == ~readopen' \/ ~writeopen'
Unused == ~readopen' /\ ~writeopen'

PipeClose(p) ==
  /\ pc[p] = "pipeclose"
  /\ lock = None
  /\ readopen' = (readopen /\ p \notin Readers)
  /\ writeopen' = (writeopen /\ p \notin Writers)
  /\ pc' = [(IF p \in Writers THEN WakeReaders(pc) ELSE WakeWriters(pc)) EXCEPT
              ![p] = IF Unused THEN "kfree" ELSE "closed"]
  /\ UNCHANGED <<nread, nwrite, data, lock, left, killed, open, frees>>

KFree(p) ==
  /\ pc[p] = "kfree"
  /\ frees' = frees + 1
  /\ pc' = [pc EXCEPT ![p] = "closed"]
  /\ UNCHANGED <<pipeVars, lock, left, killed, open>>

Kill(p) ==
  /\ open[p]
  /\ killed' = [killed EXCEPT ![p] = TRUE]
  /\ pc' = [pc EXCEPT ![p] = IF @ = "read_asleep" THEN "read_woken"
                             ELSE IF @ = "write_asleep" THEN "write_woken" ELSE @]
  /\ UNCHANGED <<pipeVars, lock, left, open, frees>>
-----------------------------------------------------------------------------
Write(p) ==
  \/ WriteWoken(p) \/ WriteFails(p) \/ WriteFull(p) \/ WriteSleep(p) \/ WriteDone(p)
  \/ \E b \in Bytes : WriteByte(p, b)

Read(p) == ReadWoken(p) \/ ReadTest(p) \/ ReadSleep(p) \/ ReadByte(p) \/ ReadDone(p)

Next ==
  \/ \E p \in Writers : Write(p) \/ \E n \in 0..MaxN : WriteStart(p, n)
  \/ \E p \in Readers : Read(p) \/ \E n \in 0..MaxN : ReadStart(p, n)
  \/ \E p \in Procs : Close(p) \/ PipeClose(p) \/ KFree(p) \/ Kill(p)

Spec == Init /\ [][Next]_vars
-----------------------------------------------------------------------------
\* The type invariant.
TypeOK ==
  /\ nread \in 0..UINT-1 /\ nwrite \in 0..UINT-1
  /\ data \in [0..PIPESIZE-1 -> Bytes]
  /\ readopen \in BOOLEAN /\ writeopen \in BOOLEAN
  /\ lock \in Procs \cup {None}
  /\ pc \in [Procs -> {"idle", "write", "write_sleep", "write_asleep", "write_woken",
                       "read_test", "read_sleep", "read_asleep", "read_woken", "read", "pipeclose", "kfree", "closed"}]
  /\ left \in [Procs -> 0..MaxN]
  /\ killed \in [Procs -> BOOLEAN]
  /\ open \in [Procs -> BOOLEAN]
  /\ frees \in Nat

\* What the ring holds, oldest first.
Queue ==
  [i \in 1..((nwrite - nread) % UINT) |-> data[(nread + i - 1) % PIPESIZE]]

\* The ring is a bounded FIFO: no byte is lost, repeated or reordered, also
\* when the counters wrap, and none is written once the read end is closed.
F == INSTANCE Fifo WITH
       Capacity <- PIPESIZE, queue <- Queue, ropen <- readopen, wopen <- writeopen
ImplementsFifo == F!Spec

\* The pipe is freed once, by the close of its second end, and nobody is
\* left who could use it.
FreedOnce ==
  /\ frees <= 1
  /\ frees = 1 => \A p \in Procs : pc[p] = "closed"

\* A writer sleeps only while the pipe is full and somebody may read it.
WriterSleepsOnFull ==
  lock = None => \A p \in Writers : pc[p] = "write_asleep" => Full /\ readopen

\* A reader sleeps only while the pipe is empty and somebody may write to it.
ReaderSleepsOnEmpty ==
  lock = None => \A p \in Readers : pc[p] = "read_asleep" => Empty /\ writeopen

\* The same where no writer has been killed: a killed one returns from the
\* middle of its write without waking anybody.
ReaderWoken == (\E w \in Writers : killed[w]) \/ ReaderSleepsOnEmpty
=============================================================================

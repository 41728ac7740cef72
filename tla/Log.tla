-------------------------------- MODULE Log --------------------------------
(***************************************************************************)
(* The redo log of kernel/log.c, with the part of the buffer cache it      *)
(* relies on (reference counts, pins, eviction), crashes at every point    *)
(* and the recovery that runs at the next boot.                            *)
(*                                                                         *)
(* A critical section of log.lock is one action.  A disk transfer is one   *)
(* step; a crash in the middle of a transfer may tear the block under the  *)
(* head, except for the log header, whose used part fits in one sector.    *)
(***************************************************************************)
EXTENDS Integers, Sequences, FiniteSets

CONSTANTS
  Procs,        \* kernel threads that make file-system calls
  Blocks,       \* home block numbers outside the log
  Data,         \* contents of a block
  InitData,     \* contents of every block of a fresh image
  Torn,         \* what a half-written block holds
  None,         \* no block; a block that is not cached
  MAXOPBLOCKS,  \* log space begin_op() reserves for one operation
  LOGBLOCKS,    \* data blocks in the on-disk log
  OpBlocks,     \* most distinct blocks one operation logs
  MaxCrashes    \* bound on crashes in a run

ASSUME ConstantsAssumption ==
  /\ IsFiniteSet(Procs)
  /\ InitData \in Data
  /\ None \notin Blocks \cup Data
  /\ Torn \notin Data \cup {None}
  /\ MAXOPBLOCKS \in Nat /\ LOGBLOCKS \in Nat /\ OpBlocks \in Nat
  /\ OpBlocks <= MAXOPBLOCKS
  /\ MaxCrashes \in Nat

VARIABLES
  mode,         \* "up", or the step of initlog() after a restart
  outstanding,  \* log.outstanding
  committing,   \* log.committing
  lh,           \* log.lh: the block numbers logged so far
  tail,         \* the loop counter of write_log() and install_trans()
  pc,           \* where each process is
  buf,          \* the buffer each process has a reference to
  wrote,        \* the distinct blocks each operation has logged
  cache,        \* b->data of the cached home blocks, None when not cached
  refcnt,       \* b->refcnt of the home blocks
  disk,         \* the home blocks on disk
  hdr,          \* the log header on disk
  logdisk,      \* the log's data blocks on disk
  crashes       \* crashes so far

memVars == <<outstanding, committing, lh, tail, pc, buf, wrote, cache, refcnt>>
diskVars == <<disk, hdr, logdisk>>
vars == <<mode, memVars, diskVars, crashes>>

InOp == {"op", "bget", "got", "dirty", "logged", "brelse"}
InCommit == {"write_log", "write_head", "install", "clear", "finish"}

\* Memory as the kernel starts: an empty cache, log.lh and log.outstanding zero.
Booted(out, com, head, i, at, held, logged, data, refs) ==
  /\ out = 0
  /\ com = FALSE
  /\ head = <<>>
  /\ i = 0
  /\ at = [p \in Procs |-> "idle"]
  /\ held = [p \in Procs |-> None]
  /\ logged = [p \in Procs |-> {}]
  /\ data = [b \in Blocks |-> None]
  /\ refs = [b \in Blocks |-> 0]

Init ==
  /\ mode = "up"
  /\ Booted(outstanding, committing, lh, tail, pc, buf, wrote, cache, refcnt)
  /\ disk = [b \in Blocks |-> InitData]
  /\ hdr = <<>>
  /\ logdisk = [i \in 1..LOGBLOCKS |-> InitData]
  /\ crashes = 0
-----------------------------------------------------------------------------
(* The buffer cache. *)

\* A process in bget() counts in refcnt before it has b->lock, and one in
\* brelse() still does when it has given b->lock up.
Unlocked(b) == \A q \in Procs : buf[q] = b => pc[q] \in {"bget", "rget", "brelse", "rrelse"}

\* What bread(b) finds: the cached copy, or the block read from the disk.
Contents(b) == IF cache[b] = None THEN disk[b] ELSE cache[b]

\* bget() under bcache.lock; a block that is not cached is read later.
Bget(p, b) ==
  /\ buf' = [buf EXCEPT ![p] = b]
  /\ refcnt' = [refcnt EXCEPT ![b] = @ + 1]

\* acquiresleep(&b->lock), and the block is read unless it is valid.
Bread(b) ==
  /\ Unlocked(b)
  /\ cache' = [cache EXCEPT ![b] = Contents(b)]

\* bpin(), bunpin().
MutPin(b) == UNCHANGED refcnt
Pin(b) == refcnt' = [refcnt EXCEPT ![b] = @ + 1]

MutUnpin(b) == UNCHANGED refcnt
Unpin(b) == refcnt' = [refcnt EXCEPT ![b] = @ - 1]

\* brelse() after its releasesleep(&b->lock).
Brelse(p) ==
  /\ buf' = [buf EXCEPT ![p] = None]
  /\ refcnt' = [refcnt EXCEPT ![buf[p]] = @ - 1]

\* bget() of some other block recycles a buffer nobody refers to.
Evict(b) ==
  /\ mode = "up"
  /\ refcnt[b] = 0
  /\ cache[b] # None
  /\ cache' = [cache EXCEPT ![b] = None]
  /\ UNCHANGED <<mode, outstanding, committing, lh, tail, pc, buf, wrote,
                 refcnt, diskVars, crashes>>
-----------------------------------------------------------------------------
(* begin_op() and end_op(). *)

MutNoSpace == Len(lh) + outstanding * MAXOPBLOCKS > LOGBLOCKS
NoSpace == Len(lh) + (outstanding + 1) * MAXOPBLOCKS > LOGBLOCKS

MutMustWait == NoSpace
MustWait == committing \/ NoSpace

\* An admitted operation is counted.
MutAdmit == UNCHANGED outstanding
Admit == outstanding' = outstanding + 1

\* wakeup(&log): every sleeper runs its loop again.
MutWakeup(f) == f
Wakeup(f) == [q \in Procs |-> IF f[q] = "asleep" THEN "begin" ELSE f[q]]

BeginOp(p) ==
  /\ mode = "up"
  /\ pc[p] \in {"idle", "begin"}
  /\ \/ /\ MustWait
        /\ pc' = [pc EXCEPT ![p] = "asleep"]
        /\ UNCHANGED <<outstanding, wrote>>
     \/ /\ ~MustWait
        /\ Admit
        /\ pc' = [pc EXCEPT ![p] = "op"]
        /\ wrote' = [wrote EXCEPT ![p] = {}]
  /\ UNCHANGED <<mode, committing, lh, tail, buf, cache, refcnt, diskVars, crashes>>

EndOp(p) ==
  /\ pc[p] = "op"
  /\ ~committing
  /\ outstanding' = outstanding - 1
  /\ IF outstanding' = 0
     THEN /\ committing' = TRUE
          /\ tail' = 0
          /\ pc' = [pc EXCEPT ![p] = IF lh = <<>> THEN "finish" ELSE "write_log"]
     ELSE /\ pc' = Wakeup([pc EXCEPT ![p] = "idle"])
          /\ UNCHANGED <<committing, tail>>
  /\ wrote' = [wrote EXCEPT ![p] = {}]
  /\ UNCHANGED <<mode, lh, buf, cache, refcnt, diskVars, crashes>>

FinishEndOp(p) ==
  /\ pc[p] = "finish"
  /\ committing' = FALSE
  /\ pc' = Wakeup([pc EXCEPT ![p] = "idle"])
  /\ UNCHANGED <<mode, outstanding, lh, tail, buf, wrote, cache, refcnt, diskVars, crashes>>
-----------------------------------------------------------------------------
(* What a system call does between the two, and what one without a         *)
(* transaction (a read) does: one buffer at a time.                        *)

OpBget(p, b) ==
  /\ mode = "up"
  /\ \/ pc[p] = "op" /\ pc' = [pc EXCEPT ![p] = "bget"]
     \/ pc[p] = "idle" /\ pc' = [pc EXCEPT ![p] = "rget"]
  /\ Bget(p, b)
  /\ UNCHANGED <<mode, outstanding, committing, lh, tail, wrote, cache, diskVars, crashes>>

OpBread(p) ==
  /\ \/ pc[p] = "bget" /\ pc' = [pc EXCEPT ![p] = "got"]
     \/ pc[p] = "rget" /\ pc' = [pc EXCEPT ![p] = "reading"]
  /\ Bread(buf[p])
  /\ UNCHANGED <<mode, outstanding, committing, lh, tail, buf, wrote, refcnt, diskVars, crashes>>

\* The operation changes b->data; it must call log_write() before brelse().
Modify(p, v) ==
  /\ pc[p] = "got"
  /\ Cardinality(wrote[p] \cup {buf[p]}) <= OpBlocks
  /\ cache' = [cache EXCEPT ![buf[p]] = v]
  /\ pc' = [pc EXCEPT ![p] = "dirty"]
  /\ UNCHANGED <<mode, outstanding, committing, lh, tail, buf, wrote, refcnt, diskVars, crashes>>

LogWritePanics == Len(lh) >= LOGBLOCKS \/ outstanding < 1

Logged(b) == \E i \in 1..Len(lh) : lh[i] = b

LogWrite(p) ==
  /\ pc[p] = "dirty"
  /\ ~LogWritePanics
  /\ IF Logged(buf[p])
     THEN UNCHANGED <<lh, refcnt>>
     ELSE /\ lh' = Append(lh, buf[p])
          /\ Pin(buf[p])
  /\ wrote' = [wrote EXCEPT ![p] = @ \cup {buf[p]}]
  /\ pc' = [pc EXCEPT ![p] = "logged"]
  /\ UNCHANGED <<mode, outstanding, committing, tail, buf, cache, diskVars, crashes>>

\* brelse(): b->lock is given up, then the reference.
OpUnlock(p) ==
  /\ \/ pc[p] \in {"got", "logged"} /\ pc' = [pc EXCEPT ![p] = "brelse"]
     \/ pc[p] = "reading" /\ pc' = [pc EXCEPT ![p] = "rrelse"]
  /\ UNCHANGED <<mode, outstanding, committing, lh, tail, buf, wrote, cache, refcnt, diskVars, crashes>>

OpBrelse(p) ==
  /\ \/ pc[p] = "brelse" /\ pc' = [pc EXCEPT ![p] = "op"]
     \/ pc[p] = "rrelse" /\ pc' = [pc EXCEPT ![p] = "idle"]
  /\ Brelse(p)
  /\ UNCHANGED <<mode, outstanding, committing, lh, tail, wrote, cache, diskVars, crashes>>
-----------------------------------------------------------------------------
(* commit(), one disk write per step. *)

\* write_log(): copy the next logged block from the cache to the log.
WriteLog(p) ==
  /\ pc[p] = "write_log"
  /\ LET b == lh[tail + 1] IN
     /\ Unlocked(b)
     /\ cache' = [cache EXCEPT ![b] = Contents(b)]
     /\ logdisk' = [logdisk EXCEPT ![tail + 1] = Contents(b)]
  /\ tail' = tail + 1
  /\ pc' = [pc EXCEPT ![p] = IF tail' = Len(lh) THEN "write_head" ELSE "write_log"]
  /\ UNCHANGED <<mode, outstanding, committing, lh, buf, wrote, refcnt, disk, hdr, crashes>>

\* The first write_head(): the commit point.
WriteHead(p) ==
  /\ pc[p] = "write_head"
  /\ hdr' = lh
  /\ tail' = 0
  /\ pc' = [pc EXCEPT ![p] = "install"]
  /\ UNCHANGED <<mode, outstanding, committing, lh, buf, wrote, cache, refcnt, disk, logdisk, crashes>>

\* One turn of the loop of install_trans(): log block to home block.
MutInstallOne ==
  LET b == lh[tail + 1] IN
  /\ Unlocked(b)
  /\ cache' = [cache EXCEPT ![b] = logdisk[tail + 1]]
  /\ disk' = disk
  /\ tail' = tail + 1
MutInstallForever ==
  LET b == lh[tail + 1] IN
  /\ Unlocked(b)
  /\ cache' = [cache EXCEPT ![b] = logdisk[tail + 1]]
  /\ disk' = [disk EXCEPT ![b] = logdisk[tail + 1]]
  /\ tail' = tail
InstallOne ==
  LET b == lh[tail + 1] IN
  /\ Unlocked(b)
  /\ cache' = [cache EXCEPT ![b] = logdisk[tail + 1]]
  /\ disk' = [disk EXCEPT ![b] = logdisk[tail + 1]]
  /\ tail' = tail + 1

InstallTrans(p) ==
  /\ pc[p] = "install"
  /\ InstallOne
  /\ Unpin(lh[tail + 1])
  /\ pc' = [pc EXCEPT ![p] = IF tail' = Len(lh) THEN "clear" ELSE "install"]
  /\ UNCHANGED <<mode, outstanding, committing, lh, buf, wrote, hdr, logdisk, crashes>>

\* log.lh.n = 0 and the second write_head().
ClearLog(p) ==
  /\ pc[p] = "clear"
  /\ lh' = <<>>
  /\ hdr' = <<>>
  /\ tail' = 0
  /\ pc' = [pc EXCEPT ![p] = "finish"]
  /\ UNCHANGED <<mode, outstanding, committing, buf, wrote, cache, refcnt, disk, logdisk, crashes>>
-----------------------------------------------------------------------------
(* Crashes, and initlog() at the next boot. *)

\* The transfers in progress: a crash may leave their target half written.
TornLog == [logdisk EXCEPT ![tail + 1] = Torn]
TornHome == [disk EXCEPT ![lh[tail + 1]] = Torn]

Crash ==
  /\ crashes < MaxCrashes
  /\ crashes' = crashes + 1
  /\ mode' = "read_head"
  /\ Booted(outstanding', committing', lh', tail', pc', buf', wrote', cache', refcnt')
  /\ hdr' = hdr
  /\ \/ UNCHANGED <<disk, logdisk>>
     \/ /\ \E p \in Procs : pc[p] = "write_log"
        /\ logdisk' = TornLog
        /\ UNCHANGED disk
     \/ /\ \/ \E p \in Procs : pc[p] = "install"
           \/ mode = "install"
        /\ disk' = TornHome
        /\ UNCHANGED logdisk

ReadHead ==
  /\ mode = "read_head"
  /\ lh' = hdr
  /\ mode' = IF hdr = <<>> THEN "clear" ELSE "install"
  /\ UNCHANGED <<outstanding, committing, tail, pc, buf, wrote, cache, refcnt, diskVars, crashes>>

RecoverInstall ==
  /\ mode = "install"
  /\ InstallOne
  /\ mode' = IF tail' = Len(lh) THEN "clear" ELSE "install"
  /\ UNCHANGED <<outstanding, committing, lh, pc, buf, wrote, refcnt, hdr, logdisk, crashes>>

RecoverClear ==
  /\ mode = "clear"
  /\ lh' = <<>>
  /\ hdr' = <<>>
  /\ tail' = 0
  /\ mode' = "up"
  /\ UNCHANGED <<outstanding, committing, pc, buf, wrote, cache, refcnt, disk, logdisk, crashes>>
-----------------------------------------------------------------------------
Commit(p) == WriteLog(p) \/ WriteHead(p) \/ InstallTrans(p) \/ ClearLog(p) \/ FinishEndOp(p)

Recover == ReadHead \/ RecoverInstall \/ RecoverClear

Next ==
  \/ \E p \in Procs :
       \/ BeginOp(p) \/ EndOp(p) \/ Commit(p)
       \/ OpBread(p) \/ LogWrite(p) \/ OpUnlock(p) \/ OpBrelse(p)
       \/ \E b \in Blocks : OpBget(p, b)
       \/ \E v \in Data : Modify(p, v)
  \/ \E b \in Blocks : Evict(b)
  \/ Crash
  \/ Recover

Spec == Init /\ [][Next]_vars

\* Every system call runs on: it gets the buffer it waits for and releases it, a
\* modified one is logged, end_op() is reached, a commit and a recovery go on.  A
\* process woken in begin_op() runs its loop again.
Fairness ==
  /\ WF_vars(Recover)
  /\ \A p \in Procs :
       /\ SF_vars(EndOp(p)) /\ SF_vars(OpBread(p))
       /\ WF_vars(LogWrite(p)) /\ WF_vars(OpUnlock(p)) /\ WF_vars(OpBrelse(p))
       /\ SF_vars(Commit(p))
       /\ WF_vars(pc[p] = "begin" /\ BeginOp(p))

FairSpec == Spec /\ Fairness
-----------------------------------------------------------------------------
LogTypeOK ==
  /\ mode \in {"up", "read_head", "install", "clear"}
  /\ outstanding \in Nat
  /\ committing \in BOOLEAN
  /\ lh \in Seq(Blocks)
  /\ hdr \in Seq(Blocks)
  /\ tail \in Nat
  /\ crashes \in 0..MaxCrashes

ProcTypeOK ==
  /\ pc \in [Procs -> {"idle", "begin", "asleep", "rget", "reading", "rrelse"} \cup InOp \cup InCommit]
  /\ buf \in [Procs -> Blocks \cup {None}]
  /\ wrote \in [Procs -> SUBSET Blocks]

BlockTypeOK ==
  /\ cache \in [Blocks -> Data \cup {None, Torn}]
  /\ refcnt \in [Blocks -> Int]
  /\ disk \in [Blocks -> Data \cup {Torn}]
  /\ logdisk \in [1..LOGBLOCKS -> Data \cup {Torn}]

\* The type invariant.  That outstanding never goes negative is part of it:
\* every end_op() has its begin_op().
TypeOK == LogTypeOK /\ ProcTypeOK /\ BlockTypeOK

\* The reservation begin_op() makes is enough for the MAXOPBLOCKS blocks an
\* operation may log.  One log_write() alone can panic: that of a block the
\* operation has logged before, which needs no space, when it has used up its
\* reservation, since log_write() tests for a full log first.  No end_op() finds
\* a commit in progress (its panic).
SpaceSuffices ==
  \A p \in Procs :
    /\ pc[p] = "dirty" /\ LogWritePanics =>
         buf[p] \in wrote[p] /\ Cardinality(wrote[p]) = MAXOPBLOCKS
    /\ pc[p] = "op" => ~committing

\* While a commit copies blocks no operation is active, so that it never
\* writes half of an operation; and only one process commits.
CommitAlone ==
  /\ committing <=> \E p \in Procs : pc[p] \in InCommit
  /\ \A p, q \in Procs : pc[p] \in InCommit =>
       /\ pc[q] \notin InOp
       /\ pc[q] \in InCommit => p = q

\* Once the last end_op() has returned, everything written before is at home
\* on the disk and the log is empty.
QuiescentIsDurable ==
  mode = "up" /\ outstanding = 0 /\ ~committing =>
    /\ lh = <<>> /\ hdr = <<>>
    /\ \A b \in Blocks : disk[b] = Contents(b)

\* A buffer's count is one for each process holding it and one for its pin,
\* and a block is pinned from log_write() until it is installed.
Pinned(b) ==
  \E i \in 1..Len(lh) :
    /\ lh[i] = b
    /\ (\E p \in Procs : pc[p] \in {"install", "clear"}) => i > tail
RefcntExact ==
  mode = "up" => \A b \in Blocks :
    refcnt[b] = Cardinality({p \in Procs : buf[p] = b}) + (IF Pinned(b) THEN 1 ELSE 0)

\* The blocks as a restart at this moment would recover them.
Recovered ==
  [b \in Blocks |->
     IF \E i \in 1..Len(hdr) : hdr[i] = b
     THEN logdisk[CHOOSE i \in 1..Len(hdr) : hdr[i] = b]
     ELSE disk[b]]

\* The log makes each group of operations atomic and durable: the recoverable
\* image changes only at write_head(), to what the finished operations wrote,
\* and a crash anywhere, in recovery too, loses at most the uncommitted group.
Store ==
  INSTANCE AtomicStore WITH
    stable <- Recovered,
    volatile <- IF mode = "up" THEN [b \in Blocks |-> Contents(b)] ELSE Recovered,
    active <- {p \in Procs : pc[p] \in InOp}
ImplementsAtomicStore == Store!Spec


\* Recovery ends and the file system comes up.
RecoveryEnds == mode # "up" ~> mode = "up"
=============================================================================

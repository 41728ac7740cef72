------------------------------- MODULE Sdhci -------------------------------
(***************************************************************************)
(* The SD card driver (sdhci.c): controller and card initialisation at     *)
(* boot, then single-block transfers by programmed I/O, word by word,      *)
(* for the processes that call virtio_disk_rw().  Every wait may time out  *)
(* and every command may fail.  The card is external: it follows the order *)
(* of states its specification and the driver's own command sequence give. *)
(***************************************************************************)
EXTENDS Integers

CONSTANTS
  Procs,    \* processes doing disk I/O
  None,     \* no process
  NBlocks,  \* bound: file system blocks 0..NBlocks-1
  Words,    \* the values of a word of data
  InitWord, \* what mkfs wrote everywhere
  SECTOR,   \* 512 / 4, the words of one transfer
  BSIZE,    \* the words of struct buf's data
  Retries   \* the 100 tries of ACMD41

ASSUME SdhciAssumption ==
  /\ None \notin Procs /\ InitWord \in Words
  /\ NBlocks \in Nat /\ SECTOR \in Nat \ {0} /\ BSIZE \in Nat /\ Retries \in Nat \ {0}
  /\ SECTOR <= BSIZE /\ BSIZE % SECTOR = 0

Blocks == 0..NBlocks-1
Sectors == 0..(NBlocks * (BSIZE \div SECTOR))-1
SectorData == [0..SECTOR-1 -> Words]
BlockData == [0..BSIZE-1 -> Words]

VARIABLES
  phase,        \* the step of sdhci_init() and sdhci_card_init()
  retries,
  present, initialized, rca,  \* struct sdcard; every card is a high-capacity one
  card,         \* external: the state of the card
  confused,     \* history: before any transfer failed, the card got a command its state does not allow
  sectors,      \* external: what the card stores
  lock,         \* the process holding sdcard.lock, or None
  pc,           \* where virtio_disk_rw() is
  blk, buf,     \* b->blockno and b->data of the process's buffer
  i,            \* the loop counter of the transfer
  fifo,         \* the data of the write in progress
  last,         \* history: the first half of the last buffer written to each block
  logical       \* history: the whole of it

bootVars == <<phase, retries, present, initialized, rca>>
histVars == <<last, logical>>
vars == <<bootVars, card, confused, sectors, lock, pc, blk, buf, i, fifo, histVars>>

Init ==
  /\ phase = "reset" /\ retries = Retries
  /\ present = FALSE /\ initialized = FALSE /\ rca = 0
  /\ card = "idle" /\ confused = FALSE
  /\ sectors = [s \in Sectors |-> [k \in 0..SECTOR-1 |-> InitWord]]
  /\ lock = None
  /\ pc = [p \in Procs |-> "idle"]
  /\ blk = [p \in Procs |-> 0]
  /\ buf = [p \in Procs |-> [k \in 0..BSIZE-1 |-> InitWord]]
  /\ i = 0
  /\ fifo = [k \in 0..SECTOR-1 |-> InitWord]
  /\ last = [b \in Blocks |-> [k \in 0..SECTOR-1 |-> InitWord]]
  /\ logical = [b \in Blocks |-> [k \in 0..BSIZE-1 |-> InitWord]]
-----------------------------------------------------------------------------
(* The card: which command it takes in which state, and what state follows. *)

CardStates == {"idle", "ready", "ident", "stby", "tran", "data"}

Takes(cmd) ==
  CASE cmd = "SEND_IF_COND" -> {"idle"}
    [] cmd = "SD_SEND_OP_COND" -> {"idle"}
    [] cmd = "ALL_SEND_CID" -> {"ready"}
    [] cmd = "SEND_RELATIVE_ADDR" -> {"ident"}
    [] cmd \in {"SEND_CSD", "SELECT_CARD"} -> {"stby"}
    [] cmd \in {"SET_BLOCKLEN", "READ_SINGLE_BLOCK", "WRITE_BLOCK"} -> {"tran"}
    [] OTHER -> CardStates

After(cmd) ==
  CASE cmd = "GO_IDLE_STATE" -> "idle"
    [] cmd = "SD_SEND_OP_COND" -> "ready"
    [] cmd = "ALL_SEND_CID" -> "ident"
    [] cmd = "SEND_RELATIVE_ADDR" -> "stby"
    [] cmd = "SELECT_CARD" -> "tran"
    [] cmd \in {"READ_SINGLE_BLOCK", "WRITE_BLOCK"} -> "data"
    [] OTHER -> card

Failed == \E p \in Procs : pc[p] \in {"failed", "panic"}
Panicked == \E p \in Procs : pc[p] = "panic"

\* sdhci_send_cmd(): the command is answered; or the lines do not get free for
\* it, or it times out or fails, and the card may have obeyed it all the same.
SendOk(cmd) ==
  /\ card \in Takes(cmd)
  /\ card' = After(cmd)
  /\ UNCHANGED confused

SendFails(cmd) ==
  /\ card' \in {card} \cup (IF card \in Takes(cmd) THEN {After(cmd)} ELSE {})
  /\ confused' \in {confused, confused \/ (~Failed /\ card \notin Takes(cmd))}
-----------------------------------------------------------------------------
(* sdhci_init(), on the booting CPU before any process runs. *)

InitRest == <<sectors, lock, pc, blk, buf, i, fifo, histVars>>

\* A step of the sequence that a failure ends: the controller stays unusable.
GiveUp == phase' = "off" /\ UNCHANGED <<retries, present, initialized, rca>>

\* sdhci_reset(), card detection, and power, timeouts and the slow clock.
Controller ==
  /\ \/ /\ phase = "reset"
        /\ \/ phase' = "detect" /\ UNCHANGED <<retries, present, initialized, rca>>
           \/ GiveUp
     \/ /\ phase = "detect"
        /\ \/ phase' = "clock" /\ present' = TRUE /\ UNCHANGED <<retries, initialized, rca>>
           \/ GiveUp
     \/ /\ phase = "clock"
        /\ \/ phase' = "GO_IDLE_STATE" /\ UNCHANGED <<retries, present, initialized, rca>>
           \/ GiveUp
  /\ UNCHANGED <<card, confused, InitRest>>

\* The commands that just have to succeed, in the order of sdhci_card_init().
MutFollowing ==
  [GO_IDLE_STATE |-> "SEND_IF_COND", ALL_SEND_CID |-> "SEND_RELATIVE_ADDR",
   SEND_RELATIVE_ADDR |-> "SELECT_CARD", SELECT_CARD |-> "SEND_CSD",
   SEND_CSD |-> "SET_BLOCKLEN", SET_BLOCKLEN |-> "fast_clock"]
Following ==
  [GO_IDLE_STATE |-> "SEND_IF_COND", ALL_SEND_CID |-> "SEND_RELATIVE_ADDR",
   SEND_RELATIVE_ADDR |-> "SEND_CSD", SEND_CSD |-> "SELECT_CARD",
   SELECT_CARD |-> "SET_BLOCKLEN", SET_BLOCKLEN |-> "fast_clock"]

Command ==
  /\ phase \in DOMAIN Following
  /\ \/ /\ SendOk(phase)
        /\ phase' = Following[phase]
        /\ rca' = IF phase = "SEND_RELATIVE_ADDR" THEN 1 ELSE rca
        /\ UNCHANGED <<retries, present, initialized>>
     \/ SendFails(phase) /\ GiveUp
  /\ UNCHANGED InitRest

\* CMD8: an old card does not answer, which is no failure; a bad echo is.
IfCond ==
  /\ phase = "SEND_IF_COND"
  /\ \/ /\ SendOk("SEND_IF_COND")
        /\ \/ phase' = "APP_CMD" /\ UNCHANGED <<retries, present, initialized, rca>>
           \/ GiveUp
     \/ /\ SendFails("SEND_IF_COND")
        /\ phase' = "APP_CMD"
        /\ UNCHANGED <<retries, present, initialized, rca>>
  /\ UNCHANGED InitRest

\* sdhci_send_acmd(): CMD55, then ACMD41 ...
AppCmd ==
  /\ phase = "APP_CMD"
  /\ \/ /\ SendOk("APP_CMD")
        /\ phase' = "SD_SEND_OP_COND"
        /\ UNCHANGED <<retries, present, initialized, rca>>
     \/ SendFails("APP_CMD") /\ GiveUp
  /\ UNCHANGED InitRest

\* ... until the card is no longer busy or the tries are used up.
MutTries ==
  /\ retries' = retries - 1
  /\ phase' = IF retries' < 0 THEN "off" ELSE "APP_CMD"
MutTryAgain == phase' = "APP_CMD" /\ UNCHANGED retries
TryAgain ==
  /\ retries' = retries - 1
  /\ phase' = IF retries' = 0 THEN "off" ELSE "APP_CMD"

OpCond ==
  /\ phase = "SD_SEND_OP_COND"
  /\ \/ /\ SendOk("SD_SEND_OP_COND")
        /\ phase' = "ALL_SEND_CID"
        /\ UNCHANGED retries
     \/ UNCHANGED <<card, confused>> /\ TryAgain
     \/ SendFails("SD_SEND_OP_COND") /\ phase' = "off" /\ UNCHANGED retries
  /\ UNCHANGED <<present, initialized, rca, InitRest>>

\* sdhci_set_clock(25000000), its result ignored, and initialized = 1.
FastClock ==
  /\ phase = "fast_clock"
  /\ phase' = "on"
  /\ initialized' = TRUE
  /\ UNCHANGED <<retries, present, rca, card, confused, InitRest>>
-----------------------------------------------------------------------------
(* virtio_disk_rw(), sdhci_read_block(), sdhci_write_block(). *)

Alive(p) == phase \in {"on", "off"} /\ pc[p] # "panic"

MutRelease == UNCHANGED lock
Release == lock' = None

\* The transfer failed: a message and the release.  When another CPU has
\* panicked the message may be the end of it: this one spins in uartputc_sync(),
\* with the lock held.
Fail(p) ==
  \/ lock' = None /\ pc' = [pc EXCEPT ![p] = "failed"]
  \/ Panicked /\ lock' = p /\ pc' = [pc EXCEPT ![p] = "panic"]

\* virtio_disk_rw() sees the failure and panics; the other CPUs go on.
Panic(p) ==
  /\ pc[p] = "failed"
  /\ pc' = [pc EXCEPT ![p] = "panic"]
  /\ UNCHANGED <<bootVars, card, confused, sectors, lock, blk, buf, i, fifo, histVars>>

\* A caller with the buffer locked, filled with data of its own for a write.
\* The check of initialized comes before the lock.
RwStart(p, b, op) ==
  /\ Alive(p)
  /\ pc[p] = "idle"
  /\ \A q \in Procs : pc[q] # "idle" => blk[q] # b
  /\ pc' = [pc EXCEPT ![p] = IF initialized THEN op ELSE "failed"]
  /\ blk' = [blk EXCEPT ![p] = b]
  /\ IF op = "write"
     THEN \E v \in Words : buf' = [buf EXCEPT ![p] = [k \in 0..BSIZE-1 |-> v]]
     ELSE UNCHANGED buf
  /\ UNCHANGED <<bootVars, card, confused, sectors, lock, i, fifo, histVars>>

\* The lock, the block size and count, the mode, and CMD17 or CMD24 with the
\* buffer's block number as address.
MutLockFree == TRUE
LockFree == lock = None

ReadCommand(p) ==
  /\ Alive(p)
  /\ pc[p] = "read" /\ LockFree
  /\ \/ /\ SendOk("READ_SINGLE_BLOCK")
        /\ lock' = p /\ i' = 0
        /\ pc' = [pc EXCEPT ![p] = "read_words"]
     \/ SendFails("READ_SINGLE_BLOCK") /\ Fail(p) /\ UNCHANGED i
  /\ UNCHANGED <<bootVars, sectors, blk, buf, fifo, histVars>>

WriteCommand(p) ==
  /\ Alive(p)
  /\ pc[p] = "write" /\ LockFree
  /\ \/ /\ SendOk("WRITE_BLOCK")
        /\ lock' = p /\ i' = 0
        /\ pc' = [pc EXCEPT ![p] = "write_words"]
     \/ SendFails("WRITE_BLOCK") /\ Fail(p) /\ UNCHANGED i
  /\ UNCHANGED <<bootVars, sectors, blk, buf, fifo, histVars>>

\* One turn of a PIO loop: the controller has a word, or room for one, in time.
ReadWord(p) ==
  /\ pc[p] = "read_words" /\ i < SECTOR
  /\ \/ /\ buf' = [buf EXCEPT ![p][i] = sectors[blk[p]][i]]
        /\ i' = i + 1
        /\ UNCHANGED <<pc, lock>>
     \/ Fail(p) /\ UNCHANGED <<buf, i>>
  /\ UNCHANGED <<bootVars, card, confused, sectors, blk, fifo, histVars>>

WriteWord(p) ==
  /\ pc[p] = "write_words" /\ i < SECTOR
  /\ \/ /\ fifo' = [fifo EXCEPT ![i] = buf[p][i]]
        /\ i' = i + 1
        /\ UNCHANGED <<pc, lock>>
     \/ Fail(p) /\ UNCHANGED <<fifo, i>>
  /\ UNCHANGED <<bootVars, card, confused, sectors, blk, buf, histVars>>

\* The wait for DATA_END, the error check, the release.  A transfer that seems
\* to fail here may be complete on the card.
MutXferred == i >= SECTOR - 1
Xferred == i = SECTOR

ReadEnd(p) ==
  /\ pc[p] = "read_words" /\ Xferred
  /\ \/ card' = "tran" /\ Release /\ pc' = [pc EXCEPT ![p] = "read_done"]
     \/ card' \in {"tran", "data"} /\ Fail(p)
  /\ UNCHANGED <<bootVars, confused, sectors, blk, buf, i, fifo, histVars>>

WriteEnd(p) ==
  /\ pc[p] = "write_words" /\ Xferred
  /\ LET written == [sectors EXCEPT ![blk[p]] = fifo] IN
     \/ /\ card' = "tran" /\ Release
        /\ pc' = [pc EXCEPT ![p] = "idle"]
        /\ sectors' = written
        /\ last' = [last EXCEPT ![blk[p]] = [k \in 0..SECTOR-1 |-> buf[p][k]]]
        /\ logical' = [logical EXCEPT ![blk[p]] = buf[p]]
     \/ /\ card' \in {"tran", "data"} /\ Fail(p)
        /\ sectors' \in {sectors, written}
        /\ UNCHANGED histVars
  /\ UNCHANGED <<bootVars, confused, blk, buf, i, fifo>>

\* The caller of a read is done with the buffer, which keeps its contents and
\* may be used for another block.
Brelse(p) ==
  /\ pc[p] = "read_done"
  /\ pc' = [pc EXCEPT ![p] = "idle"]
  /\ UNCHANGED <<bootVars, card, confused, sectors, lock, blk, buf, i, fifo, histVars>>
-----------------------------------------------------------------------------
Boot == Controller \/ Command \/ IfCond \/ AppCmd \/ OpCond \/ FastClock

Rw(p) ==
  \/ ReadCommand(p) \/ ReadWord(p) \/ ReadEnd(p)
  \/ WriteCommand(p) \/ WriteWord(p) \/ WriteEnd(p)
  \/ Panic(p)

Next ==
  \/ Boot
  \/ \E p \in Procs :
       \/ Rw(p) \/ Brelse(p)
       \/ \E b \in Blocks, op \in {"read", "write"} : RwStart(p, b, op)

Spec == Init /\ [][Next]_vars

\* Every loop of the driver is bounded, so that it goes on; sdcard.lock goes in
\* the end to a CPU that keeps trying.
FairSpec == Spec /\ WF_vars(Boot) /\ \A p \in Procs : SF_vars(Rw(p))
-----------------------------------------------------------------------------
\* The type invariant.
TypeOK ==
  /\ phase \in {"reset", "detect", "clock", "SEND_IF_COND", "APP_CMD", "SD_SEND_OP_COND",
                "fast_clock", "on", "off"} \cup DOMAIN Following
  /\ retries \in 0..Retries
  /\ present \in BOOLEAN /\ initialized \in BOOLEAN /\ rca \in {0, 1}
  /\ card \in CardStates
  /\ confused \in BOOLEAN
  /\ sectors \in [Sectors -> SectorData]
  /\ lock \in Procs \cup {None}
  /\ pc \in [Procs -> {"idle", "read", "write", "read_words", "write_words", "read_done",
                     "failed", "panic"}]
  /\ blk \in [Procs -> Blocks]
  /\ buf \in [Procs -> BlockData]
  /\ i \in 0..SECTOR
  /\ fifo \in SectorData
  /\ last \in [Blocks -> SectorData]
  /\ logical \in [Blocks -> BlockData]

\* Until a transfer fails the card is only sent commands its state allows: the
\* initialisation sequence is in order however its steps end, data commands come
\* after it, and none is sent into the data phase of another process's transfer.
CommandsInOrder ==
  /\ ~confused
  /\ initialized /\ ~Failed =>
       present /\ rca = 1 /\ card = IF lock = None THEN "tran" ELSE "data"

\* The words of two transfers never mix, and a failure tears no block: a sector
\* is exactly what the last completed write sent, or, when the one after it
\* failed, perhaps only in the wait for its end, exactly what that one sent; and
\* a completed read has returned what the last completed write sent.
TransfersWhole ==
  /\ \A b \in Blocks :
       \/ sectors[b] = last[b]
       \/ \E p \in Procs :
            /\ pc[p] \in {"failed", "panic"} /\ blk[p] = b
            /\ \A k \in 0..SECTOR-1 : sectors[b][k] = buf[p][k]
  /\ \A p \in Procs : pc[p] = "read_done" =>
       \A k \in 0..SECTOR-1 : buf[p][k] = last[blk[p]][k]

\* A completed read returns the contents of the block.
ReadReturnsBlock ==
  \A p \in Procs : pc[p] = "read_done" => buf[p] = logical[blk[p]]

\* Initialisation ends, with or without a usable card.
BootEnds == <>(phase \in {"on", "off"})

\* A transfer ends: its caller goes on or the kernel panics.
RwEnds ==
  \A p \in Procs : pc[p] \in {"read", "write"} ~> pc[p] \in {"idle", "read_done"} \/ Panicked
=============================================================================

--------------------------------- MODULE Fs ---------------------------------
(***************************************************************************)
(* Inodes, directories and path names (fs.c, sysfile.c): what concurrent   *)
(* open, create, mkdir, link, unlink, chdir and close do to the inode      *)
(* table, the inodes on disk and the directory tree, and what a crash      *)
(* leaves of it.  A step of a process ends where it takes an inode's       *)
(* sleep-lock or itable.lock.  Every call is one operation of the log.     *)
(***************************************************************************)
EXTENDS Naturals, Sequences, FiniteSets, TLC

CONSTANTS
  Procs,
  None,
  Names,      \* file names
  NInodes,    \* sb.ninodes - 1
  Calls       \* the calls the processes make: an operation, its path name,
              \* and the second one of link()

Inums == 1..NInodes
ROOTINO == 1
DotDot == ".."

ASSUME FsAssumption ==
  /\ NInodes \in Nat \ {0}
  /\ None \notin Procs
  /\ {".", DotDot} \cap Names = {}
  /\ \A c \in Calls :
       /\ c.op \in {"open", "create", "mkdir", "unlink", "chdir", "link"}
       /\ c.path.elems \in Seq(Names \cup {".", DotDot})
       /\ c.op = "link" => c.dst.elems \in Seq(Names \cup {".", DotDot})

VARIABLES
  dnode,    \* the inodes on disk as the buffer cache has them: struct dinode
            \* with the entries of a directory
  inode,    \* itable: ref, valid and the copy of a dinode
  lock,     \* ip->lock: its holder
  cwd, file,  \* p->cwd, and the inode of the process's open file or 0
  th,       \* where the process is in its system call, and its locals
  booting,  \* 0, or where fsinit()'s ireclaim() is in its pass over the inodes
  panicked, \* panic() was called: nothing more happens
  gone      \* history: the names of an inode that went with a removed directory

vars == <<dnode, inode, lock, cwd, file, th, booting, panicked, gone>>

NoEntries == [n \in Names \cup {DotDot} |-> 0]
FreeNode == [type |-> "free", nlink |-> 0, ents |-> NoEntries]
Unused == [ref |-> 0, valid |-> FALSE, type |-> "free", nlink |-> 0]
Idle == [pc |-> "idle", op |-> "none", path |-> <<>>, dst |-> <<>>, ip |-> 0, dp |-> 0,
         inum |-> 0, old |-> 0, pt |-> 0, k |-> "end", lk |-> 0, kl |-> "end"]

\* mkfs: an empty root directory, its own parent; every process starts there.
Init ==
  /\ dnode = [i \in Inums |-> IF i = ROOTINO
       THEN [type |-> "dir", nlink |-> 1, ents |-> [NoEntries EXCEPT ![DotDot] = ROOTINO]]
       ELSE FreeNode]
  /\ inode = [i \in Inums |-> IF i = ROOTINO
       THEN [Unused EXCEPT !.ref = Cardinality(Procs)] ELSE Unused]
  /\ lock = [i \in Inums |-> None]
  /\ cwd = [p \in Procs |-> ROOTINO]
  /\ file = [p \in Procs |-> 0]
  /\ th = [p \in Procs |-> Idle]
  /\ booting = 0 /\ panicked = FALSE
  /\ gone = [i \in Inums |-> 0]
-----------------------------------------------------------------------------
(* The steps the system calls are made of. *)

\* Process p goes on with the fields of r changed.  Nothing happens between the
\* last step of a call and its end_op(), which are one step here.  The path names
\* are forgotten when only an iput() and one of the places in Late are left.
Late == {"end", "opened", "dropip", "unlinked", "linked"}
Go(p, r) ==
  LET t == r @@ th[p] IN
  th' = [th EXCEPT ![p] =
           CASE t.pc = "end" -> Idle
             [] t.pc = "put" /\ t.k \in Late -> [t EXCEPT !.op = "none", !.path = <<>>, !.dst = <<>>]
             [] OTHER -> t]

At(p, pc) == booting = 0 /\ ~panicked /\ th[p].pc = pc

\* The inode table tab after iget(i).
Iget(tab, i) ==
  [tab EXCEPT ![i] = IF @.ref > 0 THEN [@ EXCEPT !.ref = @ + 1]
                     ELSE [Unused EXCEPT !.ref = 1]]

\* ip->ref--.  The other fields of a free entry are dead, as iget() shows.
MutUnref(tab, i) == IF tab[i].ref = 1 THEN [tab EXCEPT ![i] = Unused] ELSE tab
Unref(tab, i) ==
  [tab EXCEPT ![i] = IF @.ref = 1 THEN Unused ELSE [@ EXCEPT !.ref = @ - 1]]

\* What follows ilock(i), iunlockput(i) and iput(i): the call, then pc k.
ThenLock(i, k) == [pc |-> "lock", lk |-> i, kl |-> k]
ThenPut(i, k) == [pc |-> "put", pt |-> i, k |-> k]
Unlock(i) == lock' = [lock EXCEPT ![i] = None]

\* ilock(): the sleep-lock, and the inode read from disk unless it is valid.
ILock(p) ==
  /\ At(p, "lock")
  /\ LET i == th[p].lk IN
     /\ lock[i] = None
     /\ lock' = [lock EXCEPT ![i] = p]
     /\ inode' = [inode EXCEPT ![i] = IF @.valid THEN @
          ELSE [@ EXCEPT !.valid = TRUE, !.type = dnode[i].type, !.nlink = dnode[i].nlink]]
     /\ panicked' = (~inode[i].valid /\ dnode[i].type = "free")
     /\ Go(p, [pc |-> th[p].kl, lk |-> 0, kl |-> "end"])
  /\ UNCHANGED <<dnode, cwd, file, booting, gone>>

\* iput(): the test under itable.lock ...
MutLastPut(i) == inode[i].valid /\ inode[i].nlink = 0
LastPut(i) == inode[i].ref = 1 /\ inode[i].valid /\ inode[i].nlink = 0

IPut(p) ==
  /\ At(p, "put")
  /\ LET i == th[p].pt IN
     IF LastPut(i)
     THEN /\ panicked' = (lock[i] # None)  \* would sleep with a spinlock held
          /\ lock' = [lock EXCEPT ![i] = p]
          /\ Go(p, [pc |-> "free"])
          /\ UNCHANGED inode
     ELSE /\ inode' = Unref(inode, i)
          /\ Go(p, [pc |-> th[p].k, pt |-> 0, k |-> "end"])
          /\ UNCHANGED <<lock, panicked>>
  /\ UNCHANGED <<dnode, cwd, file, booting, gone>>

\* ... the copy is no longer valid ...
MutInvalid(tab, i) == [tab EXCEPT ![i].type = "free"]
Invalid(tab, i) == [tab EXCEPT ![i].type = "free", ![i].valid = FALSE]

\* A directory takes the names in it along.
Freed(i) ==
  /\ dnode' = [dnode EXCEPT ![i] = FreeNode]
  /\ gone' = [j \in Inums |-> gone[j] + Cardinality({n \in Names : dnode[i].ents[n] = j})]

\* ... itrunc(), type 0, iupdate() and valid = 0 under the sleep-lock only; of
\* what they change others read just the dinode meanwhile ...
IPutFree(p) ==
  /\ At(p, "free")
  /\ Freed(th[p].pt)
  /\ inode' = Invalid(inode, th[p].pt)
  /\ Unlock(th[p].pt)
  /\ Go(p, [pc |-> "unref"])
  /\ UNCHANGED <<cwd, file, booting, panicked>>

\* ... and the reference is dropped.
IPutUnref(p) ==
  /\ At(p, "unref")
  /\ inode' = Unref(inode, th[p].pt)
  /\ Go(p, [pc |-> th[p].k, pt |-> 0, k |-> "end"])
  /\ UNCHANGED <<dnode, lock, cwd, file, booting, panicked, gone>>

\* dirlookup(): an inode number or 0.
Lookup(d, n) == IF n = "." THEN d ELSE dnode[d].ents[n]
-----------------------------------------------------------------------------
(* The start of a call, and namex(). *)

Parent(op) == op \in {"create", "mkdir", "unlink", "linkto"}

From(p, path) == IF path.abs THEN ROOTINO ELSE cwd[p]

\* What to do with what namex() returned, the inode or its parent.
Found(t) ==
  ThenLock(t.ip, CASE t.op = "open" -> "opened"
                   [] t.op = "chdir" -> "chdir"
                   [] t.op = "link" -> "linkup")

FoundParent(t) ==
  [ip |-> 0, dp |-> t.ip] @@
  ThenLock(t.ip, CASE t.op \in {"create", "mkdir"} -> "create"
                   [] t.op = "unlink" -> "unlink"
                   [] t.op = "linkto" -> "linkto")

\* The call failed, or namex() for link()'s second name: iput(i), and then
\* return or undo the link.
MutFail(t, i) ==
  IF t.op = "linkto" THEN ThenLock(t.old, "linkdown") ELSE ThenPut(i, "end")
Fail(t, i) ==
  IF t.op = "linkto" THEN ThenPut(i, "lock") @@ ThenLock(t.old, "linkdown")
  ELSE ThenPut(i, "end")

\* The head of namex()'s loop, with a reference to t.ip.
Loop(t) ==
  IF t.path # <<>> THEN ThenLock(t.ip, "scan")
  ELSE IF Parent(t.op) THEN [ip |-> 0] @@ Fail(t, t.ip)
  ELSE Found(t)

\* namex() for a path: the first reference.
Walk(p, t, path) ==
  LET u == [ip |-> From(p, path), path |-> path.elems] @@ t IN Loop(u) @@ u

\* argstr() and begin_op() done.
Call(p, c) ==
  /\ At(p, "idle")
  /\ inode' = Iget(inode, From(p, c.path))
  /\ Go(p, Walk(p, [op |-> c.op, dst |-> c.dst] @@ th[p], c.path))
  /\ UNCHANGED <<dnode, lock, cwd, file, booting, panicked, gone>>

\* The body of the loop, with ip locked.
NamexBody(p) ==
  /\ At(p, "scan")
  /\ LET t == th[p]
         next == Lookup(t.ip, Head(t.path))
         u == [ip |-> next, path |-> Tail(t.path)] @@ t
     IN
     /\ Unlock(t.ip)
     /\ IF inode[t.ip].type # "dir" \/ (~(Parent(t.op) /\ Len(t.path) = 1) /\ next = 0)
        THEN Go(p, [ip |-> 0] @@ Fail(t, t.ip)) /\ UNCHANGED inode
        ELSE IF Parent(t.op) /\ Len(t.path) = 1
        THEN Go(p, FoundParent(t)) /\ UNCHANGED inode
        ELSE Go(p, ThenPut(t.ip, "lock") @@ Loop(u) @@ u) /\ inode' = Iget(inode, next)
  /\ UNCHANGED <<dnode, cwd, file, booting, panicked, gone>>

\* iunlockput(dp) on an error, after iput() of something else.
DropParent(p) ==
  /\ At(p, "droppar")
  /\ Unlock(th[p].dp)
  /\ Go(p, [dp |-> 0] @@ Fail(th[p], th[p].dp))
  /\ UNCHANGED <<dnode, inode, cwd, file, booting, panicked, gone>>
-----------------------------------------------------------------------------
(* sys_open() and sys_mkdir(), with create(). *)

\* create() with dp locked.
Create(p) ==
  /\ At(p, "create")
  /\ LET t == th[p]
         found == Lookup(t.dp, Head(t.path))
     IN
     IF found # 0
     THEN /\ inode' = Iget(inode, found)
          /\ Unlock(t.dp)
          /\ Go(p, [dp |-> 0, ip |-> found] @@ ThenPut(t.dp, "lock") @@ ThenLock(found, "exists"))
     ELSE /\ Go(p, [pc |-> "ialloc", inum |-> 1])
          /\ UNCHANGED <<inode, lock>>
  /\ UNCHANGED <<dnode, cwd, file, booting, panicked, gone>>

\* One turn of ialloc()'s scan, which does not go back: an inode that is freed
\* behind it is not found.  create() without an inode drops dp.
IAlloc(p) ==
  /\ At(p, "ialloc")
  /\ LET t == th[p]
         type == IF t.op = "mkdir" THEN "dir" ELSE "file"
     IN
     \/ /\ t.inum > NInodes
        /\ Unlock(t.dp)
        /\ Go(p, [dp |-> 0, inum |-> 0] @@ ThenPut(t.dp, "end"))
        /\ UNCHANGED <<dnode, inode>>
     \/ /\ t.inum <= NInodes /\ dnode[t.inum].type # "free"
        /\ Go(p, [inum |-> t.inum + 1])
        /\ UNCHANGED <<dnode, inode, lock>>
     \/ /\ t.inum <= NInodes /\ dnode[t.inum].type = "free"
        /\ dnode' = [dnode EXCEPT ![t.inum] = [FreeNode EXCEPT !.type = type]]
        /\ inode' = Iget(inode, t.inum)
        /\ Go(p, [ip |-> t.inum, inum |-> 0] @@ ThenLock(t.inum, "created"))
        /\ UNCHANGED lock
  /\ UNCHANGED <<cwd, file, booting, panicked, gone>>

\* The name exists: only a file will do, and only for open().
CreateExists(p) ==
  /\ At(p, "exists")
  /\ LET t == th[p] IN
     IF t.op = "create" /\ inode[t.ip].type = "file"
     THEN Go(p, [pc |-> "opened"]) /\ UNCHANGED lock
     ELSE Unlock(t.ip) /\ Go(p, [ip |-> 0] @@ ThenPut(t.ip, "end"))
  /\ UNCHANGED <<dnode, inode, cwd, file, booting, panicked, gone>>

\* The link count of inode i in the table tab, or on set to n: iupdate().
Nlink(tab, i, n) == [tab EXCEPT ![i].nlink = n]

\* The new inode and dp locked: "." and "..", the entry, dp's link for "..".
\* A dirlink() may find the disk full.
DirLinks(d, t) ==
  [d EXCEPT ![t.dp].ents[Head(t.path)] = t.ip, ![t.ip].ents[DotDot] =
    IF t.op = "mkdir" THEN t.dp ELSE 0]

\* dp's link count with the new directory's "..".
DotDotMade(t) ==
  IF t.op = "mkdir" THEN inode[t.dp].nlink + 1 ELSE inode[t.dp].nlink

CreateLinked(p) ==
  /\ At(p, "created")
  /\ LET t == th[p]
         up == DotDotMade(t)
     IN
     \/ /\ inode' = Nlink(Nlink(inode, t.ip, 1), t.dp, up)
        /\ dnode' = DirLinks(Nlink(Nlink(dnode, t.ip, 1), t.dp, up), t)
        /\ Unlock(t.dp)
        /\ Go(p, [dp |-> 0] @@ ThenPut(t.dp, IF t.op = "mkdir" THEN "dropip" ELSE "opened"))
     \/ /\ inode' = Nlink(inode, t.ip, 0)
        /\ Unlock(t.ip)
        /\ Go(p, [ip |-> 0] @@ ThenPut(t.ip, "droppar"))
        /\ UNCHANGED dnode
  /\ UNCHANGED <<cwd, file, booting, panicked, gone>>

\* sys_mkdir(): iunlockput() of what create() returned.
DropIp(p) ==
  /\ At(p, "dropip")
  /\ Unlock(th[p].ip)
  /\ Go(p, [ip |-> 0] @@ ThenPut(th[p].ip, "end"))
  /\ UNCHANGED <<dnode, inode, cwd, file, booting, panicked, gone>>

\* sys_open() with ip locked: a directory opened for writing, no file structure
\* or no descriptor, or the file is open.
Open(p) ==
  /\ At(p, "opened")
  /\ Unlock(th[p].ip)
  /\ \/ /\ Go(p, [ip |-> 0] @@ ThenPut(th[p].ip, "end"))
        /\ UNCHANGED file
     \/ /\ file[p] = 0
        /\ file' = [file EXCEPT ![p] = th[p].ip]
        /\ Go(p, [ip |-> 0, pc |-> "end"])
  /\ UNCHANGED <<dnode, inode, cwd, booting, panicked, gone>>

\* sys_close() of the last reference to the file: fileclose().
Close(p) ==
  /\ At(p, "idle")
  /\ file[p] # 0
  /\ file' = [file EXCEPT ![p] = 0]
  /\ Go(p, [op |-> "close"] @@ ThenPut(file[p], "end"))
  /\ UNCHANGED <<dnode, inode, lock, cwd, booting, panicked, gone>>

\* sys_chdir() with ip locked.  p->cwd is set at once here; nobody else reads it
\* before the end of the call, where the code sets it.
Chdir(p) ==
  /\ At(p, "chdir")
  /\ LET t == th[p] IN
     /\ Unlock(t.ip)
     /\ IF inode[t.ip].type = "dir"
        THEN /\ cwd' = [cwd EXCEPT ![p] = t.ip]
             /\ Go(p, [ip |-> 0] @@ ThenPut(cwd[p], "end"))
        ELSE /\ Go(p, [ip |-> 0] @@ ThenPut(t.ip, "end"))
             /\ UNCHANGED cwd
  /\ UNCHANGED <<dnode, inode, file, booting, panicked, gone>>
-----------------------------------------------------------------------------
(* sys_unlink() *)

\* With dp locked.
Unlink(p) ==
  /\ At(p, "unlink")
  /\ LET t == th[p]
         found == Lookup(t.dp, Head(t.path))
     IN
     IF Head(t.path) \in {".", DotDot} \/ found = 0
     THEN Unlock(t.dp) /\ Go(p, [dp |-> 0] @@ ThenPut(t.dp, "end")) /\ UNCHANGED inode
     ELSE /\ inode' = Iget(inode, found)
          /\ Go(p, [ip |-> found] @@ ThenLock(found, "unlinkip"))
          /\ UNCHANGED lock
  /\ UNCHANGED <<dnode, cwd, file, booting, panicked, gone>>

\* isdirempty()
IsDirEmpty(i) == \A n \in Names : dnode[i].ents[n] = 0

\* dp's link count without ip's "..".
DotDotGone(t) ==
  IF inode[t.ip].type = "dir" THEN inode[t.dp].nlink - 1 ELSE inode[t.dp].nlink

\* With dp and ip locked.
UnlinkIp(p) ==
  /\ At(p, "unlinkip")
  /\ LET t == th[p]
         up == DotDotGone(t)
     IN
     /\ panicked' = (inode[t.ip].nlink < 1)
     /\ IF inode[t.ip].type = "dir" /\ ~IsDirEmpty(t.ip)
        THEN /\ Unlock(t.ip)
             /\ Go(p, [ip |-> 0] @@ ThenPut(t.ip, "droppar"))
             /\ UNCHANGED <<dnode, inode>>
        ELSE /\ inode' = Nlink(inode, t.dp, up)
             /\ dnode' = [Nlink(dnode, t.dp, up) EXCEPT ![t.dp].ents[Head(t.path)] = 0]
             /\ Unlock(t.dp)
             /\ Go(p, [dp |-> 0] @@ ThenPut(t.dp, "unlinked"))
  /\ UNCHANGED <<cwd, file, booting, gone>>

\* The parent is put, ip is still locked.
UnlinkDone(p) ==
  /\ At(p, "unlinked")
  /\ LET i == th[p].ip IN
     /\ inode' = Nlink(inode, i, inode[i].nlink - 1)
     /\ dnode' = Nlink(dnode, i, inode[i].nlink - 1)
     /\ Unlock(i)
     /\ Go(p, [ip |-> 0] @@ ThenPut(i, "end"))
  /\ UNCHANGED <<cwd, file, booting, panicked, gone>>
-----------------------------------------------------------------------------
(* sys_link() *)

\* The file locked: one more link, then namex() for the new name.
LinkUp(p) ==
  /\ At(p, "linkup")
  /\ LET t == th[p]
         n == inode[t.ip].nlink + 1
         from == From(p, t.dst)
     IN
     /\ Unlock(t.ip)
     /\ IF inode[t.ip].type = "dir"
        THEN /\ Go(p, [ip |-> 0] @@ ThenPut(t.ip, "end"))
             /\ UNCHANGED <<dnode, inode>>
        ELSE /\ inode' = Iget(Nlink(inode, t.ip, n), from)
             /\ dnode' = Nlink(dnode, t.ip, n)
             /\ Go(p, Walk(p, [op |-> "linkto", old |-> t.ip, dst |-> <<>>] @@ t, t.dst))
  /\ UNCHANGED <<cwd, file, booting, panicked, gone>>

\* dirlink() with dp locked: the name exists (iput() of what it names), the
\* disk is full, or the entry is made.
LinkTo(p) ==
  /\ At(p, "linkto")
  /\ LET t == th[p]
         found == Lookup(t.dp, Head(t.path))
     IN
     \/ /\ found # 0
        /\ inode' = Iget(inode, found)
        /\ Go(p, ThenPut(found, "droppar"))
        /\ UNCHANGED <<dnode, lock>>
     \/ /\ found = 0
        /\ Unlock(t.dp)
        /\ Go(p, [dp |-> 0] @@ Fail(t, t.dp))
        /\ UNCHANGED <<dnode, inode>>
     \/ /\ found = 0
        /\ dnode' = [dnode EXCEPT ![t.dp].ents[Head(t.path)] = t.old]
        /\ Unlock(t.dp)
        /\ Go(p, [dp |-> 0] @@ ThenPut(t.dp, "linked"))
        /\ UNCHANGED inode
  /\ UNCHANGED <<cwd, file, booting, panicked, gone>>

LinkDone(p) ==
  /\ At(p, "linked")
  /\ Go(p, [old |-> 0] @@ ThenPut(th[p].old, "end"))
  /\ UNCHANGED <<dnode, inode, lock, cwd, file, booting, panicked, gone>>

\* bad: the file is locked again and loses the link.
MutLinkDown(p) ==
  /\ At(p, "linkdown")
  /\ Unlock(th[p].old)
  /\ Go(p, [old |-> 0] @@ ThenPut(th[p].old, "end"))
  /\ UNCHANGED <<dnode, inode, cwd, file, booting, panicked, gone>>
LinkDown(p) ==
  /\ At(p, "linkdown")
  /\ LET i == th[p].old IN
     /\ inode' = Nlink(inode, i, inode[i].nlink - 1)
     /\ dnode' = Nlink(dnode, i, inode[i].nlink - 1)
     /\ Unlock(i)
     /\ Go(p, [old |-> 0] @@ ThenPut(i, "end"))
  /\ UNCHANGED <<cwd, file, booting, panicked, gone>>
-----------------------------------------------------------------------------
(* Power failure, and fsinit() at the next boot. *)

\* The log commits when no call is in progress (module Log), so that the state
\* a crash leaves on disk is one between calls; memory is lost.
Quiescent == booting = 0 /\ \A p \in Procs : th[p].pc = "idle"

Crash ==
  /\ (Quiescent \/ booting > 0) /\ ~panicked
  /\ booting' = 1
  /\ inode' = [i \in Inums |-> IF i = ROOTINO
       THEN [Unused EXCEPT !.ref = Cardinality(Procs)] ELSE Unused]
  /\ cwd' = [p \in Procs |-> ROOTINO]
  /\ file' = [p \in Procs |-> 0]
  /\ UNCHANGED <<dnode, lock, th, panicked, gone>>

\* One turn of ireclaim()'s pass: an orphan is freed, in an operation of its own.
Orphans == {i \in Inums : dnode[i].type # "free" /\ dnode[i].nlink = 0}

MutIReclaim ==
  /\ booting \in Inums
  /\ IF booting \in Orphans \ {NInodes} THEN Freed(booting) ELSE UNCHANGED <<dnode, gone>>
  /\ booting' = booting + 1
  /\ UNCHANGED <<inode, lock, cwd, file, th, panicked>>
IReclaim ==
  /\ booting \in Inums
  /\ IF booting \in Orphans THEN Freed(booting) ELSE UNCHANGED <<dnode, gone>>
  /\ booting' = booting + 1
  /\ UNCHANGED <<inode, lock, cwd, file, th, panicked>>

Booted ==
  /\ booting > NInodes
  /\ booting' = 0
  /\ UNCHANGED <<dnode, inode, lock, cwd, file, th, panicked, gone>>
-----------------------------------------------------------------------------
Step(p) ==
  \/ ILock(p) \/ IPut(p) \/ IPutFree(p) \/ IPutUnref(p)
  \/ NamexBody(p) \/ DropParent(p)
  \/ Create(p) \/ IAlloc(p) \/ CreateExists(p) \/ CreateLinked(p) \/ DropIp(p)
  \/ Open(p) \/ Chdir(p)
  \/ Unlink(p) \/ UnlinkIp(p) \/ UnlinkDone(p)
  \/ LinkUp(p) \/ LinkTo(p) \/ LinkDone(p) \/ LinkDown(p)

Start(p) == Close(p) \/ \E c \in Calls : Call(p, c)

Next ==
  \/ \E p \in Procs : Step(p) \/ Start(p)
  \/ Crash \/ IReclaim \/ Booted

Spec == Init /\ [][Next]_vars
-----------------------------------------------------------------------------
\* The type invariant.
TypeOK ==
  LET Nodes == [type : {"free", "dir", "file"}, nlink : 0..(2 * NInodes),
                ents : [Names \cup {DotDot} -> Inums \cup {0}]]
  IN
  /\ dnode \in [Inums -> Nodes]
  /\ \A i \in Inums :
       /\ inode[i].ref \in 0..(5 * Cardinality(Procs)) /\ inode[i].valid \in BOOLEAN
       /\ inode[i].type \in {"free", "dir", "file"} /\ inode[i].nlink \in 0..(2 * NInodes)
  /\ lock \in [Inums -> Procs \cup {None}]
  /\ cwd \in [Procs -> Inums] /\ file \in [Procs -> Inums \cup {0}]
  /\ \A p \in Procs : {th[p].ip, th[p].dp, th[p].old, th[p].pt} \subseteq Inums \cup {0}
  /\ \A p \in Procs : th[p].inum \in 0..(NInodes + 1)
  /\ booting \in 0..(NInodes + 1) /\ panicked \in BOOLEAN
  /\ gone \in [Inums -> Nat]

\* ref counts the pointers to a table entry, on every path of every call: no
\* reference is leaked by an error, none is dropped twice.
Pointers(i) ==
  Cardinality({p \in Procs : cwd[p] = i}) + Cardinality({p \in Procs : file[p] = i}) +
  Cardinality({<<p, f>> \in Procs \X {"ip", "dp", "old", "pt"} : th[p][f] = i})
RefExact == panicked \/ \A i \in Inums : inode[i].ref = Pointers(i)

\* The copy of an inode that is in use, valid and not locked is what the disk
\* has, also when the number has been freed and allocated again meanwhile.
CopyCurrent ==
  \A i \in Inums : inode[i].ref > 0 /\ inode[i].valid /\ lock[i] = None =>
    inode[i].type = dnode[i].type /\ inode[i].nlink = dnode[i].nlink

\* The directory entries that name inode i.
Named(i) == {dn \in Inums \X Names : dnode[dn[1]].ents[dn[2]] = i}

\* A name always leads to an allocated inode, and a directory has one name,
\* after a crash too; an inode that is open or a current directory is not freed.
NothingDangles ==
  /\ \A i \in Inums, n \in Names : dnode[i].ents[n] # 0 => dnode[dnode[i].ents[n]].type # "free"
  /\ \A i \in Inums : dnode[i].type = "dir" => Cardinality(Named(i)) <= 1
  /\ \A p \in Procs : dnode[cwd[p]].type # "free" /\ (file[p] # 0 => dnode[file[p]].type # "free")

\* Between calls nlink is exact: the names of the inode, and for a directory the
\* ".." of each directory in it that has a name, however link(), create() and
\* unlink() ended and overlapped.  The one surplus is the names that create() or
\* link() made in a directory removed under them: they go with it when it is
\* freed, without being counted off, and their inodes stay allocated for ever.
\* ireclaim()'s pass leaves no allocated inode without links.
NlinkExact ==
  LET Dirs(i) == {d \in Inums : Named(d) # {} /\ dnode[d].ents[DotDot] = i}
      Links(i) == Cardinality(Named(i)) + Cardinality(Dirs(i)) + (IF i = ROOTINO THEN 1 ELSE 0)
  IN
  /\ Quiescent /\ ~panicked =>
       \A i \in Inums : dnode[i].type # "free" => dnode[i].nlink = Links(i) + gone[i]
  /\ booting > NInodes => Orphans = {}

\* iput() finds the sleep-lock of the last reference free (the comment at its
\* acquiresleep()), and unlink() finds a link to remove.
IputNeverSleeps ==
  \A p \in Procs :
    /\ th[p].pc = "put" /\ LastPut(th[p].pt) => lock[th[p].pt] = None
    /\ th[p].pc = "unlinkip" => inode[th[p].ip].nlink >= 1

\* An inode without links is freed by the last iput(), or after a crash by
\* ireclaim(): between calls only one that is in use is still allocated.
NoOrphans == Quiescent /\ ~panicked => \A i \in Orphans : inode[i].ref > 0

\* ilock() never finds that the inode it reads has been freed, so that it does
\* not panic: nothing that can still be looked up leads to a free inode.
NoFreeInode ==
  \A p \in Procs : th[p].pc = "lock" /\ lock[th[p].lk] = None /\ ~inode[th[p].lk].valid =>
    dnode[th[p].lk].type # "free"
=============================================================================

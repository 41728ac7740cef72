----------------------------- MODULE LogProofs -----------------------------
(***************************************************************************)
(* For any number of processes and blocks and any log size: the space      *)
(* begin_op() reserves is enough, and a commit runs alone.                 *)
(***************************************************************************)
EXTENDS Log, FiniteSetTheorems, TLAPS

\* The operations in progress, and one token for every block that begin_op()
\* reserved for them and that they have not logged yet.
Active == {p \in Procs : pc[p] \in InOp}
Tokens == {t \in Procs \X (1..MAXOPBLOCKS) :
             pc[t[1]] \in InOp /\ t[2] > Cardinality(wrote[t[1]])}

CtlInv ==
  /\ mode # "up" => \A p \in Procs : pc[p] = "idle"
  /\ \A p \in Procs : pc[p] \in InOp \ {"op"} => buf[p] \in Blocks
  /\ \A p \in Procs : pc[p] \in InOp => \A b \in wrote[p] : Logged(b)
  /\ CommitAlone

SpaceInv ==
  /\ outstanding = Cardinality(Active)
  /\ \A p \in Procs : IsFiniteSet(wrote[p]) /\ Cardinality(wrote[p]) <= OpBlocks
  /\ \A p \in Procs : pc[p] = "dirty" => Cardinality(wrote[p] \cup {buf[p]}) <= OpBlocks
  /\ Len(lh) + Cardinality(Tokens) <= LOGBLOCKS
  /\ Len(hdr) <= LOGBLOCKS

IInv == TypeOK /\ CtlInv /\ SpaceInv
-----------------------------------------------------------------------------
\* A finite set of processes holds finitely many reservations, at most
\* MAXOPBLOCKS for each operation in progress.
LEMMA TokensBound ==
  ASSUME TypeOK
  PROVE  /\ IsFiniteSet(Active) /\ Cardinality(Active) \in Nat
         /\ IsFiniteSet(Tokens) /\ Cardinality(Tokens) \in Nat
         /\ Cardinality(Tokens) <= Cardinality(Active) * MAXOPBLOCKS
<1>1. IsFiniteSet(Active) /\ Cardinality(Active) \in Nat
  BY ConstantsAssumption, FS_Subset, FS_CardinalityType DEF Active
<1>2. IsFiniteSet(1..MAXOPBLOCKS) /\ Cardinality(1..MAXOPBLOCKS) = MAXOPBLOCKS
  BY ConstantsAssumption, FS_Interval
<1>3. /\ IsFiniteSet(Active \X (1..MAXOPBLOCKS))
      /\ Cardinality(Active \X (1..MAXOPBLOCKS)) = Cardinality(Active) * MAXOPBLOCKS
  BY <1>1, <1>2, FS_Product
<1>4. Tokens \in SUBSET (Active \X (1..MAXOPBLOCKS))
  BY DEF Tokens, Active
<1> QED
  BY <1>1, <1>3, <1>4, FS_Subset, FS_CardinalityType

\* The states of a process that hold a reservation are not those of a commit.
LEMMA Phases ==
  /\ InOp = {"op", "bget", "got", "dirty", "logged", "brelse"}
  /\ InCommit = {"write_log", "write_head", "install", "clear", "finish"}
  BY DEF InOp, InCommit

\* An operation in progress is counted in log.outstanding.
LEMMA ActiveCounted ==
  ASSUME IInv, NEW p \in Procs, pc[p] \in InOp
  PROVE  /\ outstanding >= 1
         /\ outstanding = 1 => \A q \in Procs : pc[q] \in InOp => q = p
<1>1. p \in Active
  BY DEF Active
<1>2. IsFiniteSet(Active) /\ Cardinality(Active) \in Nat /\ outstanding = Cardinality(Active)
  BY TokensBound DEF IInv, SpaceInv
<1>3. Cardinality(Active) # 0
  BY <1>1, <1>2, FS_EmptySet
<1>4. ASSUME outstanding = 1, NEW q \in Procs, pc[q] \in InOp
      PROVE  q = p
  <2>1. PICK x : Active = {x}
    BY <1>2, <1>4, FS_Singleton
  <2> QED
    BY <1>1, <1>4, <2>1 DEF Active
<1> QED
  BY <1>2, <1>3, <1>4

\* An update of a function keeps its type, inside its domain or outside.
LEMMA ExceptType ==
  ASSUME NEW S, NEW T, NEW f \in [S -> T], NEW x, NEW v, x \in S => v \in T
  PROVE  [f EXCEPT ![x] = v] \in [S -> T]
  OBVIOUS

\* Every step keeps the variables in their types.
LEMMA TypeStep ==
  ASSUME IInv, [Next]_vars
  PROVE  TypeOK'
<1> USE ConstantsAssumption DEF diskVars, InOp, InCommit
<1>0. LogTypeOK /\ ProcTypeOK /\ BlockTypeOK
  BY DEF IInv, TypeOK
<1>1. ASSUME NEW p \in Procs, BeginOp(p) PROVE TypeOK'
  <2>1. LogTypeOK'
    BY <1>0, <1>1 DEF LogTypeOK, BeginOp, Admit
  <2>2. ProcTypeOK'
    BY <1>0, <1>1 DEF ProcTypeOK, BeginOp, Admit
  <2>3. BlockTypeOK'
    BY <1>0, <1>1 DEF BlockTypeOK, BeginOp, Admit
  <2> QED
    BY <2>1, <2>2, <2>3 DEF TypeOK
<1>2. ASSUME NEW p \in Procs, EndOp(p) PROVE TypeOK'
  <2>0. outstanding >= 1
    BY <1>0, <1>2, ActiveCounted DEF EndOp
  <2>1. LogTypeOK'
    <3>1. CASE outstanding' = 0
      <4>1. committing' \in BOOLEAN
        BY <1>2, <3>1, Zenon DEF EndOp
      <4>2. tail' = 0
        BY <1>2, <3>1, Zenon DEF EndOp
      <4>3. UNCHANGED <<mode, lh, hdr, crashes>>
        BY <1>2 DEF EndOp
      <4> QED
        BY <1>0, <3>1, <4>1, <4>2, <4>3 DEF LogTypeOK
    <3>2. CASE outstanding' # 0
      BY <1>0, <1>2, <2>0, <3>2 DEF LogTypeOK, EndOp
    <3> QED
      BY <3>1, <3>2
  <2>2. ProcTypeOK'
    BY <1>0, <1>2, <2>0 DEF ProcTypeOK, EndOp, Wakeup
  <2>3. BlockTypeOK'
    BY <1>0, <1>2, <2>0 DEF BlockTypeOK, EndOp, Wakeup
  <2> QED
    BY <2>1, <2>2, <2>3 DEF TypeOK
<1>3. ASSUME NEW p \in Procs, LogWrite(p) PROVE TypeOK'
  <2>0. buf[p] \in Blocks
    BY <1>3 DEF IInv, CtlInv, LogWrite
  <2>1. LogTypeOK'
    <3>1. lh' \in Seq(Blocks)
      BY <1>0, <1>3, <2>0 DEF LogTypeOK, LogWrite
    <3> QED
      BY <1>0, <1>3, <3>1 DEF LogTypeOK, LogWrite
  <2>2. ProcTypeOK'
    BY <1>0, <1>3, <2>0 DEF ProcTypeOK, LogWrite, Pin
  <2>3. BlockTypeOK'
    BY <1>0, <1>3, <2>0 DEF BlockTypeOK, LogWrite, Pin
  <2> QED
    BY <2>1, <2>2, <2>3 DEF TypeOK
<1>4. ASSUME NEW p \in Procs, OpBrelse(p) PROVE TypeOK'
  <2>1. LogTypeOK'
    BY <1>0, <1>4 DEF LogTypeOK, OpBrelse, Brelse
  <2>2. ProcTypeOK'
    BY <1>0, <1>4 DEF ProcTypeOK, OpBrelse, Brelse
  <2>3. BlockTypeOK'
    <3>1. refcnt' \in [Blocks -> Int]
      BY <1>0, <1>4, ExceptType DEF BlockTypeOK, OpBrelse, Brelse
    <3> QED
      BY <1>0, <1>4, <3>1 DEF BlockTypeOK, OpBrelse
  <2> QED
    BY <2>1, <2>2, <2>3 DEF TypeOK
<1>5. ASSUME NEW p \in Procs, NEW b \in Blocks, OpBget(p, b) PROVE TypeOK'
  <2>1. LogTypeOK'
    BY <1>0, <1>5 DEF LogTypeOK, OpBget, Bget
  <2>2. ProcTypeOK'
    BY <1>0, <1>5 DEF ProcTypeOK, OpBget, Bget
  <2>3. BlockTypeOK'
    BY <1>0, <1>5 DEF BlockTypeOK, OpBget, Bget
  <2> QED
    BY <2>1, <2>2, <2>3 DEF TypeOK
<1>6. ASSUME NEW p \in Procs, NEW v \in Data, Modify(p, v) PROVE TypeOK'
  <2>1. LogTypeOK'
    BY <1>0, <1>6 DEF LogTypeOK, Modify
  <2>2. ProcTypeOK'
    BY <1>0, <1>6 DEF ProcTypeOK, Modify
  <2>3. BlockTypeOK'
    BY <1>0, <1>6 DEF BlockTypeOK, Modify
  <2> QED
    BY <2>1, <2>2, <2>3 DEF TypeOK
<1>7. ASSUME NEW p \in Procs, WriteLog(p) PROVE TypeOK'
  <2>1. LogTypeOK'
    BY <1>0, <1>7 DEF LogTypeOK, WriteLog, Contents
  <2>2. ProcTypeOK'
    BY <1>0, <1>7 DEF ProcTypeOK, WriteLog, Contents
  <2>3. BlockTypeOK'
    <3> DEFINE b == lh[tail + 1]
    <3>1. b \in Blocks => Contents(b) \in Data \cup {None, Torn}
      BY <1>0 DEF BlockTypeOK, Contents
    <3>2. cache' \in [Blocks -> Data \cup {None, Torn}]
      BY <1>0, <1>7, <3>1, ExceptType DEF BlockTypeOK, WriteLog
    <3>3. logdisk' \in [1..LOGBLOCKS -> Data \cup {Torn}]
      BY <1>0, <1>7, <3>1, ExceptType DEF BlockTypeOK, WriteLog
    <3> QED
      BY <1>0, <1>7, <3>2, <3>3 DEF BlockTypeOK, WriteLog
  <2> QED
    BY <2>1, <2>2, <2>3 DEF TypeOK
<1>8. ASSUME NEW p \in Procs, WriteHead(p) PROVE TypeOK'
  <2>1. LogTypeOK'
    BY <1>0, <1>8 DEF LogTypeOK, WriteHead
  <2>2. ProcTypeOK'
    BY <1>0, <1>8 DEF ProcTypeOK, WriteHead
  <2>3. BlockTypeOK'
    BY <1>0, <1>8 DEF BlockTypeOK, WriteHead
  <2> QED
    BY <2>1, <2>2, <2>3 DEF TypeOK
<1>9. ASSUME NEW p \in Procs, InstallTrans(p) PROVE TypeOK'
  <2>1. LogTypeOK'
    BY <1>0, <1>9 DEF LogTypeOK, InstallTrans, InstallOne, Unpin
  <2>2. ProcTypeOK'
    BY <1>0, <1>9 DEF ProcTypeOK, InstallTrans, InstallOne, Unpin
  <2>3. BlockTypeOK'
    <3>1. cache' \in [Blocks -> Data \cup {None, Torn}] /\ disk' \in [Blocks -> Data \cup {Torn}]
      BY <1>0, <1>9, ExceptType DEF BlockTypeOK, InstallTrans, InstallOne
    <3>2. refcnt' \in [Blocks -> Int]
      BY <1>0, <1>9, ExceptType DEF BlockTypeOK, InstallTrans, Unpin
    <3> QED
      BY <1>0, <1>9, <3>1, <3>2 DEF BlockTypeOK, InstallTrans
  <2> QED
    BY <2>1, <2>2, <2>3 DEF TypeOK
<1>10. ASSUME NEW p \in Procs, ClearLog(p) PROVE TypeOK'
  <2>1. LogTypeOK'
    BY <1>0, <1>10 DEF LogTypeOK, ClearLog
  <2>2. ProcTypeOK'
    BY <1>0, <1>10 DEF ProcTypeOK, ClearLog
  <2>3. BlockTypeOK'
    BY <1>0, <1>10 DEF BlockTypeOK, ClearLog
  <2> QED
    BY <2>1, <2>2, <2>3 DEF TypeOK
<1>11. ASSUME NEW p \in Procs, FinishEndOp(p) PROVE TypeOK'
  <2>1. LogTypeOK'
    BY <1>0, <1>11 DEF LogTypeOK, FinishEndOp, Wakeup
  <2>2. ProcTypeOK'
    BY <1>0, <1>11 DEF ProcTypeOK, FinishEndOp, Wakeup
  <2>3. BlockTypeOK'
    BY <1>0, <1>11 DEF BlockTypeOK, FinishEndOp, Wakeup
  <2> QED
    BY <2>1, <2>2, <2>3 DEF TypeOK
<1>12. ASSUME NEW b \in Blocks, Evict(b) PROVE TypeOK'
  <2>1. LogTypeOK'
    BY <1>0, <1>12 DEF LogTypeOK, Evict
  <2>2. ProcTypeOK'
    BY <1>0, <1>12 DEF ProcTypeOK, Evict
  <2>3. BlockTypeOK'
    BY <1>0, <1>12 DEF BlockTypeOK, Evict
  <2> QED
    BY <2>1, <2>2, <2>3 DEF TypeOK
<1>13. ASSUME Crash PROVE TypeOK'
  <2>1. LogTypeOK'
    <3>1. crashes' \in 0..MaxCrashes
      BY <1>0, <1>13 DEF LogTypeOK, Crash
    <3> QED
      <4>1. committing' \in BOOLEAN
        BY <1>13, Zenon DEF Crash, Booted
      <4>2. outstanding' = 0 /\ tail' = 0 /\ lh' = <<>> /\ hdr' = hdr /\ mode' = "read_head"
        BY <1>13 DEF Crash, Booted
      <4> QED
        BY <1>0, <3>1, <4>1, <4>2 DEF LogTypeOK
  <2>2. ProcTypeOK'
    BY <1>0, <1>13 DEF ProcTypeOK, Crash, Booted, TornLog, TornHome
  <2>3. BlockTypeOK'
    <3>1. TornLog \in [1..LOGBLOCKS -> Data \cup {Torn}] /\ TornHome \in [Blocks -> Data \cup {Torn}]
      BY <1>0, ExceptType DEF BlockTypeOK, TornLog, TornHome
    <3>2. disk' \in [Blocks -> Data \cup {Torn}] /\ logdisk' \in [1..LOGBLOCKS -> Data \cup {Torn}]
      BY <1>0, <1>13, <3>1 DEF BlockTypeOK, Crash
    <3> QED
      BY <1>13, <3>2 DEF BlockTypeOK, Crash, Booted
  <2> QED
    BY <2>1, <2>2, <2>3 DEF TypeOK
<1>14. ASSUME ReadHead PROVE TypeOK'
  <2>1. LogTypeOK'
    BY <1>0, <1>14 DEF LogTypeOK, ReadHead
  <2>2. ProcTypeOK'
    BY <1>0, <1>14 DEF ProcTypeOK, ReadHead
  <2>3. BlockTypeOK'
    BY <1>0, <1>14 DEF BlockTypeOK, ReadHead
  <2> QED
    BY <2>1, <2>2, <2>3 DEF TypeOK
<1>15. ASSUME RecoverInstall PROVE TypeOK'
  <2>1. LogTypeOK'
    BY <1>0, <1>15 DEF LogTypeOK, RecoverInstall, InstallOne
  <2>2. ProcTypeOK'
    BY <1>0, <1>15 DEF ProcTypeOK, RecoverInstall, InstallOne
  <2>3. BlockTypeOK'
    <3>1. cache' \in [Blocks -> Data \cup {None, Torn}] /\ disk' \in [Blocks -> Data \cup {Torn}]
      BY <1>0, <1>15, ExceptType DEF BlockTypeOK, RecoverInstall, InstallOne
    <3>2. refcnt' \in [Blocks -> Int]
      BY <1>0, <1>15, ExceptType DEF BlockTypeOK, RecoverInstall
    <3> QED
      BY <1>0, <1>15, <3>1, <3>2 DEF BlockTypeOK, RecoverInstall
  <2> QED
    BY <2>1, <2>2, <2>3 DEF TypeOK
<1>16. ASSUME RecoverClear PROVE TypeOK'
  <2>1. LogTypeOK'
    BY <1>0, <1>16 DEF LogTypeOK, RecoverClear
  <2>2. ProcTypeOK'
    BY <1>0, <1>16 DEF ProcTypeOK, RecoverClear
  <2>3. BlockTypeOK'
    BY <1>0, <1>16 DEF BlockTypeOK, RecoverClear
  <2> QED
    BY <2>1, <2>2, <2>3 DEF TypeOK
<1>17. ASSUME UNCHANGED vars PROVE TypeOK'
  <2>1. LogTypeOK'
    BY <1>0, <1>17 DEF LogTypeOK, vars, memVars
  <2>2. ProcTypeOK'
    BY <1>0, <1>17 DEF ProcTypeOK, vars, memVars
  <2>3. BlockTypeOK'
    BY <1>0, <1>17 DEF BlockTypeOK, vars, memVars
  <2> QED
    BY <2>1, <2>2, <2>3 DEF TypeOK
<1>18. ASSUME NEW p \in Procs, OpBread(p) PROVE TypeOK'
  <2>1. LogTypeOK'
    BY <1>0, <1>18 DEF LogTypeOK, OpBread, Bread
  <2>2. ProcTypeOK'
    BY <1>0, <1>18 DEF ProcTypeOK, OpBread, Bread
  <2>3. BlockTypeOK'
    <3>1. buf[p] \in Blocks => Contents(buf[p]) \in Data \cup {None, Torn}
      BY <1>0 DEF BlockTypeOK, Contents
    <3>2. cache' \in [Blocks -> Data \cup {None, Torn}]
      BY <1>0, <1>18, <3>1, ExceptType DEF BlockTypeOK, OpBread, Bread
    <3> QED
      BY <1>0, <1>18, <3>2 DEF BlockTypeOK, OpBread
  <2> QED
    BY <2>1, <2>2, <2>3 DEF TypeOK
<1>19. ASSUME NEW p \in Procs, OpUnlock(p) PROVE TypeOK'
  <2>1. LogTypeOK'
    BY <1>0, <1>19 DEF LogTypeOK, OpUnlock
  <2>2. ProcTypeOK'
    BY <1>0, <1>19 DEF ProcTypeOK, OpUnlock
  <2>3. BlockTypeOK'
    BY <1>0, <1>19 DEF BlockTypeOK, OpUnlock
  <2> QED
    BY <2>1, <2>2, <2>3 DEF TypeOK
<1> QED
  BY <1>1, <1>2, <1>3, <1>4, <1>5, <1>6, <1>7, <1>8, <1>9, <1>10, <1>11, <1>12, <1>13, <1>14,
     <1>15, <1>16, <1>17, <1>18, <1>19
  DEF Next, Commit, Recover

\* A step that neither admits nor ends an operation, and logs nothing, leaves
\* the reservations alone.
LEMMA SpaceFrame ==
  ASSUME SpaceInv, TypeOK, UNCHANGED <<wrote, outstanding>>,
         \A p \in Procs : pc'[p] \in InOp <=> pc[p] \in InOp
  PROVE  /\ Tokens' = Tokens
         /\ outstanding' = Cardinality(Active')
         /\ \A p \in Procs : IsFiniteSet(wrote'[p]) /\ Cardinality(wrote'[p]) <= OpBlocks
<1>1. Active' = Active
  BY DEF Active
<1>2. Tokens' = Tokens
  BY DEF Tokens
<1> QED
  BY <1>1, <1>2 DEF SpaceInv

\* Reserving n blocks for one more process adds at most n tokens.
LEMMA AddRow ==
  ASSUME NEW T, IsFiniteSet(T), NEW p, NEW n \in Nat
  PROVE  /\ IsFiniteSet(T \cup ({p} \X (1..n)))
         /\ Cardinality(T \cup ({p} \X (1..n))) <= Cardinality(T) + n
<1> DEFINE P == {p}
           I == 1..n
           R == P \X I
<1>1. IsFiniteSet(P) /\ Cardinality(P) = 1
  BY FS_Singleton
<1>2. IsFiniteSet(I) /\ Cardinality(I) = n
  BY FS_Interval
<1> HIDE DEF P, I
<1>3. IsFiniteSet(R) /\ Cardinality(R) = Cardinality(P) * Cardinality(I)
  BY <1>1, <1>2, FS_Product
<1>4. Cardinality(R) = n
  BY <1>1, <1>2, <1>3
<1> HIDE DEF R
<1>5. Cardinality(T \cup R) = Cardinality(T) + Cardinality(R) - Cardinality(T \cap R) /\ IsFiniteSet(T \cup R)
  BY <1>3, FS_Union
<1>6. IsFiniteSet(T \cap R)
  BY FS_Subset
<1>7. Cardinality(T \cap R) \in Nat /\ Cardinality(T) \in Nat
  BY <1>6, FS_CardinalityType
<1>8. Cardinality(T \cup R) <= Cardinality(T) + n
  BY <1>4, <1>5, <1>7
<1> QED
  BY <1>5, <1>8 DEF P, I, R

\* begin_op() admits an operation only when what is logged, what is reserved
\* and one more reservation fit.
LEMMA SpaceBegin ==
  ASSUME IInv, NEW p \in Procs, BeginOp(p)
  PROVE  SpaceInv'
<1> USE ConstantsAssumption
<1>0. TypeOK /\ LogTypeOK /\ ProcTypeOK /\ SpaceInv
  BY DEF IInv, TypeOK
<1>1. pc[p] \notin InOp
  BY DEF BeginOp, InOp
<1>2. CASE MustWait
  <2>1. pc' = [pc EXCEPT ![p] = "asleep"] /\ UNCHANGED <<outstanding, wrote, lh, hdr, buf>>
    BY <1>2 DEF BeginOp, diskVars
  <2>2. \A q \in Procs : pc'[q] \in InOp <=> pc[q] \in InOp
    BY <1>0, <1>1, <2>1 DEF ProcTypeOK, InOp
  <2> QED
    BY <1>0, <2>1, <2>2, SpaceFrame DEF SpaceInv, ProcTypeOK
<1>3. CASE ~MustWait
  <2>1. /\ pc' = [pc EXCEPT ![p] = "op"] /\ outstanding' = outstanding + 1
        /\ wrote' = [wrote EXCEPT ![p] = {}] /\ UNCHANGED <<lh, hdr, buf>>
    BY <1>3 DEF BeginOp, Admit, diskVars
  <2>2. Active' = Active \cup {p} /\ p \notin Active
    BY <1>0, <1>1, <2>1 DEF Active, ProcTypeOK, InOp
  <2>3. outstanding' = Cardinality(Active')
    BY <1>0, <2>1, <2>2, TokensBound, FS_AddElement DEF SpaceInv
  <2>4. \A q \in Procs : IsFiniteSet(wrote'[q]) /\ Cardinality(wrote'[q]) <= OpBlocks
    BY <1>0, <2>1, FS_EmptySet DEF SpaceInv, ProcTypeOK
  <2>6. Tokens' \in SUBSET (Tokens \cup ({p} \X (1..MAXOPBLOCKS)))
    BY <1>0, <2>1 DEF Tokens, ProcTypeOK
  <2>7. Cardinality(Tokens') <= Cardinality(Tokens) + MAXOPBLOCKS /\ Cardinality(Tokens') \in Nat
    <3> DEFINE more == {p} \X (1..MAXOPBLOCKS)
    <3>1. IsFiniteSet(Tokens) /\ Cardinality(Tokens) \in Nat
      BY <1>0, TokensBound
    <3>2. IsFiniteSet(Tokens \cup more) /\ Cardinality(Tokens \cup more) <= Cardinality(Tokens) + MAXOPBLOCKS
      BY <3>1, AddRow
    <3>3. IsFiniteSet(Tokens') /\ Cardinality(Tokens') <= Cardinality(Tokens \cup more)
      BY <2>6, <3>2, FS_Subset
    <3>4. Cardinality(Tokens') \in Nat /\ Cardinality(Tokens \cup more) \in Nat
      BY <3>2, <3>3, FS_CardinalityType
    <3> QED
      BY <3>1, <3>2, <3>3, <3>4
  <2>8. Cardinality(Tokens) <= outstanding * MAXOPBLOCKS /\ Cardinality(Tokens) \in Nat
    BY <1>0, TokensBound DEF SpaceInv
  <2>9. Len(lh) + (outstanding + 1) * MAXOPBLOCKS <= LOGBLOCKS
    BY <1>0, <1>3 DEF MustWait, NoSpace, LogTypeOK
  <2>10. (outstanding + 1) * MAXOPBLOCKS = outstanding * MAXOPBLOCKS + MAXOPBLOCKS
    BY <1>0 DEF LogTypeOK
  <2>11. Len(lh') + Cardinality(Tokens') <= LOGBLOCKS
    <3> DEFINE r == outstanding * MAXOPBLOCKS
    <3>1. r \in Nat /\ Len(lh) \in Nat
      BY <1>0 DEF LogTypeOK
    <3> HIDE DEF r
    <3> QED
      BY <2>1, <2>7, <2>8, <2>9, <2>10, <3>1 DEF r
  <2> QED
    BY <1>0, <2>1, <2>3, <2>4, <2>11 DEF SpaceInv, ProcTypeOK
<1> QED
  BY <1>2, <1>3

\* end_op() gives its reservation back.
LEMMA SpaceEnd ==
  ASSUME IInv, NEW p \in Procs, EndOp(p)
  PROVE  SpaceInv'
<1> USE ConstantsAssumption
<1>0. TypeOK /\ LogTypeOK /\ ProcTypeOK /\ SpaceInv
  BY DEF IInv, TypeOK
<1>1. /\ pc[p] = "op" /\ outstanding' = outstanding - 1
      /\ wrote' = [wrote EXCEPT ![p] = {}] /\ UNCHANGED <<lh, hdr, buf>>
  BY DEF EndOp, diskVars
<1>2. /\ pc'[p] \notin InOp
      /\ \A q \in Procs \ {p} : pc'[q] \in InOp <=> pc[q] \in InOp
      /\ \A q \in Procs \ {p} : pc'[q] = "dirty" => pc[q] = "dirty"
  BY <1>0, Zenon DEF EndOp, ProcTypeOK, InOp, Wakeup
<1>3. Active' = Active \ {p} /\ p \in Active
  BY <1>1, <1>2 DEF Active, InOp
<1>4. outstanding' = Cardinality(Active')
  BY <1>0, <1>1, <1>3, TokensBound, FS_RemoveElement DEF SpaceInv
<1>5. \A q \in Procs : IsFiniteSet(wrote'[q]) /\ Cardinality(wrote'[q]) <= OpBlocks
  BY <1>0, <1>1, FS_EmptySet DEF SpaceInv, ProcTypeOK
<1>6. Tokens' \in SUBSET Tokens
  BY <1>0, <1>1, <1>2 DEF Tokens, ProcTypeOK
<1>7. Cardinality(Tokens') <= Cardinality(Tokens) /\ Cardinality(Tokens') \in Nat /\ Cardinality(Tokens) \in Nat
  BY <1>0, <1>6, TokensBound, FS_Subset, FS_CardinalityType
<1>8. Len(lh') + Cardinality(Tokens') <= LOGBLOCKS
  BY <1>0, <1>1, <1>7 DEF SpaceInv, LogTypeOK
<1>9. \A q \in Procs : pc'[q] = "dirty" => Cardinality(wrote'[q] \cup {buf'[q]}) <= OpBlocks
  BY <1>0, <1>1, <1>2 DEF SpaceInv, ProcTypeOK, InOp
<1> QED
  BY <1>0, <1>1, <1>4, <1>5, <1>8, <1>9 DEF SpaceInv

\* A block that log_write() appends uses up a token of its operation; an
\* absorbed one may.
LEMMA SpaceLogWrite ==
  ASSUME IInv, NEW p \in Procs, LogWrite(p)
  PROVE  SpaceInv'
<1> USE ConstantsAssumption
<1>0. TypeOK /\ LogTypeOK /\ ProcTypeOK /\ SpaceInv /\ CtlInv
  BY DEF IInv, TypeOK
<1>1. /\ pc[p] = "dirty" /\ pc' = [pc EXCEPT ![p] = "logged"]
      /\ wrote' = [wrote EXCEPT ![p] = @ \cup {buf[p]}] /\ UNCHANGED <<outstanding, hdr, buf>>
  BY DEF LogWrite, diskVars
<1>2. /\ \A q \in Procs : pc'[q] \in InOp <=> pc[q] \in InOp
      /\ \A q \in Procs : pc'[q] = "dirty" => pc[q] = "dirty" /\ q # p
  BY <1>0, <1>1 DEF ProcTypeOK, InOp
<1>3. Active' = Active
  BY <1>2 DEF Active
<1> DEFINE W == wrote[p]
           k == Cardinality(W)
<1>4. IsFiniteSet(W) /\ k \in Nat /\ k <= OpBlocks
  BY <1>0, FS_CardinalityType DEF SpaceInv
<1>5. IsFiniteSet(W \cup {buf[p]}) /\ Cardinality(W \cup {buf[p]}) = IF buf[p] \in W THEN k ELSE k + 1
  BY <1>4, FS_AddElement
<1>6. Cardinality(W \cup {buf[p]}) <= OpBlocks
  BY <1>0, <1>1 DEF SpaceInv
<1>7. wrote'[p] = W \cup {buf[p]} /\ \A q \in Procs \ {p} : wrote'[q] = wrote[q]
  BY <1>0, <1>1 DEF ProcTypeOK
<1>8. \A q \in Procs : IsFiniteSet(wrote'[q]) /\ Cardinality(wrote'[q]) <= OpBlocks
  BY <1>0, <1>5, <1>6, <1>7 DEF SpaceInv
<1>9. IsFiniteSet(Tokens) /\ Cardinality(Tokens) \in Nat /\ Len(lh) \in Nat
  BY <1>0, TokensBound DEF LogTypeOK
<1>10. Len(lh') + Cardinality(Tokens') <= LOGBLOCKS
  <2>1. CASE buf[p] \in W
    <3>1. Logged(buf[p])
      BY <1>0, <1>1, <2>1 DEF CtlInv, InOp
    <3>2. lh' = lh
      BY <3>1 DEF LogWrite
    <3>3. wrote' = wrote
      BY <1>0, <1>1, <1>7, <2>1 DEF ProcTypeOK
    <3>4. Tokens' = Tokens
      BY <1>2, <3>3 DEF Tokens
    <3> QED
      BY <1>0, <3>2, <3>4 DEF SpaceInv
  <2>2. CASE buf[p] \notin W
    <3> DEFINE t == <<p, k + 1>>
    <3>1. Cardinality(wrote'[p]) = k + 1
      BY <1>5, <1>7, <2>2
    <3>2. t \in Tokens
      <4>1. k + 1 <= OpBlocks
        BY <1>5, <1>6, <2>2
      <4> QED
        BY <1>1, <1>4, <4>1 DEF Tokens, InOp
    <3>3. Tokens' \in SUBSET (Tokens \ {t})
      <4>1. ASSUME NEW u \in Tokens' PROVE u \in Tokens /\ u # t
        <5>1. u \in Procs \X (1..MAXOPBLOCKS) /\ pc'[u[1]] \in InOp /\ u[2] > Cardinality(wrote'[u[1]])
          BY <4>1 DEF Tokens
        <5>2. CASE u[1] = p
          BY <1>2, <1>4, <3>1, <5>1, <5>2 DEF Tokens
        <5>3. CASE u[1] # p
          BY <1>2, <1>7, <5>1, <5>3 DEF Tokens
        <5> QED
          BY <5>2, <5>3
      <4> QED
        BY <4>1
    <3>4. IsFiniteSet(Tokens \ {t}) /\ Cardinality(Tokens \ {t}) = Cardinality(Tokens) - 1
      BY <1>9, <3>2, FS_RemoveElement
    <3>5. Cardinality(Tokens') <= Cardinality(Tokens) - 1 /\ Cardinality(Tokens') \in Nat
      BY <3>3, <3>4, FS_Subset, FS_CardinalityType
    <3>6. Len(lh') <= Len(lh) + 1 /\ Len(lh') \in Nat
      <4>1. CASE Logged(buf[p])
        BY <1>9, <4>1 DEF LogWrite
      <4>2. CASE ~Logged(buf[p])
        BY <1>0, <1>9, <4>2 DEF LogWrite, LogTypeOK
      <4> QED
        BY <4>1, <4>2
    <3> QED
      BY <1>0, <1>9, <3>5, <3>6 DEF SpaceInv
  <2> QED
    BY <2>1, <2>2
<1>11. \A q \in Procs : pc'[q] = "dirty" => Cardinality(wrote'[q] \cup {buf'[q]}) <= OpBlocks
  BY <1>0, <1>1, <1>2, <1>7 DEF SpaceInv
<1> QED
  BY <1>0, <1>1, <1>3, <1>8, <1>10, <1>11 DEF SpaceInv

\* Every step keeps the log within its space.
LEMMA SpaceStep ==
  ASSUME IInv, [Next]_vars
  PROVE  SpaceInv'
<1> USE ConstantsAssumption DEF diskVars
<1>0. TypeOK /\ LogTypeOK /\ ProcTypeOK /\ SpaceInv /\ CtlInv
  BY DEF IInv, TypeOK
<1>a. IsFiniteSet(Tokens) /\ Cardinality(Tokens) \in Nat /\ Len(lh) \in Nat /\ Len(hdr) \in Nat
  BY <1>0, TokensBound DEF LogTypeOK
<1>b. ASSUME UNCHANGED <<wrote, outstanding, lh, hdr>>,
             \A q \in Procs : pc'[q] \in InOp <=> pc[q] \in InOp,
             \A q \in Procs : pc'[q] = "dirty" => pc[q] = "dirty" /\ buf'[q] = buf[q]
      PROVE  SpaceInv'
  BY <1>0, <1>b, SpaceFrame DEF SpaceInv
<1>1. ASSUME NEW p \in Procs, OpBrelse(p) PROVE SpaceInv'
  BY <1>0, <1>1, <1>b DEF OpBrelse, Brelse, ProcTypeOK, InOp
<1>2. ASSUME NEW p \in Procs, NEW b \in Blocks, OpBget(p, b) PROVE SpaceInv'
  BY <1>0, <1>2, <1>b DEF OpBget, Bget, ProcTypeOK, InOp
<1>3. ASSUME NEW p \in Procs, NEW v \in Data, Modify(p, v) PROVE SpaceInv'
  <2>1. \A q \in Procs : pc'[q] \in InOp <=> pc[q] \in InOp
    BY <1>0, <1>3 DEF Modify, ProcTypeOK, InOp
  <2>2. \A q \in Procs : pc'[q] = "dirty" => Cardinality(wrote'[q] \cup {buf'[q]}) <= OpBlocks
    BY <1>0, <1>3 DEF Modify, ProcTypeOK, SpaceInv
  <2>3. UNCHANGED <<wrote, outstanding, lh, hdr>>
    BY <1>3 DEF Modify
  <2> QED
    BY <1>0, <2>1, <2>2, <2>3, SpaceFrame DEF SpaceInv
<1>4. ASSUME NEW p \in Procs, WriteLog(p) PROVE SpaceInv'
  BY <1>0, <1>4, <1>b DEF WriteLog, ProcTypeOK, InOp
<1>5. ASSUME NEW p \in Procs, WriteHead(p) PROVE SpaceInv'
  <2>1. /\ \A q \in Procs : pc'[q] \in InOp <=> pc[q] \in InOp
        /\ \A q \in Procs : pc'[q] = "dirty" => pc[q] = "dirty"
    BY <1>0, <1>5 DEF WriteHead, ProcTypeOK, InOp
  <2>2. UNCHANGED <<wrote, outstanding, lh, buf>> /\ hdr' = lh
    BY <1>5 DEF WriteHead
  <2> QED
    BY <1>0, <1>a, <2>1, <2>2, SpaceFrame DEF SpaceInv
<1>6. ASSUME NEW p \in Procs, InstallTrans(p) PROVE SpaceInv'
  BY <1>0, <1>6, <1>b DEF InstallTrans, ProcTypeOK, InOp
<1>7. ASSUME NEW p \in Procs, ClearLog(p) PROVE SpaceInv'
  <2>1. /\ \A q \in Procs : pc'[q] \in InOp <=> pc[q] \in InOp
        /\ \A q \in Procs : pc'[q] = "dirty" => pc[q] = "dirty"
    BY <1>0, <1>7 DEF ClearLog, ProcTypeOK, InOp
  <2>2. UNCHANGED <<wrote, outstanding, buf>> /\ lh' = <<>> /\ hdr' = <<>>
    BY <1>7 DEF ClearLog
  <2>3. Len(lh') = 0 /\ Len(hdr') = 0
    BY <2>2
  <2>4. /\ Tokens' = Tokens
        /\ outstanding' = Cardinality(Active')
        /\ \A q \in Procs : IsFiniteSet(wrote'[q]) /\ Cardinality(wrote'[q]) <= OpBlocks
    BY <1>0, <2>1, <2>2, SpaceFrame
  <2>5. Len(lh') + Cardinality(Tokens') <= LOGBLOCKS /\ Len(hdr') <= LOGBLOCKS
    BY <1>0, <1>a, <2>3, <2>4 DEF SpaceInv
  <2>6. \A q \in Procs : pc'[q] = "dirty" => Cardinality(wrote'[q] \cup {buf'[q]}) <= OpBlocks
    BY <1>0, <2>1, <2>2 DEF SpaceInv
  <2> QED
    BY <2>4, <2>5, <2>6 DEF SpaceInv
<1>8. ASSUME NEW p \in Procs, FinishEndOp(p) PROVE SpaceInv'
  BY <1>0, <1>8, <1>b DEF FinishEndOp, Wakeup, ProcTypeOK, InOp
<1>9. ASSUME NEW b \in Blocks, Evict(b) PROVE SpaceInv'
  BY <1>9, <1>b DEF Evict
<1>10. ASSUME Crash PROVE SpaceInv'
  <2>1. /\ pc' = [q \in Procs |-> "idle"] /\ wrote' = [q \in Procs |-> {}]
        /\ outstanding' = 0 /\ lh' = <<>> /\ hdr' = hdr
    BY <1>10 DEF Crash, Booted
  <2>2. Active' = {} /\ Tokens' = {}
    BY <2>1 DEF Active, Tokens, InOp
  <2>3. Len(lh') = 0
    BY <2>1
  <2>4. Cardinality({}) = 0 /\ IsFiniteSet({})
    BY FS_EmptySet
  <2>5. \A q \in Procs : IsFiniteSet(wrote'[q]) /\ Cardinality(wrote'[q]) <= OpBlocks
    BY <2>1, <2>4
  <2>6. \A q \in Procs : pc'[q] # "dirty"
    BY <2>1
  <2>7. Len(hdr') <= LOGBLOCKS /\ 0 <= LOGBLOCKS
    BY <1>0, <2>1 DEF SpaceInv
  <2>8. Len(lh') + Cardinality(Tokens') <= LOGBLOCKS
    BY <2>2, <2>3, <2>4, <2>7
  <2> QED
    BY <2>1, <2>2, <2>4, <2>5, <2>6, <2>7, <2>8 DEF SpaceInv
<1>11. ASSUME ReadHead PROVE SpaceInv'
  <2>1. UNCHANGED <<pc, wrote, outstanding, buf, hdr>> /\ lh' = hdr
    BY <1>11 DEF ReadHead
  <2>2. Tokens = {}
    BY <1>0, <1>11 DEF ReadHead, CtlInv, Tokens, InOp
  <2>3. Cardinality(Tokens) = 0
    BY <2>2, FS_EmptySet
  <2> QED
    BY <1>0, <1>a, <2>1, <2>3, SpaceFrame DEF SpaceInv
<1>12. ASSUME RecoverInstall PROVE SpaceInv'
  BY <1>12, <1>b DEF RecoverInstall
<1>13. ASSUME RecoverClear PROVE SpaceInv'
  <2>1. UNCHANGED <<pc, wrote, outstanding, buf>> /\ lh' = <<>> /\ hdr' = <<>>
    BY <1>13 DEF RecoverClear
  <2>2. Len(lh') = 0 /\ Len(hdr') = 0
    BY <2>1
  <2> QED
    BY <1>0, <1>a, <2>1, <2>2, SpaceFrame DEF SpaceInv
<1>14. ASSUME UNCHANGED vars PROVE SpaceInv'
  BY <1>14, <1>b DEF vars, memVars
<1>15. ASSUME NEW p \in Procs, OpBread(p) PROVE SpaceInv'
  BY <1>0, <1>15, <1>b DEF OpBread, ProcTypeOK, InOp
<1>16. ASSUME NEW p \in Procs, OpUnlock(p) PROVE SpaceInv'
  BY <1>0, <1>16, <1>b DEF OpUnlock, ProcTypeOK, InOp
<1> QED
  BY <1>1, <1>2, <1>3, <1>4, <1>5, <1>6, <1>7, <1>8, <1>9, <1>10, <1>11, <1>12,
     <1>13, <1>14, <1>15, <1>16, SpaceBegin, SpaceEnd, SpaceLogWrite DEF Next, Commit, Recover

\* Every step keeps the control invariant: after a crash nobody runs until
\* recovery ends, what an operation wrote stays logged while it is active, and
\* a commit starts only when the last operation has ended.
LEMMA CtlStep ==
  ASSUME IInv, [Next]_vars
  PROVE  CtlInv'
<1> USE DEF diskVars, InOp, InCommit
<1>0. LogTypeOK /\ ProcTypeOK /\ CtlInv
  BY DEF IInv, TypeOK
<1>1. ASSUME NEW p \in Procs, BeginOp(p) PROVE CtlInv'
  BY <1>0, <1>1 DEF BeginOp, MustWait, CtlInv, CommitAlone, Logged, ProcTypeOK
<1>2. ASSUME NEW p \in Procs, EndOp(p) PROVE CtlInv'
  <2>1. CASE outstanding' = 0
    <3>1. \A q \in Procs : pc[q] \in InOp => q = p
      BY <1>0, <1>2, <2>1, ActiveCounted DEF EndOp, LogTypeOK
    <3>2. pc' = [pc EXCEPT ![p] = IF lh = <<>> THEN "finish" ELSE "write_log"] /\ committing'
      BY <1>2, <2>1, Zenon DEF EndOp
    <3>3. UNCHANGED <<mode, lh, buf>> /\ wrote' = [wrote EXCEPT ![p] = {}] /\ pc[p] = "op" /\ ~committing
      BY <1>2 DEF EndOp
    <3> QED
      BY <1>0, <3>1, <3>2, <3>3 DEF CtlInv, CommitAlone, Logged, ProcTypeOK
  <2>2. CASE outstanding' # 0
    <3>1. pc' = Wakeup([pc EXCEPT ![p] = "idle"]) /\ committing' = committing
      BY <1>2, <2>2, Zenon DEF EndOp
    <3>2. UNCHANGED <<mode, lh, buf>> /\ wrote' = [wrote EXCEPT ![p] = {}] /\ pc[p] = "op" /\ ~committing
      BY <1>2 DEF EndOp
    <3> QED
      BY <1>0, <3>1, <3>2 DEF CtlInv, CommitAlone, Logged, ProcTypeOK, Wakeup
  <2> QED
    BY <2>1, <2>2
<1>3. ASSUME NEW p \in Procs, LogWrite(p) PROVE CtlInv'
  <2>1. /\ pc[p] = "dirty" /\ pc' = [pc EXCEPT ![p] = "logged"]
        /\ wrote' = [wrote EXCEPT ![p] = @ \cup {buf[p]}] /\ UNCHANGED <<mode, committing, buf>>
    BY <1>3 DEF LogWrite
  <2>2. buf[p] \in Blocks
    BY <1>0, <2>1 DEF CtlInv
  <2>3. Logged(buf[p])' /\ \A b \in Blocks : Logged(b) => Logged(b)'
    <3>1. CASE Logged(buf[p])
      BY <1>3, <2>1, <3>1 DEF LogWrite, Logged
    <3>2. CASE ~Logged(buf[p])
      <4>1. lh' = Append(lh, buf[p]) /\ lh \in Seq(Blocks)
        BY <1>0, <1>3, <3>2 DEF LogWrite, LogTypeOK
      <4>2. Len(lh') = Len(lh) + 1 /\ lh'[Len(lh')] = buf[p] /\ Len(lh) \in Nat
        BY <2>2, <4>1
      <4>3. \A i \in 1..Len(lh) : lh'[i] = lh[i]
        BY <2>2, <4>1
      <4> QED
        BY <2>1, <4>2, <4>3 DEF Logged
    <3> QED
      BY <3>1, <3>2
  <2>4. \A q \in Procs : pc'[q] \in InOp => \A b \in wrote'[q] : Logged(b)'
    <3> SUFFICES ASSUME NEW q \in Procs, pc'[q] \in InOp, NEW b \in wrote'[q]
                 PROVE  Logged(b)'
      OBVIOUS
    <3>1. CASE q = p
      BY <1>0, <2>1, <2>3, <3>1 DEF CtlInv, ProcTypeOK
    <3>2. CASE q # p
      BY <1>0, <2>1, <2>3, <3>2 DEF CtlInv, ProcTypeOK
    <3> QED
      BY <3>1, <3>2
  <2> QED
    BY <1>0, <2>1, <2>4 DEF CtlInv, CommitAlone, ProcTypeOK
<1>4. ASSUME NEW p \in Procs, OpBrelse(p) PROVE CtlInv'
  BY <1>0, <1>4 DEF OpBrelse, Brelse, CtlInv, CommitAlone, Logged, ProcTypeOK
<1>5. ASSUME NEW p \in Procs, NEW b \in Blocks, OpBget(p, b) PROVE CtlInv'
  BY <1>0, <1>5 DEF OpBget, Bget, CtlInv, CommitAlone, Logged, ProcTypeOK
<1>6. ASSUME NEW p \in Procs, NEW v \in Data, Modify(p, v) PROVE CtlInv'
  BY <1>0, <1>6 DEF Modify, CtlInv, CommitAlone, Logged, ProcTypeOK
<1>7. ASSUME NEW p \in Procs, Commit(p) PROVE CtlInv'
  <2>1. \A q \in Procs : pc[q] \notin InOp /\ (pc[q] \in InCommit => q = p)
    BY <1>0, <1>7 DEF CtlInv, CommitAlone, Commit, WriteLog, WriteHead, InstallTrans,
       ClearLog, FinishEndOp
  <2>2. CASE WriteLog(p) \/ WriteHead(p) \/ InstallTrans(p) \/ ClearLog(p)
    BY <1>0, <2>1, <2>2 DEF CtlInv, CommitAlone, ProcTypeOK, WriteLog, WriteHead, InstallTrans, ClearLog
  <2>3. CASE FinishEndOp(p)
    BY <1>0, <2>1, <2>3 DEF CtlInv, CommitAlone, ProcTypeOK, FinishEndOp, Wakeup
  <2> QED
    BY <1>7, <2>2, <2>3 DEF Commit
<1>8. ASSUME NEW b \in Blocks, Evict(b) PROVE CtlInv'
  BY <1>0, <1>8 DEF Evict, CtlInv, CommitAlone, Logged
<1>9. ASSUME Crash PROVE CtlInv'
  <2>1. pc' = [q \in Procs |-> "idle"] /\ committing' = FALSE
    BY <1>9 DEF Crash, Booted
  <2> QED
    BY <2>1 DEF CtlInv, CommitAlone
<1>10. ASSUME Recover PROVE CtlInv'
  <2>1. UNCHANGED <<pc, committing, buf, wrote>> /\ mode # "up"
    BY <1>10 DEF Recover, ReadHead, RecoverInstall, RecoverClear
  <2> QED
    BY <1>0, <2>1 DEF CtlInv, CommitAlone
<1>11. ASSUME UNCHANGED vars PROVE CtlInv'
  BY <1>0, <1>11 DEF vars, memVars, CtlInv, CommitAlone, Logged
<1>12. ASSUME NEW p \in Procs, OpBread(p) PROVE CtlInv'
  BY <1>0, <1>12 DEF OpBread, CtlInv, CommitAlone, Logged, ProcTypeOK
<1>13. ASSUME NEW p \in Procs, OpUnlock(p) PROVE CtlInv'
  BY <1>0, <1>13 DEF OpUnlock, CtlInv, CommitAlone, Logged, ProcTypeOK
<1> QED
  BY <1>1, <1>2, <1>3, <1>4, <1>5, <1>6, <1>7, <1>8, <1>9, <1>10, <1>11, <1>12, <1>13 DEF Next
-----------------------------------------------------------------------------
\* The inductive invariant of the log's control and space.
THEOREM LogInvariant == Spec => []IInv
<1>1. Init => IInv
  <2> SUFFICES ASSUME Init PROVE IInv
    OBVIOUS
  <2> USE ConstantsAssumption DEF Init, Booted
  <2>1. TypeOK
    <3>1. committing \in BOOLEAN
      OBVIOUS
    <3>2. LogTypeOK
      BY <3>1 DEF LogTypeOK
    <3>3. ProcTypeOK
      BY DEF ProcTypeOK
    <3>4. BlockTypeOK
      BY DEF BlockTypeOK
    <3> QED
      BY <3>2, <3>3, <3>4 DEF TypeOK
  <2>2. CtlInv
    BY DEF CtlInv, CommitAlone, InOp, InCommit
  <2>3. Active = {} /\ Tokens = {}
    BY DEF Active, Tokens, InOp
  <2>4. Len(lh) = 0 /\ Len(hdr) = 0
    OBVIOUS
  <2>5. Cardinality({}) = 0 /\ IsFiniteSet({})
    BY FS_EmptySet
  <2>6. SpaceInv
    BY <2>3, <2>4, <2>5 DEF SpaceInv
  <2> QED
    BY <2>1, <2>2, <2>6 DEF IInv
<1>2. IInv /\ [Next]_vars => IInv'
  BY TypeStep, CtlStep, SpaceStep DEF IInv
<1> QED
  BY <1>1, <1>2, PTL DEF Spec

\* Type correctness of the log, the cache and the disk of kernel/log.c.
THEOREM LogTypeCorrect == Spec => []TypeOK
<1>1. IInv => TypeOK
  BY DEF IInv
<1> QED
  BY <1>1, LogInvariant, PTL

\* An operation with a reserved block left can log one.
LEMMA Reserved ==
  ASSUME IInv, NEW p \in Procs, pc[p] = "dirty", Cardinality(wrote[p]) < MAXOPBLOCKS
  PROVE  ~LogWritePanics
<1> USE ConstantsAssumption
<1>1. outstanding >= 1 /\ outstanding \in Nat
  BY ActiveCounted DEF IInv, TypeOK, LogTypeOK, InOp
<1>2. IsFiniteSet(wrote[p]) /\ Cardinality(wrote[p]) \in Nat
  BY FS_CardinalityType DEF IInv, SpaceInv
<1>3. <<p, MAXOPBLOCKS>> \in Tokens
  BY <1>2 DEF Tokens, InOp
<1>4. IsFiniteSet(Tokens) /\ Cardinality(Tokens) \in Nat
  BY TokensBound DEF IInv
<1>5. Cardinality(Tokens) # 0
  BY <1>3, <1>4, FS_EmptySet
<1>6. Len(lh) \in Nat /\ Len(lh) + Cardinality(Tokens) <= LOGBLOCKS
  BY DEF IInv, TypeOK, LogTypeOK, SpaceInv
<1> QED
  BY <1>1, <1>4, <1>5, <1>6 DEF LogWritePanics

\* Whatever the number of processes and blocks and the size of the log, the
\* reservation of begin_op() is enough for operations that log up to MAXOPBLOCKS
\* distinct blocks, but for a block that an operation at its limit logs again;
\* and no end_op() panics.
THEOREM LogSpaceSuffices == Spec => []SpaceSuffices
<1>1. IInv => SpaceSuffices
  <2> SUFFICES ASSUME IInv, NEW p \in Procs
               PROVE  /\ pc[p] = "dirty" /\ LogWritePanics =>
                           buf[p] \in wrote[p] /\ Cardinality(wrote[p]) = MAXOPBLOCKS
                      /\ pc[p] = "op" => ~committing
    BY DEF SpaceSuffices
  <2> USE ConstantsAssumption
  <2>1. ASSUME pc[p] = "dirty", LogWritePanics
        PROVE  buf[p] \in wrote[p] /\ Cardinality(wrote[p]) = MAXOPBLOCKS
    <3> DEFINE k == Cardinality(wrote[p])
    <3>1. IsFiniteSet(wrote[p]) /\ k <= OpBlocks /\ k \in Nat
      BY FS_CardinalityType DEF IInv, SpaceInv
    <3>2. ~(k < MAXOPBLOCKS)
      BY <2>1, Reserved
    <3>3. k = MAXOPBLOCKS
      BY <3>1, <3>2
    <3>4. Cardinality(wrote[p] \cup {buf[p]}) <= OpBlocks
      BY <2>1 DEF IInv, SpaceInv
    <3>5. buf[p] \notin wrote[p] => Cardinality(wrote[p] \cup {buf[p]}) = k + 1
      BY <3>1, FS_AddElement
    <3> QED
      BY <3>1, <3>3, <3>4, <3>5
  <2>2. ASSUME pc[p] = "op" PROVE ~committing
    BY <2>2 DEF IInv, CtlInv, CommitAlone, InOp
  <2> QED
    BY <2>1, <2>2
<1> QED
  BY <1>1, LogInvariant, PTL

\* When no operation logs MAXOPBLOCKS distinct blocks, log_write() never panics.
THEOREM LogNeverPanics ==
  ASSUME OpBlocks < MAXOPBLOCKS
  PROVE  Spec => [](\A p \in Procs : pc[p] = "dirty" => ~LogWritePanics)
<1>1. IInv => \A p \in Procs : pc[p] = "dirty" => ~LogWritePanics
  <2> SUFFICES ASSUME IInv, NEW p \in Procs, pc[p] = "dirty" PROVE ~LogWritePanics
    OBVIOUS
  <2>1. Cardinality(wrote[p]) <= OpBlocks /\ Cardinality(wrote[p]) \in Nat
    BY FS_CardinalityType DEF IInv, SpaceInv
  <2> QED
    BY <2>1, Reserved, ConstantsAssumption
<1> QED
  BY <1>1, LogInvariant, PTL

\* A commit has the log to itself: no operation is active and no other process
\* commits while end_op() runs commit().
THEOREM LogCommitsAlone == Spec => []CommitAlone
<1>1. IInv => CommitAlone
  BY DEF IInv, CtlInv
<1> QED
  BY <1>1, LogInvariant, PTL
=============================================================================

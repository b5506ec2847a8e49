-------------------------- MODULE StateStoreProofs ---------------------------
(***************************************************************************)
(* Theorems about StateStore.  What holds of every use of the file needs   *)
(* SafeInv: a list of orphans holds dead writers only, so nobody touches   *)
(* the file of a live one.  What holds as long as everyone takes the lock  *)
(* (OnlyUpdates) is built on it in three more layers: whoever is past the  *)
(* lock is alone there (HoldInv); a call that has scanned for orphans has  *)
(* left none (OrphanInv); and every snapshot that could be published, on   *)
(* disk, in memory or in an orphan, contains what has been published and   *)
(* nothing else of the living (DataInv).                                   *)
(***************************************************************************)
EXTENDS StateStore, TLAPS

LEMMA LabelNames ==
  {"idle", "lock", "raw", "salvage", "salvageRename", "stat", "list", "scan",
   "restat", "migrate", "demote", "demoteWrite", "demoteRename", "mutate",
   "write", "rename", "unlock"} \subseteq Labels
  BY DEF Labels

LEMMA FilesAre ==
  /\ \A f \in Files : f.data \in Snapshots \union {Corrupt} /\ f.mtime \in Times /\ f # NoTmp
  /\ \A data \in Snapshots \union {Corrupt}, time \in Times :
       /\ [data |-> data, mtime |-> time] \in Files
       /\ [data |-> data, mtime |-> time].data = data
  BY NamesAssumption DEF Files

LEMMA SnapshotsAre ==
  ASSUME NEW s \in Snapshots
  PROVE  /\ s # Corrupt
         /\ s.pid \in Procs \union {NoPid} /\ s.active \in BOOLEAN /\ s.iteration \in 0..MaxIter
         /\ s.legacy \in BOOLEAN /\ s.demoted \in BOOLEAN
         /\ s.done \in [Procs -> 0..MaxOps]
  BY NamesAssumption DEF Snapshots

LEMMA SnapshotUpdates ==
  ASSUME NEW s \in Snapshots
  PROVE  /\ \A b \in BOOLEAN : [s EXCEPT !.active = b] \in Snapshots
         /\ \A b \in BOOLEAN : [s EXCEPT !.legacy = b] \in Snapshots
         /\ \A b, c \in BOOLEAN : [s EXCEPT !.active = b, !.demoted = c] \in Snapshots
         /\ \A p \in Procs, b \in BOOLEAN : [s EXCEPT !.pid = p, !.active = b] \in Snapshots
         /\ \A n \in 0..MaxIter : [s EXCEPT !.iteration = n] \in Snapshots
         /\ \A d \in [Procs -> 0..MaxOps] : [s EXCEPT !.done = d] \in Snapshots
  BY DEF Snapshots

LEMMA ExceptType ==
  ASSUME NEW D, NEW R, NEW f \in [D -> R], NEW x \in D, NEW v \in R
  PROVE  /\ [f EXCEPT ![x] = v] \in [D -> R]
         /\ [f EXCEPT ![x] = v][x] = v
         /\ \A y \in D \ {x} : [f EXCEPT ![x] = v][y] = f[y]
  OBVIOUS

------------------------------------------------------------------------------
(* What each step does, point by point. *)

Shape ==
  /\ base \in Files
  /\ tmp \in [Procs -> Files \union {NoTmp}]
  /\ owner \in Procs \union {NoPid} /\ inside \subseteq Procs /\ dead \subseteq Procs
  /\ pc \in [Procs -> Labels]
  /\ mode \in [Procs -> Modes]
  /\ mem \in [Procs -> Snapshots \union {Corrupt}]
  /\ mtime \in [Procs -> Times]
  /\ todo \in [Procs -> SUBSET Procs]
  /\ clock \in Times
  /\ committed \in [Procs -> 0..MaxOps]
  /\ ruined \in BOOLEAN

LEMMA GotoIs ==
  ASSUME Shape, NEW p \in Procs, NEW label \in Labels, Goto(p, label)
  PROVE  pc' \in [Procs -> Labels] /\ pc'[p] = label
  BY DEF Shape, Goto

ThrowView(p) ==
  /\ pc'[p] = IF p \in inside THEN "unlock" ELSE IF mode[p] = "force" THEN "raw" ELSE "idle"
  /\ mode'[p] = IF mode[p] = "force" THEN "fallback" ELSE mode[p]

LEMMA ThrowIs ==
  ASSUME Shape, NEW p \in Procs, Throw(p)
  PROVE  pc' \in [Procs -> Labels] /\ mode' \in [Procs -> Modes] /\ ThrowView(p)
  <1>1. "unlock" \in Labels /\ "raw" \in Labels /\ "idle" \in Labels /\ "fallback" \in Modes
    BY LabelNames DEF Modes
  <1> QED
    BY <1>1 DEF Shape, Throw, ThrowView, Goto, Locked

TakeLockView(p) ==
  /\ Live(p) /\ pc[p] = "lock" /\ owner = NoPid
  /\ owner' = p /\ inside' = inside \union {p}
  /\ pc'[p] = "raw" /\ mode'[p] = mode[p] /\ mem'[p] = mem[p] /\ todo'[p] = todo[p]
  /\ UNCHANGED <<base, tmp, dead, committed, ruined>>

LEMMA TakeLockIs == ASSUME Shape, NEW p \in Procs, TakeLock(p) PROVE Shape' /\ TakeLockView(p)
  BY LabelNames DEF TakeLock, TakeLockView, Shape, Goto, Lock!Enter

ReclaimLockView ==
  /\ owner \in dead /\ owner' = NoPid
  /\ UNCHANGED <<base, tmp, inside, dead, pc, mode, mem, todo, committed, ruined>>

LEMMA ReclaimLockIs == ASSUME Shape, NEW p \in Procs, ReclaimLock(p) PROVE Shape' /\ ReclaimLockView
  BY DEF ReclaimLock, ReclaimLockView, Shape, Lock!Reclaim

LockFailsView(p) ==
  /\ Live(p) /\ pc[p] = "lock" /\ ThrowView(p)
  /\ mem'[p] = mem[p] /\ todo'[p] = todo[p]
  /\ UNCHANGED <<base, tmp, lockVars, committed, ruined>>

LEMMA LockFailsIs == ASSUME Shape, NEW p \in Procs, LockFails(p) PROVE Shape' /\ LockFailsView(p)
  <1>1. pc' \in [Procs -> Labels] /\ mode' \in [Procs -> Modes] /\ ThrowView(p)
    BY ThrowIs DEF LockFails
  <1> QED
    BY <1>1 DEF LockFails, LockFailsView, Shape, lockVars

ReadRawView(p) ==
  /\ Live(p) /\ pc[p] = "raw" /\ mem'[p] = base.data
  /\ pc'[p] = IF base.data # Corrupt THEN "stat" ELSE "salvage"
  /\ mode'[p] = mode[p] /\ todo'[p] = todo[p]
  /\ UNCHANGED <<base, tmp, lockVars, committed, ruined>>

LEMMA ReadRawIs == ASSUME Shape, NEW p \in Procs, ReadRaw(p) PROVE Shape' /\ ReadRawView(p)
  <1>1. base.data \in Snapshots \union {Corrupt}
    BY FilesAre DEF Shape
  <1> QED
    BY <1>1, LabelNames DEF ReadRaw, ReadRawView, Shape, Goto, IsSnapshot, lockVars

SalvageView(p) ==
  /\ Live(p) /\ pc[p] = "salvage"
  /\ \/ /\ \E q \in dead : /\ tmp[q] # NoTmp /\ IsSnapshot(tmp[q])
                           /\ todo'[p] = {q} /\ mem'[p] = tmp[q].data
        /\ pc'[p] = "salvageRename" /\ mode'[p] = mode[p]
     \/ ThrowView(p) /\ mem'[p] = mem[p] /\ todo'[p] = todo[p]
  /\ UNCHANGED <<base, tmp, lockVars, committed, ruined>>

LEMMA SalvageIs == ASSUME Shape, NEW p \in Procs, Salvage(p) PROVE Shape' /\ SalvageView(p)
  <1>1. CASE Throw(p) /\ UNCHANGED <<mem, todo>>
    <2>1. pc' \in [Procs -> Labels] /\ mode' \in [Procs -> Modes] /\ ThrowView(p)
      BY <1>1, ThrowIs
    <2> QED
      BY <1>1, <2>1 DEF Salvage, SalvageView, Shape, lockVars
  <1>2. CASE ~(Throw(p) /\ UNCHANGED <<mem, todo>>)
    <2>1. PICK q \in DeadOrphans :
            /\ IsSnapshot(tmp[q]) /\ todo' = [todo EXCEPT ![p] = {q}]
            /\ mem' = [mem EXCEPT ![p] = tmp[q].data] /\ Goto(p, "salvageRename") /\ UNCHANGED mode
      BY <1>2 DEF Salvage
    <2>2. q \in dead /\ q \in Procs /\ tmp[q] # NoTmp /\ tmp[q] \in Files
      BY <2>1 DEF DeadOrphans, Shape
    <2>3. {q} \in SUBSET Procs /\ tmp[q].data \in Snapshots \union {Corrupt}
      BY <2>2, FilesAre
    <2>4. pc' \in [Procs -> Labels] /\ pc'[p] = "salvageRename"
      BY <2>1, LabelNames, GotoIs
    <2>5. todo' \in [Procs -> SUBSET Procs] /\ todo'[p] = {q}
      BY <2>1, <2>3, ExceptType DEF Shape
    <2>6. mem' \in [Procs -> Snapshots \union {Corrupt}] /\ mem'[p] = tmp[q].data
      BY <2>1, <2>3, ExceptType DEF Shape
    <2> QED
      BY <2>1, <2>2, <2>4, <2>5, <2>6 DEF Salvage, SalvageView, Shape, lockVars
  <1> QED
    BY <1>1, <1>2

SalvageRenameView(p) ==
  /\ Live(p) /\ pc[p] = "salvageRename" /\ todo'[p] = {}
  /\ \E q \in todo[p] :
       \/ /\ tmp[q] # NoTmp /\ base' = tmp[q] /\ tmp' = [tmp EXCEPT ![q] = NoTmp]
          /\ pc'[p] = "stat" /\ mode'[p] = mode[p] /\ mem'[p] = mem[p]
       \/ /\ tmp[q] = NoTmp /\ ThrowView(p) /\ mem'[p] = Corrupt
          /\ UNCHANGED <<base, tmp>>
  /\ UNCHANGED <<lockVars, committed, ruined>>

LEMMA SalvageRenameIs ==
  ASSUME Shape, NEW p \in Procs, SalvageRename(p)
  PROVE  Shape' /\ SalvageRenameView(p)
  <1> QED
    BY LabelNames, ThrowIs DEF SalvageRename, SalvageRenameView, Shape, Goto, lockVars

StatView(p) ==
  /\ Live(p) /\ \/ pc[p] = "stat" /\ pc'[p] = "list"
                \/ pc[p] = "restat" /\ pc'[p] = "scan"
  /\ mode'[p] = mode[p] /\ mem'[p] = mem[p] /\ todo'[p] = todo[p]
  /\ UNCHANGED <<base, tmp, lockVars, committed, ruined>>

LEMMA StatIs ==
  ASSUME Shape, NEW p \in Procs, Stat(p) \/ Restat(p) PROVE Shape' /\ StatView(p)
  <1>1. base.mtime \in Times
    BY FilesAre DEF Shape
  <1> QED
    BY <1>1, LabelNames DEF Stat, Restat, StatView, Shape, Goto, lockVars

ListView(p) ==
  /\ Live(p) /\ pc[p] = "list" /\ pc'[p] = "scan" /\ todo'[p] = DeadOrphans
  /\ mode'[p] = mode[p] /\ mem'[p] = mem[p]
  /\ UNCHANGED <<base, tmp, lockVars, committed, ruined>>

LEMMA ListIs == ASSUME Shape, NEW p \in Procs, List(p) PROVE Shape' /\ ListView(p)
  <1>1. DeadOrphans \in SUBSET Procs
    BY DEF DeadOrphans, Shape
  <1> QED
    BY <1>1, LabelNames DEF List, ListView, Shape, Goto, lockVars

ScanView(p) ==
  /\ Live(p) /\ pc[p] = "scan" /\ mode'[p] = mode[p]
  /\ \/ \E q \in todo[p] :
          /\ todo'[p] = todo[p] \ {q}
          /\ \/ /\ tmp[q] = NoTmp /\ UNCHANGED <<base, tmp>>
                /\ mem'[p] = mem[p] /\ pc'[p] = "scan"
             \/ /\ tmp' = [tmp EXCEPT ![q] = NoTmp] /\ UNCHANGED base
                /\ mem'[p] = mem[p] /\ pc'[p] = "scan"
             \/ /\ tmp[q] # NoTmp /\ IsSnapshot(tmp[q])
                /\ tmp' = [tmp EXCEPT ![q] = NoTmp] /\ base' = tmp[q]
                /\ mem'[p] = tmp[q].data /\ pc'[p] = "restat"
     \/ /\ todo[p] = {} /\ UNCHANGED <<base, tmp>>
        /\ mem'[p] = mem[p] /\ todo'[p] = todo[p] /\ pc'[p] = "migrate"
  /\ UNCHANGED <<lockVars, committed, ruined>>

LEMMA ScanIs == ASSUME Shape, NEW p \in Procs, Scan(p) PROVE Shape' /\ ScanView(p)
  <1>1. CASE todo[p] = {} /\ Goto(p, "migrate") /\ mtime' = [mtime EXCEPT ![p] = 0]
             /\ UNCHANGED <<base, tmp, mem, todo>>
    <2>1. 0 \in Times
      BY StoreAssumption DEF Times
    <2> QED
      BY <1>1, <2>1, LabelNames DEF Scan, ScanView, Shape, Goto, lockVars
  <1>2. ASSUME NEW q \in todo[p], todo' = [todo EXCEPT ![p] = @ \ {q}], UNCHANGED mtime,
               \/ tmp[q] = NoTmp /\ UNCHANGED <<base, tmp, mem, pc>>
               \/ Reap(q) /\ UNCHANGED <<base, mem, pc>>
               \/ tmp[q] # NoTmp /\ IsSnapshot(tmp[q]) /\ Promote(p, q)
        PROVE  Shape' /\ ScanView(p)
    <2>1. q \in Procs /\ todo[p] \in SUBSET Procs
      BY DEF Shape
    <2>2. todo' \in [Procs -> SUBSET Procs] /\ todo'[p] = todo[p] \ {q}
      BY <1>2, <2>1 DEF Shape
    <2>3. /\ Live(p) /\ pc[p] = "scan"
          /\ UNCHANGED <<mode, owner, inside, dead, clock, committed, ruined, mtime>>
      BY <1>2 DEF Scan, lockVars
    <2>4. CASE Promote(p, q) /\ tmp[q] # NoTmp /\ IsSnapshot(tmp[q])
      <3>1. tmp[q] \in Files /\ tmp[q].data \in Snapshots \union {Corrupt}
        BY <2>1, <2>4, FilesAre DEF Shape
      <3>2. pc' \in [Procs -> Labels] /\ pc'[p] = "restat"
        BY <2>4, LabelNames, GotoIs DEF Promote
      <3>3. mem' \in [Procs -> Snapshots \union {Corrupt}] /\ mem'[p] = tmp[q].data
        BY <2>4, <3>1, ExceptType DEF Promote, Shape
      <3>4. base' = tmp[q] /\ tmp' = [tmp EXCEPT ![q] = NoTmp]
        BY <2>4 DEF Promote
      <3> QED
        BY <1>2, <2>1, <2>2, <2>3, <2>4, <3>1, <3>2, <3>3, <3>4 DEF ScanView, Shape, lockVars
    <2>5. CASE ~Promote(p, q)
      BY <1>2, <2>1, <2>2, <2>3, <2>5 DEF ScanView, Shape, lockVars, Reap
    <2>6. CASE ~(tmp[q] # NoTmp /\ IsSnapshot(tmp[q]))
      BY <1>2, <2>1, <2>2, <2>3, <2>6 DEF ScanView, Shape, lockVars, Reap
    <2> QED
      BY <2>4, <2>5, <2>6
  <1> QED
    BY <1>1, <1>2 DEF Scan

MigrateView(p) ==
  /\ Live(p) /\ pc[p] = "migrate" /\ pc'[p] = "demote" /\ mode'[p] = mode[p] /\ todo'[p] = todo[p]
  /\ \/ /\ mem'[p] = [mem[p] EXCEPT !.legacy = FALSE]
        /\ base'.data = mem'[p]
     \/ mem'[p] = mem[p] /\ UNCHANGED base
  /\ mem'[p] \in Snapshots
  /\ UNCHANGED <<tmp, lockVars, committed, ruined>>

LEMMA MigrateIs ==
  ASSUME Shape, NEW p \in Procs, mem[p] \in Snapshots, Migrate(p)
  PROVE  Shape' /\ MigrateView(p)
  <1>1. pc' \in [Procs -> Labels] /\ pc'[p] = "demote"
    BY LabelNames, GotoIs DEF Migrate
  <1>2. CASE mem' = [mem EXCEPT ![p].legacy = FALSE] /\ base' = File(mem'[p])
    <2> DEFINE migrated == [mem[p] EXCEPT !.legacy = FALSE]
    <2>1. migrated \in Snapshots
      BY SnapshotUpdates
    <2>2. mem' = [mem EXCEPT ![p] = migrated]
      BY <1>2
    <2> HIDE DEF migrated
    <2>3. mem' \in [Procs -> Snapshots \union {Corrupt}] /\ mem'[p] = migrated
      BY <2>1, <2>2, ExceptType DEF Shape
    <2>4. base' \in Files /\ base'.data = mem'[p]
      BY <1>2, <2>1, <2>3, FilesAre DEF File, Shape
    <2> QED
      BY <1>1, <2>1, <2>3, <2>4 DEF Migrate, MigrateView, Shape, lockVars, migrated
  <1>3. CASE UNCHANGED <<base, mem>>
    BY <1>1, <1>3 DEF Migrate, MigrateView, Shape, lockVars
  <1> QED
    BY <1>2, <1>3 DEF Migrate

ReadReturnsView(p, state) ==
  \/ mode[p] = "read" /\ pc'[p] = "idle" /\ mem'[p] = Corrupt
  \/ mode[p] # "read" /\ pc'[p] = "mutate" /\ mem'[p] = state

LEMMA ReadReturnsIs ==
  ASSUME Shape, NEW p \in Procs, NEW state \in Snapshots, ReadReturns(p, state)
  PROVE  /\ pc' \in [Procs -> Labels] /\ mem' \in [Procs -> Snapshots \union {Corrupt}]
         /\ ReadReturnsView(p, state)
  BY LabelNames DEF ReadReturns, ReadReturnsView, Shape, Goto

DemoteView(p) ==
  /\ Live(p) /\ pc[p] = "demote" /\ mode'[p] = mode[p] /\ todo'[p] = todo[p]
  /\ \/ /\ OwnerDead(mem[p]) \/ Unclaimed(mem[p])
        /\ \/ mem'[p] = [mem[p] EXCEPT !.active = FALSE]
           \/ mem'[p] = [mem[p] EXCEPT !.active = FALSE, !.demoted = TRUE]
        /\ mem'[p] \in Snapshots
        /\ pc'[p] = "demoteWrite"
     \/ ReadReturnsView(p, mem[p])
  /\ UNCHANGED <<base, tmp, lockVars, committed, ruined>>

LEMMA DemoteIs ==
  ASSUME Shape, NEW p \in Procs, mem[p] \in Snapshots, Demote(p)
  PROVE  Shape' /\ DemoteView(p)
  <1>1. CASE ReadReturns(p, mem[p])
    <2>1. /\ pc' \in [Procs -> Labels] /\ mem' \in [Procs -> Snapshots \union {Corrupt}]
          /\ ReadReturnsView(p, mem[p])
      BY <1>1, ReadReturnsIs
    <2> QED
      BY <2>1 DEF Demote, DemoteView, Shape, lockVars
  <1>2. ASSUME NEW demoted \in Snapshots, mem' = [mem EXCEPT ![p] = demoted], Goto(p, "demoteWrite")
        PROVE  Shape' /\ mem'[p] = demoted /\ pc'[p] = "demoteWrite"
    <2>1. mem' \in [Procs -> Snapshots \union {Corrupt}] /\ mem'[p] = demoted
      BY <1>2, ExceptType DEF Shape
    <2>2. pc' \in [Procs -> Labels] /\ pc'[p] = "demoteWrite"
      BY <1>2, LabelNames, GotoIs
    <2> QED
      BY <2>1, <2>2 DEF Demote, Shape, lockVars
  <1>3. CASE OwnerDead(mem[p]) /\ mem' = [mem EXCEPT ![p].active = FALSE] /\ Goto(p, "demoteWrite")
    <2> DEFINE demoted == [mem[p] EXCEPT !.active = FALSE]
    <2>1. demoted \in Snapshots
      BY SnapshotUpdates
    <2>2. Shape' /\ mem'[p] = demoted /\ pc'[p] = "demoteWrite"
      BY <1>2, <1>3, <2>1
    <2> QED
      BY <1>3, <2>1, <2>2 DEF Demote, DemoteView, lockVars, Shape
  <1>4. CASE /\ Unclaimed(mem[p]) /\ Goto(p, "demoteWrite")
             /\ mem' = [mem EXCEPT ![p].active = FALSE, ![p].demoted = TRUE]
    <2> DEFINE demoted == [mem[p] EXCEPT !.active = FALSE, !.demoted = TRUE]
    <2>1. demoted \in Snapshots
      BY SnapshotUpdates
    <2>2. mem' = [mem EXCEPT ![p] = demoted]
      BY <1>4 DEF Shape
    <2>3. Shape' /\ mem'[p] = demoted /\ pc'[p] = "demoteWrite"
      BY <1>2, <1>4, <2>1, <2>2
    <2> QED
      BY <1>4, <2>1, <2>3 DEF Demote, DemoteView, lockVars, Shape
  <1> QED
    BY <1>1, <1>3, <1>4 DEF Demote

WriteView(p) ==
  /\ Live(p) /\ \/ pc[p] = "write" /\ pc'[p] = "rename"
                \/ pc[p] = "demoteWrite" /\ pc'[p] = "demoteRename"
  /\ mode'[p] = mode[p] /\ mem'[p] = mem[p] /\ todo'[p] = todo[p]
  /\ \E f \in Files : f.data = mem[p] /\ tmp' = [tmp EXCEPT ![p] = f]
  /\ UNCHANGED <<base, lockVars, committed, ruined>>

LEMMA WriteIs ==
  ASSUME Shape, NEW p \in Procs, Write(p) \/ DemoteWrite(p)
  PROVE  Shape' /\ WriteView(p)
  <1>1. File(mem[p]) \in Files /\ File(mem[p]).data = mem[p]
    BY FilesAre DEF File, Shape
  <1>2. tmp' = [tmp EXCEPT ![p] = File(mem[p])]
    BY DEF Write, DemoteWrite, WriteTmp
  <1>3. tmp' \in [Procs -> Files \union {NoTmp}]
    BY <1>1, <1>2, ExceptType DEF Shape
  <1>4. /\ pc' \in [Procs -> Labels]
        /\ \/ pc[p] = "write" /\ pc'[p] = "rename"
           \/ pc[p] = "demoteWrite" /\ pc'[p] = "demoteRename"
    BY LabelNames, GotoIs DEF Write, DemoteWrite, WriteTmp
  <1> QED
    BY <1>1, <1>2, <1>3, <1>4 DEF Write, DemoteWrite, WriteTmp, WriteView, Shape, lockVars

RenameTmpView(p) ==
  /\ base' = IF tmp[p] = NoTmp THEN base ELSE tmp[p]
  /\ tmp' = [tmp EXCEPT ![p] = NoTmp]

LEMMA RenameTmpIs ==
  ASSUME Shape, NEW p \in Procs, RenameTmp(p)
  PROVE  base' \in Files /\ tmp' \in [Procs -> Files \union {NoTmp}] /\ RenameTmpView(p)
  BY DEF Shape, RenameTmp, RenameTmpView

DemoteRenameView(p) ==
  /\ Live(p) /\ pc[p] = "demoteRename" /\ mode'[p] = mode[p] /\ todo'[p] = todo[p]
  /\ RenameTmpView(p) /\ ReadReturnsView(p, mem[p])
  /\ UNCHANGED <<lockVars, committed, ruined>>

LEMMA DemoteRenameIs ==
  ASSUME Shape, NEW p \in Procs, mem[p] \in Snapshots, DemoteRename(p)
  PROVE  Shape' /\ DemoteRenameView(p)
  <1>1. base' \in Files /\ tmp' \in [Procs -> Files \union {NoTmp}] /\ RenameTmpView(p)
    BY RenameTmpIs DEF DemoteRename
  <1>2. /\ pc' \in [Procs -> Labels] /\ mem' \in [Procs -> Snapshots \union {Corrupt}]
        /\ ReadReturnsView(p, mem[p])
    BY ReadReturnsIs DEF DemoteRename
  <1> QED
    BY <1>1, <1>2 DEF DemoteRename, DemoteRenameView, Shape, lockVars

ReturnView(p) == pc'[p] = IF p \in inside THEN "unlock" ELSE "idle"

MutateView(p) ==
  /\ Live(p) /\ pc[p] = "mutate" /\ mode'[p] = mode[p] /\ todo'[p] = todo[p]
  /\ \/ /\ mem'[p] \in Snapshots /\ pc'[p] = "write"
        /\ mem'[p].done[p] = mem[p].done[p] + 1
        /\ \A x \in Procs \ {p} : mem'[p].done[x] = mem[p].done[x]
     \/ mem'[p] = Corrupt /\ ReturnView(p)
  /\ UNCHANGED <<base, tmp, lockVars, committed, ruined>>

LEMMA MutateIs ==
  ASSUME Shape, NEW p \in Procs, mem[p] \in Snapshots, Mutate(p)
  PROVE  Shape' /\ MutateView(p)
  <1>1. CASE /\ Return(p) /\ mem' = [mem EXCEPT ![p] = Corrupt]
    <2>1. pc' \in [Procs -> Labels] /\ ReturnView(p)
      BY <1>1, LabelNames DEF Return, ReturnView, Goto, Shape, Locked
    <2>2. mem' \in [Procs -> Snapshots \union {Corrupt}] /\ mem'[p] = Corrupt
      BY <1>1 DEF Shape
    <2> QED
      BY <1>1, <2>1, <2>2 DEF Mutate, MutateView, Shape, lockVars, Return
  <1>2. CASE ~(Return(p) /\ mem' = [mem EXCEPT ![p] = Corrupt])
    <2>1. PICK s \in {[mem[p] EXCEPT !.pid = p, !.active = TRUE],
                      [mem[p] EXCEPT !.iteration = @ + 1],
                      [mem[p] EXCEPT !.iteration = 0],
                      [mem[p] EXCEPT !.active = FALSE]} :
            /\ s.iteration <= MaxIter
            /\ mem' = [mem EXCEPT ![p] = [s EXCEPT !.done[p] = @ + 1]]
      BY <1>2 DEF Mutate
    <2>2. mem[p].done[p] < MaxOps /\ Goto(p, "write") /\ UNCHANGED mode
      BY <1>2 DEF Mutate
    <2>3. s \in Snapshots /\ s.done = mem[p].done
      <3>1. mem[p].iteration \in Nat /\ MaxIter \in Nat /\ 0 \in 0..MaxIter
        BY SnapshotsAre, StoreAssumption
      <3>2. CASE s = [mem[p] EXCEPT !.iteration = mem[p].iteration + 1]
        <4>1. s.iteration = mem[p].iteration + 1 /\ s.done = mem[p].done
          BY <3>2 DEF Snapshots
        <4>2. mem[p].iteration + 1 \in 0..MaxIter
          BY <2>1, <3>1, <4>1
        <4> QED
          BY <3>2, <4>1, <4>2, SnapshotUpdates
      <3>3. CASE s = [mem[p] EXCEPT !.pid = p, !.active = TRUE]
        BY <3>3, SnapshotUpdates DEF Snapshots
      <3>4. CASE s = [mem[p] EXCEPT !.iteration = 0]
        BY <3>1, <3>4, SnapshotUpdates DEF Snapshots
      <3>5. CASE s = [mem[p] EXCEPT !.active = FALSE]
        BY <3>5, SnapshotUpdates, ZenonT(60) DEF Snapshots
      <3> QED
        BY <2>1, <3>2, <3>3, <3>4, <3>5
    <2> DEFINE done == [mem[p].done EXCEPT ![p] = @ + 1]
               mutated == [s EXCEPT !.done = done]
    <2>4. /\ done \in [Procs -> 0..MaxOps] /\ done[p] = mem[p].done[p] + 1
          /\ \A x \in Procs \ {p} : done[x] = mem[p].done[x]
      <3>1. mem[p].done \in [Procs -> 0..MaxOps]
        BY SnapshotsAre
      <3> QED
        BY <2>2, <3>1, StoreAssumption
    <2>5. mem' = [mem EXCEPT ![p] = mutated]
      BY <2>1, <2>3
    <2> HIDE DEF done
    <2>6. mutated \in Snapshots /\ mutated.done = done
      BY <2>3, <2>4, SnapshotUpdates DEF Snapshots
    <2> HIDE DEF mutated
    <2>7. mem' \in [Procs -> Snapshots \union {Corrupt}] /\ mem'[p] = mutated
      BY <2>5, <2>6, ExceptType DEF Shape
    <2>8. pc' \in [Procs -> Labels] /\ pc'[p] = "write"
      BY <2>2, LabelNames, GotoIs
    <2> QED
      BY <2>2, <2>4, <2>6, <2>7, <2>8 DEF Mutate, MutateView, Shape, lockVars
  <1> QED
    BY <1>1, <1>2

RenameView(p) ==
  /\ Live(p) /\ pc[p] = "rename" /\ mode'[p] = mode[p] /\ todo'[p] = todo[p]
  /\ RenameTmpView(p) /\ ReturnView(p) /\ mem'[p] = Corrupt
  /\ committed' = IF p \in inside /\ tmp[p] # NoTmp
                    THEN [committed EXCEPT ![p] = mem[p].done[p]] ELSE committed
  /\ UNCHANGED <<lockVars, ruined>>

LEMMA RenameIs ==
  ASSUME Shape, NEW p \in Procs, mem[p] \in Snapshots, Rename(p)
  PROVE  Shape' /\ RenameView(p)
  <1>1. base' \in Files /\ tmp' \in [Procs -> Files \union {NoTmp}] /\ RenameTmpView(p)
    BY RenameTmpIs DEF Rename
  <1>2. pc' \in [Procs -> Labels] /\ ReturnView(p)
    BY LabelNames DEF Rename, Return, ReturnView, Goto, Shape, Locked
  <1>3. mem[p].done[p] \in 0..MaxOps
    BY SnapshotsAre
  <1>4. committed' \in [Procs -> 0..MaxOps]
    BY <1>3, ExceptType DEF Rename, Shape
  <1>5. mem' \in [Procs -> Snapshots \union {Corrupt}] /\ mem'[p] = Corrupt
    BY DEF Rename, Shape
  <1> QED
    BY <1>1, <1>2, <1>4, <1>5 DEF Rename, RenameView, Shape, lockVars, Return, Locked

UnlockView(p) ==
  /\ Live(p) /\ pc[p] = "unlock" /\ owner = p /\ owner' = NoPid /\ inside' = inside \ {p}
  /\ pc'[p] = IF mode[p] = "fallback" THEN "raw" ELSE "idle"
  /\ mode'[p] = mode[p] /\ mem'[p] = mem[p] /\ todo'[p] = todo[p]
  /\ UNCHANGED <<base, tmp, dead, committed, ruined>>

LEMMA UnlockIs == ASSUME Shape, NEW p \in Procs, Unlock(p) PROVE Shape' /\ UnlockView(p)
  BY LabelNames DEF Unlock, UnlockView, Shape, Goto, Lock!Leave

BeginView(p, m) ==
  /\ Live(p) /\ pc[p] = "idle" /\ mode'[p] = m /\ pc'[p] = IF m = "read" THEN "raw" ELSE "lock"
  /\ \/ m = "update" /\ p \in Updaters
     \/ m = "read" /\ p \in Readers
     \/ m = "force" /\ p \in Forcers
  /\ mem'[p] = mem[p] /\ todo'[p] = todo[p]
  /\ UNCHANGED <<base, tmp, lockVars, committed, ruined>>

LEMMA BeginIs ==
  ASSUME Shape, NEW p \in Procs, NEW m \in Modes, Begin(p, m)
  PROVE  Shape' /\ BeginView(p, m)
  BY LabelNames DEF Begin, BeginView, Shape, Goto, lockVars

DieView(p) ==
  /\ Live(p) /\ dead' = dead \union {p} /\ inside' = inside \ {p} /\ UNCHANGED owner
  /\ \/ UNCHANGED tmp
     \/ \E f \in Files : /\ f.data = Corrupt /\ tmp' = [tmp EXCEPT ![p] = f]
                         /\ pc[p] \in {"write", "demoteWrite"}
  /\ pc'[p] = "idle" /\ mem'[p] = Corrupt /\ todo'[p] = {} /\ mode'[p] = mode[p]
  /\ UNCHANGED <<base, committed, ruined>>

LEMMA DieIs == ASSUME Shape, NEW p \in Procs, Die(p) PROVE Shape' /\ DieView(p)
  <1>1. File(Corrupt) \in Files /\ File(Corrupt).data = Corrupt
    BY FilesAre DEF File, Shape
  <1>2. 0 \in Times /\ {} \in SUBSET Procs
    BY StoreAssumption DEF Times
  <1>3. tmp' = tmp \/ (pc[p] \in {"write", "demoteWrite"} /\ tmp' = [tmp EXCEPT ![p] = File(Corrupt)])
    BY DEF Die
  <1>4. tmp' \in [Procs -> Files \union {NoTmp}]
    BY <1>1, <1>3, ExceptType DEF Shape
  <1>5. pc' \in [Procs -> Labels] /\ pc'[p] = "idle"
    BY LabelNames, GotoIs DEF Die
  <1>6. /\ mem' \in [Procs -> Snapshots \union {Corrupt}] /\ mem'[p] = Corrupt
        /\ mtime' \in [Procs -> Times] /\ todo' \in [Procs -> SUBSET Procs] /\ todo'[p] = {}
    BY <1>2, ExceptType DEF Die, Shape
  <1> QED
    BY <1>1, <1>3, <1>4, <1>5, <1>6 DEF Die, DieView, Shape, Lock!Die, Live

(* The part of the state that only its own process changes. *)
Same(q) ==
  pc'[q] = pc[q] /\ mode'[q] = mode[q] /\ mem'[q] = mem[q] /\ todo'[q] = todo[q]

LEMMA Frame ==
  ASSUME Shape, NEW p \in Procs, Step(p) \/ Die(p) \/ (\E m \in Modes : Begin(p, m)),
         NEW q \in Procs \ {p}
  PROVE  Same(q)
  <1> USE DEF Shape, Same, Goto, Throw
  <1>1. CASE TakeLock(p) \/ ReclaimLock(p) \/ LockFails(p) \/ Unlock(p)
    BY <1>1 DEF TakeLock, ReclaimLock, LockFails, Unlock
  <1>2. CASE ReadRaw(p) \/ Salvage(p) \/ SalvageRename(p)
    BY <1>2 DEF ReadRaw, Salvage, SalvageRename
  <1>3. CASE Stat(p) \/ List(p) \/ Restat(p)
    BY <1>3 DEF Stat, List, Restat
  <1>4. CASE Scan(p)
    BY <1>4 DEF Scan, Promote
  <1>5. CASE Migrate(p) \/ Demote(p) \/ DemoteRename(p)
    BY <1>5 DEF Migrate, Demote, DemoteRename, ReadReturns
  <1>6. CASE Write(p) \/ DemoteWrite(p)
    BY <1>6 DEF Write, DemoteWrite, WriteTmp
  <1>7. CASE Mutate(p) \/ Rename(p)
    BY <1>7 DEF Mutate, Rename, Return
  <1>8. CASE Die(p)
    BY <1>8 DEF Die
  <1>9. ASSUME NEW m \in Modes, Begin(p, m) PROVE Same(q)
    BY <1>9 DEF Begin
  <1> QED
    BY <1>1, <1>2, <1>3, <1>4, <1>5, <1>6, <1>7, <1>8, <1>9 DEF Step

------------------------------------------------------------------------------
(* What holds of every use of state.json, with the lock or without it. *)

SafeInv(p) ==
  /\ pc[p] \in Reading \union {"salvageRename"} => mem[p] \in Snapshots
  /\ todo[p] \subseteq dead
  /\ p \in dead => pc[p] = "idle"
  /\ pc[p] \in {"rename", "demoteRename"} => tmp[p] # NoTmp /\ IsSnapshot(tmp[p])
  /\ pc[p] = "salvageRename" => \A q \in todo[p] : tmp[q] = NoTmp \/ IsSnapshot(tmp[q])

StoreInv == Shape /\ (\A p \in Procs : SafeInv(p)) /\ BaseNeverTorn

StepView(p) ==
  \/ TakeLockView(p) \/ (ReclaimLockView /\ Live(p)) \/ LockFailsView(p) \/ ReadRawView(p)
  \/ SalvageView(p) \/ SalvageRenameView(p) \/ StatView(p) \/ ListView(p) \/ ScanView(p)
  \/ MigrateView(p) \/ DemoteView(p) \/ WriteView(p) \/ DemoteRenameView(p) \/ MutateView(p)
  \/ RenameView(p) \/ UnlockView(p)

LEMMA StepIs ==
  ASSUME Shape, NEW p \in Procs, SafeInv(p), Step(p)
  PROVE  Shape' /\ StepView(p) /\ Live(p)
  <1>1. pc[p] \in {"migrate", "demote", "demoteRename", "mutate", "rename"} => mem[p] \in Snapshots
    BY DEF SafeInv, Reading
  <1>2. CASE TakeLock(p) \/ ReclaimLock(p) \/ LockFails(p) \/ Unlock(p)
    BY <1>2, TakeLockIs, ReclaimLockIs, LockFailsIs, UnlockIs
    DEF StepView, TakeLockView, ReclaimLock, LockFailsView, UnlockView
  <1>3. CASE ReadRaw(p) \/ Salvage(p) \/ SalvageRename(p)
    BY <1>3, ReadRawIs, SalvageIs, SalvageRenameIs
    DEF StepView, ReadRawView, SalvageView, SalvageRenameView
  <1>4. CASE Stat(p) \/ Restat(p) \/ List(p) \/ Scan(p)
    BY <1>4, StatIs, ListIs, ScanIs DEF StepView, StatView, ListView, ScanView
  <1>5. CASE Migrate(p)
    BY <1>1, <1>5, MigrateIs DEF StepView, Migrate
  <1>6. CASE Demote(p)
    BY <1>1, <1>6, DemoteIs DEF StepView, Demote
  <1>7. CASE Write(p) \/ DemoteWrite(p)
    BY <1>7, WriteIs DEF StepView, WriteView
  <1>8. CASE DemoteRename(p)
    BY <1>1, <1>8, DemoteRenameIs DEF StepView, DemoteRename
  <1>9. CASE Mutate(p)
    BY <1>1, <1>9, MutateIs DEF StepView, Mutate
  <1>10. CASE Rename(p)
    BY <1>1, <1>10, RenameIs DEF StepView, Rename
  <1> QED
    BY <1>2, <1>3, <1>4, <1>5, <1>6, <1>7, <1>8, <1>9, <1>10 DEF Step

(* No process touches the temporary file of another one that is alive. *)
LEMMA TmpStep ==
  ASSUME StoreInv, NEW p \in Procs, Step(p), NEW q \in Procs \ {p}
  PROVE  tmp'[q] = tmp[q] \/ (tmp'[q] = NoTmp /\ q \in dead)
  <1>1. Shape /\ StepView(p) /\ todo[p] \subseteq dead
    BY StepIs DEF StoreInv, SafeInv
  <1>2. CASE SalvageRenameView(p)
    BY <1>1, <1>2 DEF SalvageRenameView, Shape
  <1>3. CASE ScanView(p)
    BY <1>1, <1>3 DEF ScanView, Shape
  <1>4. CASE WriteView(p) \/ DemoteRenameView(p) \/ RenameView(p)
    BY <1>1, <1>4 DEF WriteView, DemoteRenameView, RenameView, RenameTmpView, Shape
  <1>5. CASE UNCHANGED tmp
    BY <1>5
  <1> QED
    BY <1>1, <1>2, <1>3, <1>4, <1>5
    DEF StepView, TakeLockView, ReclaimLockView, LockFailsView, ReadRawView, SalvageView, StatView,
        ListView, MigrateView, DemoteView, MutateView, UnlockView

LEMMA KeepSafe ==
  ASSUME NEW q, SafeInv(q), Same(q), dead \subseteq dead', q \in dead' => q \in dead,
         tmp'[q] = tmp[q] \/ (tmp'[q] = NoTmp /\ q \in dead),
         \A r \in todo[q] : tmp'[r] = tmp[r] \/ tmp'[r] = NoTmp
  PROVE  SafeInv(q)'
  BY DEF SafeInv, Same, IsSnapshot

LEMMA StepDead == ASSUME Shape, NEW p \in Procs, SafeInv(p), Step(p) PROVE dead' = dead
  BY StepIs DEF StepView, TakeLockView, ReclaimLockView, LockFailsView, ReadRawView, SalvageView,
     SalvageRenameView, StatView, ListView, ScanView, MigrateView, DemoteView, WriteView,
     DemoteRenameView, MutateView, RenameView, UnlockView, lockVars

LEMMA StepSafe ==
  ASSUME StoreInv, NEW p \in Procs, Step(p)
  PROVE  SafeInv(p)'
  <1>1. Shape /\ Shape' /\ SafeInv(p) /\ StepView(p) /\ Live(p) /\ dead' = dead
    BY StepIs, StepDead DEF StoreInv
  <1> USE DEF SafeInv, Live, Reading, IsSnapshot
  <1>2. CASE TakeLockView(p) \/ ReclaimLockView \/ LockFailsView(p) \/ UnlockView(p)
    BY <1>1, <1>2 DEF TakeLockView, ReclaimLockView, LockFailsView, UnlockView, ThrowView
  <1>3. CASE ReadRawView(p)
    <2>1. base.data \in Snapshots \union {Corrupt}
      BY <1>1, FilesAre DEF Shape
    <2> QED
      BY <1>1, <1>3, <2>1 DEF ReadRawView
  <1>4. CASE SalvageView(p)
    <2>1. \A q \in dead : tmp[q] # NoTmp => tmp[q].data \in Snapshots \union {Corrupt}
      BY <1>1, FilesAre DEF Shape
    <2> QED
      BY <1>1, <1>4, <2>1 DEF SalvageView, ThrowView
  <1>5. CASE SalvageRenameView(p)
    BY <1>1, <1>5 DEF SalvageRenameView, ThrowView
  <1>6. CASE StatView(p) \/ ListView(p)
    BY <1>1, <1>6 DEF StatView, ListView, DeadOrphans
  <1>7. CASE ScanView(p)
    <2>1. \A q \in todo[p] : tmp[q] # NoTmp => tmp[q].data \in Snapshots \union {Corrupt}
      BY <1>1, FilesAre DEF Shape
    <2> QED
      BY <1>1, <1>7, <2>1 DEF ScanView
  <1>8. CASE MigrateView(p) \/ DemoteView(p)
    BY <1>1, <1>8 DEF MigrateView, DemoteView, ReadReturnsView
  <1>9. CASE WriteView(p)
    <2>1. PICK f \in Files : f.data = mem[p] /\ tmp' = [tmp EXCEPT ![p] = f]
      BY <1>9 DEF WriteView
    <2>2. tmp'[p] = f /\ f # NoTmp /\ mem[p] # Corrupt
      BY <1>1, <1>9, <2>1, FilesAre, SnapshotsAre DEF Shape, WriteView
    <2> QED
      BY <1>1, <1>9, <2>1, <2>2 DEF WriteView
  <1>10. CASE DemoteRenameView(p) \/ MutateView(p) \/ RenameView(p)
    BY <1>1, <1>10 DEF DemoteRenameView, MutateView, RenameView, ReadReturnsView, ReturnView
  <1> QED
    BY <1>1, <1>2, <1>3, <1>4, <1>5, <1>6, <1>7, <1>8, <1>9, <1>10 DEF StepView

LEMMA StepNotTorn ==
  ASSUME StoreInv, NEW p \in Procs, Step(p)
  PROVE  BaseNeverTorn'
  <1>1. Shape /\ SafeInv(p) /\ StepView(p) /\ Live(p)
    BY StepIs DEF StoreInv
  <1>2. CASE SalvageRenameView(p)
    BY <1>1, <1>2 DEF SalvageRenameView, SafeInv, StoreInv, BaseNeverTorn, IsSnapshot
  <1>3. CASE ScanView(p)
    BY <1>1, <1>3 DEF ScanView, StoreInv, BaseNeverTorn, IsSnapshot
  <1>4. CASE MigrateView(p)
    BY <1>1, <1>4, SnapshotsAre DEF MigrateView, StoreInv, BaseNeverTorn
  <1>5. CASE DemoteRenameView(p) \/ RenameView(p)
    BY <1>1, <1>5
    DEF DemoteRenameView, RenameView, RenameTmpView, SafeInv, StoreInv, BaseNeverTorn, IsSnapshot
  <1>6. CASE UNCHANGED <<base, ruined>>
    BY <1>6 DEF StoreInv, BaseNeverTorn
  <1> QED
    BY <1>1, <1>2, <1>3, <1>4, <1>5, <1>6
    DEF StepView, TakeLockView, ReclaimLockView, LockFailsView, ReadRawView, SalvageView, StatView,
        ListView, WriteView, DemoteView, MutateView, UnlockView

LEMMA StepStore == ASSUME StoreInv, NEW p \in Procs, Step(p) PROVE StoreInv'
  <1>1. Shape' /\ SafeInv(p)' /\ BaseNeverTorn' /\ dead' = dead /\ Shape
    BY StepIs, StepDead, StepSafe, StepNotTorn DEF StoreInv
  <1>2. ASSUME NEW q \in Procs \ {p} PROVE SafeInv(q)'
    <2>1. SafeInv(q) /\ Same(q) /\ todo[q] \subseteq dead /\ p \notin dead
      BY <1>1, Frame, StepIs DEF StoreInv, SafeInv, Live
    <2>2. \A r \in todo[q] : r \in Procs \ {p}
      BY <1>1, <2>1 DEF Shape
    <2> QED
      BY <1>1, <1>2, <2>1, <2>2, TmpStep, KeepSafe
  <1> QED
    BY <1>1, <1>2 DEF StoreInv

LEMMA BeginStore == ASSUME StoreInv, NEW p \in Procs, NEW m \in Modes, Begin(p, m) PROVE StoreInv'
  <1>1. Shape /\ Shape' /\ BeginView(p, m)
    BY BeginIs DEF StoreInv
  <1>2. UNCHANGED <<base, tmp, dead, ruined>>
    BY <1>1 DEF BeginView, lockVars
  <1>3. SafeInv(p)'
    BY <1>1, <1>2 DEF BeginView, StoreInv, SafeInv, Reading, Live
  <1>4. ASSUME NEW q \in Procs \ {p} PROVE SafeInv(q)'
    BY <1>1, <1>2, Frame, KeepSafe DEF StoreInv
  <1> QED
    BY <1>1, <1>2, <1>3, <1>4 DEF StoreInv, BaseNeverTorn

LEMMA DieStore == ASSUME StoreInv, NEW p \in Procs, Die(p) PROVE StoreInv'
  <1>1. Shape /\ Shape' /\ DieView(p)
    BY DieIs DEF StoreInv
  <1>2. SafeInv(p)'
    BY <1>1 DEF DieView, SafeInv, Reading
  <1>3. ASSUME NEW q \in Procs \ {p} PROVE SafeInv(q)'
    <2>1. SafeInv(q) /\ Same(q) /\ p \notin dead
      BY <1>1, Frame DEF StoreInv, DieView, Live
    <2>2. \A r \in Procs \ {p} : tmp'[r] = tmp[r]
      BY <1>1 DEF DieView, Shape
    <2>3. \A r \in todo[q] : r \in Procs \ {p}
      BY <1>1, <2>1 DEF Shape, SafeInv
    <2> QED
      BY <1>1, <2>1, <2>2, <2>3, KeepSafe DEF DieView
  <1> QED
    BY <1>1, <1>2, <1>3 DEF StoreInv, BaseNeverTorn, DieView

LEMMA WorldStore == ASSUME StoreInv, Tick \/ Ruin \/ UNCHANGED vars PROVE StoreInv'
  <1>1. /\ UNCHANGED <<tmp, owner, inside, dead, pc, mode, mem, mtime, todo, committed>>
        /\ clock' \in Times /\ base' \in Files /\ ruined' \in BOOLEAN
        /\ \A q \in Procs : Same(q)
    <2>1. File(Corrupt) \in Files
      BY FilesAre DEF File, StoreInv, Shape
    <2>2. clock' \in Times
      BY StoreAssumption DEF Tick, Ruin, vars, StoreInv, Shape, Times
    <2> QED
      BY <2>1, <2>2 DEF Tick, Ruin, vars, lockVars, Same, StoreInv, Shape
  <1>2. Shape'
    BY <1>1 DEF StoreInv, Shape
  <1>3. \A q \in Procs : SafeInv(q)'
    BY <1>1, KeepSafe DEF StoreInv
  <1>4. BaseNeverTorn'
    BY DEF StoreInv, BaseNeverTorn, Tick, Ruin, vars
  <1> QED
    BY <1>2, <1>3, <1>4 DEF StoreInv

LEMMA InitStore == Init => StoreInv
  <1> SUFFICES ASSUME Init PROVE StoreInv
    OBVIOUS
  <1>1. base \in Files /\ base.data \in Snapshots
    BY StoreAssumption DEF Init, Files, Times
  <1>2. 0 \in Times /\ 0 \in 0..MaxOps /\ "read" \in Modes
    BY StoreAssumption DEF Times, Modes
  <1>3. Shape
    BY <1>1, <1>2, LabelNames DEF Init, Shape, Lock!Init
  <1>4. BaseNeverTorn
    BY <1>1, SnapshotsAre DEF BaseNeverTorn
  <1> QED
    BY <1>3, <1>4 DEF StoreInv, Init, SafeInv, Reading, Lock!Init

LEMMA NextStore == StoreInv /\ [Next]_vars => StoreInv'
  BY StepStore, BeginStore, DieStore, WorldStore DEF Next

(* Every variable has its type; what a call keeps in memory while it reads and
   writes is a snapshot that parsed. *)
THEOREM TypeCorrect == Spec => []TypeOK
  <1>1. StoreInv => TypeOK
    BY DEF StoreInv, Shape, SafeInv, TypeOK
  <1> QED
    BY <1>1, InitStore, NextStore, PTL DEF Spec

(* state.json is one complete snapshot unless something that is not the
   program ruins it. *)
THEOREM TornFilesStayOut == Spec => []BaseNeverTorn
  <1>1. StoreInv => BaseNeverTorn
    BY DEF StoreInv
  <1> QED
    BY <1>1, InitStore, NextStore, PTL DEF Spec

(* A live writer's temporary file is there when it renames it, whoever scans
   for orphans meanwhile. *)
THEOREM LiveTmpIsSkipped == Spec => []WriterFindsItsTmp
  <1>1. StoreInv => WriterFindsItsTmp
    BY DEF StoreInv, SafeInv, WriterFindsItsTmp
  <1> QED
    BY <1>1, InitStore, NextStore, PTL DEF Spec

------------------------------------------------------------------------------
(* As long as everyone takes the lock. *)

OnlyUpdates == Readers = {} /\ Forcers = {}

(* Whoever does anything with state.json is inside, and alone there. *)
HoldInv(p) ==
  /\ pc[p] \notin {"idle", "lock"} => p \in inside
  /\ pc[p] # "idle" => mode[p] = "update"
  /\ p \in inside => owner = p /\ p \notin dead

HoldsInv == StoreInv /\ \A p \in Procs : HoldInv(p)

LEMMA StepHolds ==
  ASSUME OnlyUpdates, HoldsInv, NEW p \in Procs, Step(p)
  PROVE  HoldsInv'
  <1>1. Shape /\ StoreInv' /\ StepView(p) /\ HoldInv(p) /\ Live(p) /\ dead' = dead /\ NoPid \notin Procs
    BY StepStore, StepIs, StepDead, NamesAssumption DEF HoldsInv, StoreInv
  <1>2. CASE TakeLockView(p)
    <2>1. HoldInv(p)'
      BY <1>1, <1>2 DEF TakeLockView, HoldInv, Live
    <2>2. ASSUME NEW q \in Procs \ {p} PROVE HoldInv(q)'
      BY <1>1, <1>2, Frame DEF TakeLockView, HoldInv, HoldsInv, Same
    <2> QED
      BY <1>1, <2>1, <2>2 DEF HoldsInv
  <1>3. CASE ReclaimLockView
    BY <1>1, <1>3 DEF ReclaimLockView, HoldInv, HoldsInv
  <1>4. CASE UnlockView(p)
    <2>1. HoldInv(p)'
      BY <1>1, <1>4 DEF UnlockView, HoldInv
    <2>2. ASSUME NEW q \in Procs \ {p} PROVE HoldInv(q)'
      BY <1>1, <1>4, Frame DEF UnlockView, HoldInv, HoldsInv, Same
    <2> QED
      BY <1>1, <2>1, <2>2 DEF HoldsInv
  <1>5. CASE UNCHANGED <<owner, inside>>
    <2>1. HoldInv(p)'
      BY <1>1, <1>5
      DEF HoldInv, StepView, TakeLockView, ReclaimLockView, LockFailsView, ReadRawView, SalvageView,
          SalvageRenameView, StatView, ListView, ScanView, MigrateView, DemoteView, WriteView,
          DemoteRenameView, MutateView, RenameView, UnlockView, ThrowView, ReturnView,
          ReadReturnsView
    <2>2. ASSUME NEW q \in Procs \ {p} PROVE HoldInv(q)'
      BY <1>1, <1>5, Frame DEF HoldInv, HoldsInv, Same
    <2> QED
      BY <1>1, <2>1, <2>2 DEF HoldsInv
  <1> QED
    BY <1>1, <1>2, <1>3, <1>4, <1>5
    DEF StepView, LockFailsView, ReadRawView, SalvageView, SalvageRenameView, StatView, ListView,
        ScanView, MigrateView, DemoteView, WriteView, DemoteRenameView, MutateView, RenameView,
        lockVars

(* What is not a step inside a call. *)
Around == (\E p \in Procs : Die(p) \/ \E m \in Modes : Begin(p, m)) \/ Tick \/ Ruin \/ UNCHANGED vars

LEMMA AroundStore == StoreInv /\ Around => StoreInv'
  BY BeginStore, DieStore, WorldStore DEF Around

LEMMA BeginHolds ==
  ASSUME OnlyUpdates, HoldsInv, NEW p \in Procs, NEW m \in Modes, Begin(p, m)
  PROVE  HoldsInv'
  <1>1. Shape /\ StoreInv' /\ BeginView(p, m) /\ UNCHANGED lockVars
    BY BeginStore, BeginIs DEF HoldsInv, StoreInv, BeginView
  <1>2. m = "update"
    BY <1>1 DEF BeginView, OnlyUpdates
  <1>3. HoldInv(p)'
    BY <1>1, <1>2 DEF BeginView, HoldsInv, HoldInv, lockVars
  <1>4. ASSUME NEW q \in Procs \ {p} PROVE HoldInv(q)'
    BY <1>1, Frame DEF HoldsInv, HoldInv, Same, lockVars
  <1> QED
    BY <1>1, <1>3, <1>4 DEF HoldsInv

LEMMA DieHolds == ASSUME HoldsInv, NEW p \in Procs, Die(p) PROVE HoldsInv'
  <1>1. Shape /\ StoreInv' /\ DieView(p)
    BY DieStore, DieIs DEF HoldsInv, StoreInv
  <1>2. HoldInv(p)'
    BY <1>1 DEF DieView, HoldInv
  <1>3. ASSUME NEW q \in Procs \ {p} PROVE HoldInv(q)'
    BY <1>1, Frame DEF HoldsInv, HoldInv, Same, DieView
  <1> QED
    BY <1>1, <1>2, <1>3 DEF HoldsInv

LEMMA WorldHolds == ASSUME HoldsInv, Tick \/ Ruin \/ UNCHANGED vars PROVE HoldsInv'
  BY WorldStore DEF HoldsInv, HoldInv, Tick, Ruin, vars, lockVars

(* Two calls are never inside together. *)
LEMMA Alone ==
  ASSUME HoldsInv, NEW p \in Procs, NEW q \in Procs, p # q,
         pc[p] \notin {"idle", "lock"}
  PROVE  pc[q] \in {"idle", "lock"}
  BY DEF HoldsInv, HoldInv

(* A call that is not inside changes nothing that counts. *)
LEMMA Bystander ==
  ASSUME HoldsInv, NEW p \in Procs, Step(p), pc[p] \in {"idle", "lock"}
  PROVE  /\ UNCHANGED <<base, tmp, committed, ruined, dead>>
         /\ mem'[p] = mem[p] /\ todo'[p] = todo[p]
         /\ pc'[p] \in {"idle", "lock", "raw", "unlock"}
  <1>1. StepView(p) /\ dead' = dead
    BY StepIs, StepDead DEF HoldsInv, StoreInv
  <1> QED
    BY <1>1
    DEF StepView, TakeLockView, ReclaimLockView, LockFailsView, ReadRawView, SalvageView,
        SalvageRenameView, StatView, ListView, ScanView, MigrateView, DemoteView, WriteView,
        DemoteRenameView, MutateView, RenameView, UnlockView, ThrowView

AfterScan == {"migrate", "demote", "demoteWrite", "demoteRename", "mutate", "write", "rename"}

(* The orphans: a call that has scanned has dealt with all there were, and the
   only temporary file left is its own. *)
OrphanInv(p) ==
  /\ Live(p) /\ pc[p] \notin {"rename", "demoteRename"} => tmp[p] = NoTmp
  /\ pc[p] \in AfterScan => \A q \in Procs \ {p} : tmp[q] = NoTmp
  /\ pc[p] \in {"scan", "restat"} => \A q \in Procs : tmp[q] # NoTmp => q \in todo[p]
  /\ pc[p] = "salvageRename" => \A q \in todo[p] : tmp[q] # NoTmp /\ mem[p] = tmp[q].data

OrphansInv == HoldsInv /\ \A p \in Procs : OrphanInv(p)

LEMMA OthersOrphans ==
  ASSUME OrphansInv, NEW p \in Procs, Step(p), NEW q \in Procs \ {p}
  PROVE  OrphanInv(q)'
  <1>1. Same(q) /\ dead' = dead /\ OrphanInv(q) /\ HoldsInv
    BY Frame, StepDead DEF OrphansInv, HoldsInv, StoreInv
  <1>2. CASE pc[q] \in {"idle", "lock"}
    <2>1. tmp'[q] = tmp[q] \/ tmp'[q] = NoTmp
      BY <1>1, TmpStep DEF HoldsInv
    <2> QED
      BY <1>1, <1>2, <2>1 DEF OrphanInv, Same, Live, AfterScan
  <1>3. CASE pc[q] \notin {"idle", "lock"}
    <2>1. UNCHANGED tmp
      BY <1>1, <1>3, Alone, Bystander
    <2> QED
      BY <1>1, <2>1 DEF OrphanInv, Same, Live
  <1> QED
    BY <1>2, <1>3

LEMMA StepOrphan ==
  ASSUME OrphansInv, NEW p \in Procs, Step(p)
  PROVE  OrphanInv(p)'
  <1>1. Shape /\ SafeInv(p) /\ StepView(p) /\ Live(p) /\ dead' = dead /\ OrphanInv(p) /\ HoldInv(p)
    BY StepIs, StepDead DEF OrphansInv, HoldsInv, StoreInv
  <1> USE DEF AfterScan
  <1>2. CASE TakeLockView(p) \/ ReclaimLockView \/ LockFailsView(p) \/ UnlockView(p)
    BY <1>1, <1>2
    DEF OrphanInv, Live, TakeLockView, ReclaimLockView, LockFailsView, UnlockView, ThrowView
  <1>3. CASE ReadRawView(p) \/ SalvageView(p)
    BY <1>1, <1>3 DEF OrphanInv, Live, ReadRawView, SalvageView, ThrowView
  <1>4. CASE SalvageRenameView(p)
    <2>1. \A q \in todo[p] : q # p
      BY <1>1 DEF SafeInv, Live
    <2> QED
      BY <1>1, <1>4, <2>1 DEF OrphanInv, Live, SalvageRenameView, ThrowView, Shape
  <1>5. CASE StatView(p)
    BY <1>1, <1>5 DEF OrphanInv, Live, StatView
  <1>6. CASE ListView(p)
    <2>1. \A q \in Procs \ {p} : pc[q] \in {"idle", "lock"}
      BY <1>1, <1>6, Alone DEF OrphansInv, ListView
    <2>2. \A q \in Procs : tmp[q] # NoTmp => q \in DeadOrphans
      BY <1>1, <1>6, <2>1 DEF OrphansInv, OrphanInv, Live, ListView, DeadOrphans
    <2> QED
      BY <1>1, <1>6, <2>2 DEF OrphanInv, Live, ListView
  <1>7. CASE ScanView(p)
    BY <1>1, <1>7 DEF OrphanInv, Live, ScanView, Shape, SafeInv
  <1>8. CASE MigrateView(p) \/ DemoteView(p) \/ MutateView(p)
    BY <1>1, <1>8
    DEF OrphanInv, Live, MigrateView, DemoteView, MutateView, ReadReturnsView, ReturnView
  <1>9. CASE WriteView(p)
    BY <1>1, <1>9 DEF OrphanInv, Live, WriteView, Shape
  <1>10. CASE DemoteRenameView(p) \/ RenameView(p)
    BY <1>1, <1>10
    DEF OrphanInv, Live, DemoteRenameView, RenameView, RenameTmpView, ReadReturnsView, ReturnView,
        Shape
  <1> QED
    BY <1>1, <1>2, <1>3, <1>4, <1>5, <1>6, <1>7, <1>8, <1>9, <1>10 DEF StepView

LEMMA DieOrphans ==
  ASSUME OrphansInv, NEW p \in Procs, Die(p), NEW q \in Procs
  PROVE  OrphanInv(q)'
  <1>1. Shape /\ DieView(p) /\ HoldsInv /\ OrphanInv(q)
    BY DieIs DEF OrphansInv, HoldsInv, StoreInv
  <1>2. CASE q = p
    BY <1>1, <1>2 DEF DieView, OrphanInv, Live, AfterScan
  <1>3. CASE q # p
    <2>1. Same(q) /\ tmp'[q] = tmp[q] /\ (q \in dead' <=> q \in dead)
      BY <1>1, <1>3, Frame DEF DieView, Shape
    <2>2. pc[q] \notin {"idle", "lock"} => pc[p] \in {"idle", "lock"}
      BY <1>1, <1>3, Alone
    <2>3. pc[q] \notin {"idle", "lock"} => UNCHANGED tmp
      BY <1>1, <2>2 DEF DieView
    <2> QED
      BY <1>1, <2>1, <2>3 DEF OrphanInv, Same, Live, AfterScan
  <1> QED
    BY <1>2, <1>3

LEMMA BeginOrphans ==
  ASSUME OrphansInv, NEW p \in Procs, NEW m \in Modes, Begin(p, m), NEW q \in Procs
  PROVE  OrphanInv(q)'
  <1>1. Shape /\ BeginView(p, m) /\ OrphanInv(q)
    BY BeginIs DEF OrphansInv, HoldsInv, StoreInv
  <1>2. CASE q = p
    BY <1>1, <1>2 DEF BeginView, OrphanInv, Live, AfterScan, lockVars
  <1>3. CASE q # p
    BY <1>1, <1>3, Frame DEF BeginView, OrphanInv, Live, Same, lockVars
  <1> QED
    BY <1>2, <1>3

LEMMA WorldOrphans ==
  ASSUME OrphansInv, Tick \/ Ruin \/ UNCHANGED vars, NEW q \in Procs
  PROVE  OrphanInv(q)'
  BY DEF OrphansInv, OrphanInv, Live, Tick, Ruin, vars, lockVars

LEMMA StepOrphans == ASSUME OnlyUpdates, OrphansInv, NEW p \in Procs, Step(p) PROVE OrphansInv'
  BY StepHolds, StepOrphan, OthersOrphans DEF OrphansInv

LEMMA AroundOrphans == ASSUME OnlyUpdates, OrphansInv, Around PROVE OrphansInv'
  <1>1. HoldsInv'
    BY BeginHolds, DieHolds, WorldHolds DEF OrphansInv, Around
  <1>2. ASSUME NEW q \in Procs PROVE OrphanInv(q)'
    BY BeginOrphans, DieOrphans, WorldOrphans DEF Around
  <1> QED
    BY <1>1, <1>2 DEF OrphansInv

------------------------------------------------------------------------------
(* What the snapshots contain. *)

(* Everything published, and of the living nothing else. *)
Fits(s, published, gone) ==
  \A x \in Procs : s.done[x] >= published[x] /\ (x \notin gone => s.done[x] = published[x])

(* ... and one mutation of p that is on its way. *)
FitsBut(p, s, published, gone) ==
  /\ s.done[p] = published[p] + 1
  /\ \A x \in Procs \ {p} :
       s.done[x] >= published[x] /\ (x \notin gone => s.done[x] = published[x])

Good(s) == Fits(s, committed, dead)
GoodBut(p, s) == FitsBut(p, s, committed, dead)

(* The session that a recovery must leave alone. *)
OwnerLives(s) == s.active /\ s.pid \in Procs \ dead

DataInv(p) ==
  /\ tmp[p] # NoTmp /\ IsSnapshot(tmp[p]) /\ pc[p] # "rename" => Good(tmp[p].data)
  /\ pc[p] \in Reading \ {"write", "rename"} => Good(mem[p])
  /\ pc[p] \in {"write", "rename"} => GoodBut(p, mem[p])
  /\ pc[p] \in {"rename", "demoteRename"} => tmp[p].data = mem[p]
  /\ pc[p] \in {"stat", "list", "scan", "restat", "migrate", "demote", "mutate"}
       => base.data = Corrupt \/ mem[p] = base.data
  /\ pc[p] \in {"demoteWrite", "demoteRename"}
       => base.data = Corrupt \/ ~OwnerLives(base.data)

BaseIsGood == base.data = Corrupt \/ Good(base.data)

StateInv == OrphansInv /\ BaseIsGood /\ \A p \in Procs : DataInv(p)

LEMMA FitsMore ==
  ASSUME NEW s, NEW c, NEW d, NEW e, d \subseteq e
  PROVE  /\ Fits(s, c, d) => Fits(s, c, e)
         /\ \A p \in Procs : FitsBut(p, s, c, d) => FitsBut(p, s, c, e)
  BY DEF Fits, FitsBut

LEMMA FitsSame ==
  ASSUME NEW s, NEW t, NEW c, NEW d, s.done = t.done, Fits(s, c, d)
  PROVE  Fits(t, c, d)
  BY DEF Fits

LEMMA FitsMutated ==
  ASSUME NEW p \in Procs, NEW s, NEW t, NEW c \in [Procs -> 0..MaxOps], NEW d, p \notin d, Fits(s, c, d),
         t.done[p] = s.done[p] + 1, \A x \in Procs \ {p} : t.done[x] = s.done[x]
  PROVE  FitsBut(p, t, c, d)
  BY DEF Fits, FitsBut

LEMMA FitsPublished ==
  ASSUME NEW p \in Procs, NEW s, NEW c \in [Procs -> 0..MaxOps], NEW d, FitsBut(p, s, c, d)
  PROVE  Fits(s, [c EXCEPT ![p] = s.done[p]], d)
  BY StoreAssumption DEF Fits, FitsBut

LEMMA FitsKilled ==
  ASSUME NEW p \in Procs, NEW s, NEW c \in [Procs -> 0..MaxOps], NEW d, FitsBut(p, s, c, d)
  PROVE  Fits(s, c, d \union {p})
  BY StoreAssumption DEF Fits, FitsBut

LEMMA RecoveryKeepsDone ==
  ASSUME NEW s \in Snapshots
  PROVE  /\ [s EXCEPT !.legacy = FALSE].done = s.done
         /\ [s EXCEPT !.active = FALSE].done = s.done
         /\ [s EXCEPT !.active = FALSE, !.demoted = TRUE].done = s.done
  BY DEF Snapshots

LEMMA OthersData ==
  ASSUME StateInv, NEW p \in Procs, Step(p), NEW q \in Procs \ {p}
  PROVE  DataInv(q)'
  <1>1. /\ Same(q) /\ dead' = dead /\ DataInv(q) /\ HoldsInv /\ StoreInv /\ Shape
        /\ StepView(p) /\ OrphanInv(p)
    BY Frame, StepDead, StepIs DEF StateInv, OrphansInv, HoldsInv, StoreInv
  <1>2. CASE pc[q] \in {"idle", "lock"}
    <2>1. tmp'[q] = tmp[q] \/ tmp'[q] = NoTmp
      BY <1>1, TmpStep
    <2>2. tmp'[q] = NoTmp \/ committed' = committed
      <3>1. CASE RenameView(p)
        BY <1>1, <2>1, <3>1 DEF RenameView, OrphanInv, AfterScan
      <3>2. CASE ~RenameView(p)
        BY <1>1, <3>2
        DEF StepView, TakeLockView, ReclaimLockView, LockFailsView, ReadRawView, SalvageView,
            SalvageRenameView, StatView, ListView, ScanView, MigrateView, DemoteView, WriteView,
            DemoteRenameView, MutateView, UnlockView
      <3> QED
        BY <3>1, <3>2
    <2> QED
      BY <1>1, <1>2, <2>1, <2>2 DEF DataInv, Same, Good, IsSnapshot, Reading
  <1>3. CASE pc[q] \notin {"idle", "lock"}
    <2>1. UNCHANGED <<tmp, base, committed>>
      BY <1>1, <1>3, Alone, Bystander
    <2> QED
      BY <1>1, <2>1 DEF DataInv, Same, Good, GoodBut, IsSnapshot, OwnerLives
  <1> QED
    BY <1>2, <1>3

LEMMA StepData ==
  ASSUME StateInv, NEW p \in Procs, Step(p)
  PROVE  DataInv(p)' /\ BaseIsGood'
  <1>1. /\ Shape /\ SafeInv(p) /\ StepView(p) /\ Live(p) /\ p \notin dead /\ dead' = dead
        /\ OrphanInv(p) /\ HoldInv(p) /\ DataInv(p) /\ BaseIsGood
    BY StepIs, StepDead DEF StateInv, OrphansInv, HoldsInv, StoreInv, Live
  <1>2. \A q \in dead : tmp[q] # NoTmp /\ IsSnapshot(tmp[q]) => Good(tmp[q].data)
    BY <1>1 DEF StateInv, DataInv, OrphansInv, HoldsInv, StoreInv, SafeInv, Shape
  <1>3. \A q \in todo[p] : q \in dead
    BY <1>1 DEF SafeInv
  <1> USE DEF Reading
  <1>4. CASE TakeLockView(p) \/ ReclaimLockView \/ LockFailsView(p) \/ UnlockView(p)
    BY <1>1, <1>4
    DEF DataInv, BaseIsGood, Good, GoodBut, IsSnapshot, OwnerLives, TakeLockView, ReclaimLockView,
        LockFailsView, UnlockView, ThrowView
  <1>5. CASE ReadRawView(p)
    BY <1>1, <1>5 DEF DataInv, BaseIsGood, Good, IsSnapshot, ReadRawView
  <1>6. CASE SalvageView(p)
    BY <1>1, <1>6 DEF DataInv, BaseIsGood, Good, IsSnapshot, SalvageView, ThrowView
  <1>7. CASE SalvageRenameView(p)
    <2>1. PICK q \in todo[p] :
            /\ tmp[q] # NoTmp /\ base' = tmp[q] /\ tmp' = [tmp EXCEPT ![q] = NoTmp]
            /\ pc'[p] = "stat" /\ mem'[p] = mem[p] /\ mem[p] = tmp[q].data
      BY <1>1, <1>7 DEF SalvageRenameView, OrphanInv
    <2>2. q \in dead /\ q # p /\ IsSnapshot(tmp[q])
      BY <1>1, <1>3, <1>7, <2>1 DEF SafeInv, SalvageRenameView
    <2>3. Good(tmp[q].data)
      BY <1>2, <2>1, <2>2
    <2>4. tmp'[p] = tmp[p] /\ committed' = committed
      BY <1>1, <1>7, <2>1, <2>2 DEF Shape, SalvageRenameView
    <2> QED
      BY <1>1, <1>7, <2>1, <2>3, <2>4 DEF DataInv, BaseIsGood, Good, SalvageRenameView, IsSnapshot
  <1>8. CASE StatView(p) \/ ListView(p)
    BY <1>1, <1>8 DEF DataInv, BaseIsGood, Good, IsSnapshot, StatView, ListView
  <1>9. CASE ScanView(p)
    <2>1. tmp'[p] = tmp[p]
      BY <1>1, <1>3, <1>9 DEF ScanView, Shape
    <2>2. CASE \E q \in todo[p] : /\ tmp[q] # NoTmp /\ IsSnapshot(tmp[q]) /\ base' = tmp[q]
                                  /\ mem'[p] = tmp[q].data /\ pc'[p] = "restat"
      BY <1>1, <1>2, <1>3, <1>9, <2>1, <2>2 DEF DataInv, BaseIsGood, Good, ScanView, IsSnapshot
    <2>3. CASE mem'[p] = mem[p] /\ UNCHANGED base /\ pc'[p] \in {"scan", "migrate"}
      BY <1>1, <1>9, <2>1, <2>3 DEF DataInv, BaseIsGood, Good, ScanView, IsSnapshot
    <2> QED
      BY <1>9, <2>2, <2>3 DEF ScanView
  <1>10. CASE MigrateView(p)
    <2>1. Good(mem[p]) /\ mem[p] \in Snapshots
      BY <1>1, <1>10 DEF MigrateView, DataInv, SafeInv
    <2>2. mem'[p].done = mem[p].done
      BY <1>10, <2>1, RecoveryKeepsDone DEF MigrateView
    <2>3. Good(mem'[p])
      BY <2>1, <2>2, FitsSame DEF Good
    <2> QED
      BY <1>1, <1>10, <2>1, <2>3 DEF DataInv, BaseIsGood, Good, MigrateView, IsSnapshot
  <1>11. CASE DemoteView(p)
    <2>1. Good(mem[p]) /\ mem[p] \in Snapshots /\ NoPid \notin Procs
      BY <1>1, <1>11, NamesAssumption DEF DemoteView, DataInv, SafeInv
    <2>2. CASE pc'[p] = "demoteWrite"
      <3>1. mem'[p].done = mem[p].done /\ ~OwnerLives(mem[p])
        BY <1>1, <1>11, <2>1, <2>2, RecoveryKeepsDone
        DEF DemoteView, ReadReturnsView, OwnerLives, OwnerDead, Unclaimed
      <3>2. Good(mem'[p])
        BY <2>1, <3>1, FitsSame DEF Good
      <3> QED
        BY <1>1, <1>11, <2>2, <3>1, <3>2
        DEF DataInv, BaseIsGood, Good, DemoteView, IsSnapshot, OwnerLives
    <2>3. CASE ReadReturnsView(p, mem[p])
      BY <1>1, <1>11, <2>1, <2>3 DEF DataInv, BaseIsGood, Good, DemoteView, IsSnapshot, ReadReturnsView
    <2> QED
      BY <1>11, <2>2, <2>3 DEF DemoteView
  <1>12. CASE WriteView(p)
    <2>1. tmp'[p].data = mem[p]
      BY <1>1, <1>12 DEF WriteView, Shape
    <2> QED
      BY <1>1, <1>12, <2>1 DEF DataInv, BaseIsGood, Good, GoodBut, WriteView, IsSnapshot, OwnerLives
  <1>13. CASE DemoteRenameView(p)
    <2>1. tmp'[p] = NoTmp /\ base' = tmp[p] /\ base'.data = mem[p] /\ Good(mem[p])
      BY <1>1, <1>13 DEF DemoteRenameView, RenameTmpView, Shape, SafeInv, DataInv
    <2> QED
      BY <1>1, <1>13, <2>1 DEF DataInv, BaseIsGood, Good, DemoteRenameView, ReadReturnsView, IsSnapshot
  <1>14. CASE MutateView(p)
    <2>1. Good(mem[p]) /\ committed \in [Procs -> 0..MaxOps] /\ p \in inside
      BY <1>1, <1>14 DEF MutateView, DataInv, Shape, HoldInv
    <2>2. CASE pc'[p] = "write"
      <3>1. GoodBut(p, mem'[p])
        BY <1>1, <1>14, <2>1, <2>2, FitsMutated DEF MutateView, Good, GoodBut, ReturnView
      <3> QED
        BY <1>1, <1>14, <2>2, <3>1 DEF DataInv, BaseIsGood, Good, GoodBut, MutateView, IsSnapshot
    <2>3. CASE ReturnView(p)
      BY <1>1, <1>14, <2>1, <2>3 DEF DataInv, BaseIsGood, Good, MutateView, ReturnView, IsSnapshot
    <2> QED
      BY <1>14, <2>2, <2>3 DEF MutateView
  <1>15. CASE RenameView(p)
    <2>1. /\ GoodBut(p, mem[p]) /\ committed \in [Procs -> 0..MaxOps] /\ p \in inside
          /\ tmp[p] # NoTmp /\ tmp[p].data = mem[p]
      BY <1>1, <1>15 DEF RenameView, DataInv, Shape, HoldInv, SafeInv
    <2>2. /\ tmp'[p] = NoTmp /\ base' = tmp[p] /\ pc'[p] = "unlock"
          /\ committed' = [committed EXCEPT ![p] = mem[p].done[p]]
      BY <1>1, <1>15, <2>1 DEF RenameView, RenameTmpView, ReturnView, Shape
    <2>3. Fits(mem[p], committed', dead')
      BY <1>1, <2>1, <2>2, FitsPublished DEF GoodBut
    <2> QED
      BY <1>1, <2>1, <2>2, <2>3 DEF DataInv, BaseIsGood, Good
  <1> QED
    BY <1>1, <1>4, <1>5, <1>6, <1>7, <1>8, <1>9, <1>10, <1>11, <1>12, <1>13, <1>14, <1>15
    DEF StepView

LEMMA StepState == ASSUME OnlyUpdates, StateInv, NEW p \in Procs, Step(p) PROVE StateInv'
  <1>1. OrphansInv'
    BY StepOrphans DEF StateInv
  <1> QED
    BY <1>1, StepData, OthersData DEF StateInv

LEMMA DieData ==
  ASSUME StateInv, NEW p \in Procs, Die(p)
  PROVE  BaseIsGood' /\ \A q \in Procs : DataInv(q)'
  <1>1. Shape /\ DieView(p) /\ BaseIsGood /\ dead \subseteq dead' /\ committed \in [Procs -> 0..MaxOps]
    BY DieIs DEF StateInv, OrphansInv, HoldsInv, StoreInv, Shape, DieView
  <1>2. BaseIsGood'
    BY <1>1, FitsMore DEF DieView, BaseIsGood, Good
  <1>3. DataInv(p)'
    <2>1. DataInv(p)
      BY DEF StateInv
    <2>2. tmp'[p] = tmp[p] \/ ~IsSnapshot(tmp'[p])
      BY <1>1 DEF DieView, Shape, IsSnapshot
    <2>3. tmp[p] # NoTmp /\ IsSnapshot(tmp[p]) => Fits(tmp[p].data, committed, dead')
      BY <1>1, <2>1, FitsMore, FitsKilled DEF DataInv, Good, GoodBut, DieView
    <2> QED
      BY <1>1, <2>2, <2>3 DEF DieView, DataInv, Good, IsSnapshot, Reading
  <1>4. ASSUME NEW q \in Procs \ {p} PROVE DataInv(q)'
    <2>1. Same(q) /\ tmp'[q] = tmp[q] /\ DataInv(q)
      BY <1>1, Frame DEF DieView, Shape, StateInv
    <2> QED
      BY <1>1, <2>1, FitsMore DEF DieView, DataInv, Good, GoodBut, IsSnapshot, Same, OwnerLives
  <1> QED
    BY <1>2, <1>3, <1>4

LEMMA BeginData ==
  ASSUME StateInv, NEW p \in Procs, NEW m \in Modes, Begin(p, m)
  PROVE  BaseIsGood' /\ \A q \in Procs : DataInv(q)'
  <1>1. Shape /\ BeginView(p, m) /\ UNCHANGED <<base, tmp, dead, committed>>
    BY BeginIs DEF StateInv, OrphansInv, HoldsInv, StoreInv, BeginView, lockVars
  <1>2. BaseIsGood'
    BY <1>1 DEF StateInv, BaseIsGood, Good
  <1>3. DataInv(p)'
    BY <1>1 DEF BeginView, StateInv, DataInv, Good, IsSnapshot, Reading
  <1>4. ASSUME NEW q \in Procs \ {p} PROVE DataInv(q)'
    BY <1>1, Frame DEF StateInv, DataInv, Good, GoodBut, IsSnapshot, Same, OwnerLives
  <1> QED
    BY <1>2, <1>3, <1>4

LEMMA WorldData ==
  ASSUME StateInv, Tick \/ Ruin \/ UNCHANGED vars
  PROVE  BaseIsGood' /\ \A q \in Procs : DataInv(q)'
  <1>1. /\ UNCHANGED <<tmp, pc, mem, committed, dead>>
        /\ base' = base \/ base'.data = Corrupt
    BY FilesAre DEF Tick, Ruin, vars, lockVars, File
  <1> QED
    BY <1>1 DEF StateInv, BaseIsGood, DataInv, Good, GoodBut, IsSnapshot, OwnerLives

LEMMA AroundState == ASSUME OnlyUpdates, StateInv, Around PROVE StateInv'
  <1>1. OrphansInv'
    BY AroundOrphans DEF StateInv
  <1> QED
    BY <1>1, DieData, BeginData, WorldData DEF StateInv, Around

LEMMA NextState == OnlyUpdates /\ StateInv /\ [Next]_vars => StateInv'
  BY StepState, AroundState DEF Next, Around

LEMMA InitState == Init => StateInv
  <1> SUFFICES ASSUME Init PROVE StateInv
    OBVIOUS
  <1>1. StoreInv
    BY InitStore
  <1>2. \A p \in Procs : base.data.done[p] = 0 /\ committed[p] = 0
    BY StoreAssumption DEF Init
  <1> QED
    BY <1>1, <1>2
    DEF Init, StateInv, OrphansInv, HoldsInv, HoldInv, OrphanInv, DataInv, BaseIsGood, Good, Fits,
        Lock!Init, AfterScan, Reading

(* The locks are worth having: while everyone goes through update(), no
   published mutation is ever lost and none is applied twice, whoever is killed
   and whatever the recovery finds. *)
THEOREM UpdatesAreNotLost == ASSUME OnlyUpdates PROVE Spec => []NoLostUpdate
  <1>1. StateInv => NoLostUpdate
    BY DEF StateInv, BaseIsGood, Good, Fits, NoLostUpdate, Live
  <1> QED
    BY <1>1, InitState, NextState, PTL DEF Spec

(* The mutator of update() gets what is on disk: no promotion, migration or
   demotion comes between the two. *)
THEOREM MutatorIsUpToDate == ASSUME OnlyUpdates PROVE Spec => []MutatorSeesBase
  <1>1. StateInv => MutatorSeesBase
    BY DEF StateInv, DataInv, MutatorSeesBase
  <1> QED
    BY <1>1, InitState, NextState, PTL DEF Spec

(* The write that marks a session inactive never meets one whose owner lives. *)
THEOREM LivingOwnersAreLeftAlone == ASSUME OnlyUpdates PROVE Spec => DemotesOnlyDeadOwners
  <1> DEFINE Leaves ==
        \A p \in Procs :
          pc[p] = "demoteRename" /\ pc'[p] # "demoteRename" /\ Live(p)' /\ base.data # Corrupt
            => ~(base.data.active /\ base.data.pid \in Procs \ dead)
  <1>1. StateInv => Leaves
    BY DEF StateInv, DataInv, OwnerLives
  <1>2. Spec => []StateInv
    BY InitState, NextState, PTL DEF Spec
  <1>3. [][Leaves]_vars <=> DemotesOnlyDeadOwners
    BY DEF DemotesOnlyDeadOwners
  <1> QED
    BY <1>1, <1>2, <1>3, PTL
==============================================================================

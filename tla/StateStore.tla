----------------------------- MODULE StateStore ------------------------------
(***************************************************************************)
(* state.json as services/state-manager.ts keeps it: one base file that is *)
(* replaced by writing a temporary file and renaming it, the temporary     *)
(* files that dead writers leave behind, and the recovery that every       *)
(* StateManager.read runs on them: promotion of a newer orphan, reaping of *)
(* the others, migration of an old schema, and demotion of a session whose *)
(* owner is dead.                                                          *)
(*                                                                         *)
(* update() does all this holding the lock of module Mutex (which LockFile *)
(* implements).  read() does it without, and so does forceWriteMutate when *)
(* it falls back.  Every action is one file-system call, probe or          *)
(* in-memory step; a process may be killed between two of them.            *)
(*                                                                         *)
(* A snapshot is reduced to what the protocol looks at: the owner pid, the *)
(* active flag, the iteration, the schema, the demotion marker, and how    *)
(* many mutations of each process it contains.  The phantom and the        *)
(* paused-orphan demotions differ only in when they apply, which depends   *)
(* on ages and on the sessions map; both are a choice here.  Pids are not  *)
(* reused.                                                                 *)
(***************************************************************************)
EXTENDS Integers, FiniteSets

CONSTANTS
  Procs,     \* processes that use state.json
  NoPid,     \* the pid of an unclaimed session, and nobody's lock
  NoTmp,     \* a process that has no temporary file
  Corrupt,   \* a file that does not parse as a snapshot
  Updaters,  \* processes that call update()
  Readers,   \* processes that call read() without the lock
  Forcers,   \* processes that call forceWriteMutate()
  InitBases, \* snapshots state.json may hold at first
  MaxOps,    \* bound of the model: mutations made by each process
  MaxIter,   \* bound of the model: iterations
  MaxClock,  \* bound of the model: distinct modification times
  MaxDeaths, \* bound of the model: processes that may be killed
  MayCorrupt \* may something outside the program ruin state.json, once?

Snapshots == [pid : Procs \union {NoPid}, active : BOOLEAN, iteration : 0..MaxIter,
              legacy : BOOLEAN, demoted : BOOLEAN, done : [Procs -> 0..MaxOps]]
Times == 0..MaxClock

ASSUME NamesAssumption ==
  /\ NoPid \notin Procs
  /\ NoTmp \notin [data : Snapshots \union {Corrupt}, mtime : Times]
  /\ Corrupt \notin Snapshots
ASSUME StoreAssumption ==
  /\ Updaters \subseteq Procs /\ Readers \subseteq Procs /\ Forcers \subseteq Procs
  /\ InitBases \subseteq Snapshots
  /\ \A s \in InitBases : \A p \in Procs : s.done[p] = 0
  /\ MaxOps \in Nat /\ MaxIter \in Nat /\ MaxClock \in Nat /\ MaxDeaths \in Nat
  /\ MayCorrupt \in BOOLEAN

(* A file: what it holds and when it was written; rename keeps the time. *)
Files == [data : Snapshots \union {Corrupt}, mtime : Times]

VARIABLES
  base,       \* state.json
  tmp,        \* state.json.tmp.<pid>.*: each process writes one at a time
  owner, inside, dead,  \* the lock on state.json, see Mutex
  pc,         \* where each process is
  mode,       \* the call it is making; "fallback": forceWriteMutate, second half
  mem,        \* the snapshot it has in memory
  mtime,      \* currentMtimeMs, as recoverOrphanTmpFiles knows it
  todo,       \* the orphans it has listed and not handled yet
  clock,      \* the file system's time
  committed,  \* history: locked mutations whose write has been published
  ruined      \* history: state.json has been ruined from outside

lockVars == <<owner, inside, dead>>
vars == <<base, tmp, owner, inside, dead, pc, mode, mem, mtime, todo, clock,
          committed, ruined>>

Lock == INSTANCE Mutex WITH Nobody <- NoPid

Labels == {"idle", "lock", "raw", "salvage", "salvageRename", "stat", "list", "scan",
           "restat", "migrate", "demote", "demoteWrite", "demoteRename", "mutate",
           "write", "rename", "unlock"}
Modes == {"update", "read", "force", "fallback"}

(* Where a call has a snapshot in memory that it parsed. *)
Reading == {"stat", "list", "scan", "restat", "migrate", "demote", "demoteWrite",
            "demoteRename", "mutate", "write", "rename"}

TypeOK ==
  /\ base \in Files
  /\ tmp \in [Procs -> Files \union {NoTmp}]
  /\ owner \in Procs \union {NoPid} /\ inside \subseteq Procs /\ dead \subseteq Procs
  /\ pc \in [Procs -> Labels]
  /\ mode \in [Procs -> Modes]
  /\ mem \in [Procs -> Snapshots \union {Corrupt}]
  /\ \A p \in Procs : pc[p] \in Reading => mem[p] \in Snapshots
  /\ mtime \in [Procs -> Times]
  /\ todo \in [Procs -> SUBSET Procs]
  /\ clock \in Times
  /\ committed \in [Procs -> 0..MaxOps]
  /\ ruined \in BOOLEAN

Init ==
  /\ base \in [data : InitBases, mtime : {0}]
  /\ tmp = [p \in Procs |-> NoTmp]
  /\ Lock!Init
  /\ pc = [p \in Procs |-> "idle"]
  /\ mode = [p \in Procs |-> "read"]
  /\ mem = [p \in Procs |-> Corrupt]
  /\ mtime = [p \in Procs |-> 0]
  /\ todo = [p \in Procs |-> {}]
  /\ clock = 0
  /\ committed = [p \in Procs |-> 0]
  /\ ruined = FALSE

------------------------------------------------------------------------------
(* Helpers. *)

Live(p) == p \notin dead
Goto(p, label) == pc' = [pc EXCEPT ![p] = label]
Locked(p) == p \in inside
File(data) == [data |-> data, mtime |-> clock]

(* isStateSnapshotNewer: the iteration decides, the time breaks a tie, and a
   tie in both goes to the candidate. *)
Newer(state, time, file) ==
  \/ file.data.iteration > state.iteration
  \/ file.data.iteration = state.iteration /\ file.mtime >= time

(* The other way round, and by time alone. *)
OlderWins(state, time, file) == ~Newer(state, time, file)

(* Whatever parses is a snapshot. *)
AnythingIsSnapshot(file) == TRUE

(* classifyOrphanTmp: only a file that parses as a snapshot is one. *)
IsSnapshot(file) == file.data # Corrupt

(* Every temporary file, its writer dead or not; and only the complete ones. *)
AnyTmp == {q \in Procs : tmp[q] # NoTmp}
CompleteOrphans == {q \in dead : tmp[q] # NoTmp /\ IsSnapshot(tmp[q])}

(* listDeadOrphanTmpPaths: temporary files whose writer is provably dead. *)
DeadOrphans == {q \in dead : tmp[q] # NoTmp}

(* A call that is over gives up the lock it holds. *)
Return(p) == Goto(p, IF Locked(p) THEN "unlock" ELSE "idle") /\ UNCHANGED mode

(* A call that throws does too; forceWriteMutate then tries once more, without
   the lock. *)
Throw(p) ==
  /\ Goto(p, IF Locked(p) THEN "unlock" ELSE IF mode[p] = "force" THEN "raw" ELSE "idle")
  /\ mode' = [mode EXCEPT ![p] = IF @ = "force" THEN "fallback" ELSE @]

------------------------------------------------------------------------------
(* Entering a call. *)

Begin(p, m) ==
  /\ Live(p) /\ pc[p] = "idle"
  /\ \/ m = "update" /\ p \in Updaters
     \/ m = "read" /\ p \in Readers
     \/ m = "force" /\ p \in Forcers
  /\ mode' = [mode EXCEPT ![p] = m]
  /\ Goto(p, IF m = "read" THEN "raw" ELSE "lock")
  /\ UNCHANGED <<base, tmp, lockVars, mem, mtime, todo, clock, committed, ruined>>

(* acquireLock, as Mutex promises it. *)
TakeLock(p) ==
  /\ Live(p) /\ pc[p] = "lock"
  /\ Lock!Enter(p)
  /\ Goto(p, "raw")
  /\ UNCHANGED <<base, tmp, mode, mem, mtime, todo, clock, committed, ruined>>

ReclaimLock(p) ==
  /\ Live(p) /\ pc[p] = "lock"
  /\ Lock!Reclaim
  /\ UNCHANGED <<base, tmp, pc, mode, mem, mtime, todo, clock, committed, ruined>>

(* LockError ignored: the call goes on without the lock. *)
LockFailsAnyway(p) ==
  /\ Live(p) /\ pc[p] = "lock" /\ owner # NoPid
  /\ Goto(p, "raw")
  /\ UNCHANGED <<base, tmp, lockVars, mode, mem, mtime, todo, clock, committed, ruined>>

(* LockError: another process has held the lock for all the retries. *)
LockFails(p) ==
  /\ Live(p) /\ pc[p] = "lock" /\ owner # NoPid
  /\ Throw(p)
  /\ UNCHANGED <<base, tmp, lockVars, mem, mtime, todo, clock, committed, ruined>>

------------------------------------------------------------------------------
(* StateManager.read. *)

(* readRawStateFile, parseStateOrRecover *)
ReadRaw(p) ==
  /\ Live(p) /\ pc[p] = "raw"
  /\ mem' = [mem EXCEPT ![p] = base.data]
  /\ Goto(p, IF IsSnapshot(base) THEN "stat" ELSE "salvage")
  /\ UNCHANGED <<base, tmp, lockVars, mode, mtime, todo, clock, committed, ruined>>

(* recoverFromOrphanTmpWhenBaseCorrupt: the newest orphan is to take the
   place of the ruined base; with no orphan the call throws CORRUPT.  (The
   forceWriteMutate callers modelled are those without a fallback seed.) *)
Salvage(p) ==
  /\ Live(p) /\ pc[p] = "salvage"
  /\ LET candidates == {q \in DeadOrphans : IsSnapshot(tmp[q])}
     IN \/ \E q \in candidates :
             /\ \A r \in candidates : Newer(tmp[r].data, tmp[r].mtime, tmp[q])
             /\ todo' = [todo EXCEPT ![p] = {q}]
             /\ mem' = [mem EXCEPT ![p] = tmp[q].data]
             /\ Goto(p, "salvageRename")
             /\ UNCHANGED mode
        \/ /\ candidates = {}
           /\ Throw(p)
           /\ UNCHANGED <<mem, todo>>
  /\ UNCHANGED <<base, tmp, lockVars, mtime, clock, committed, ruined>>

(* ... unless it is gone by now, which is CORRUPT too. *)
SalvageRename(p) ==
  /\ Live(p) /\ pc[p] = "salvageRename"
  /\ \E q \in todo[p] :
       \/ /\ tmp[q] # NoTmp
          /\ base' = tmp[q]
          /\ tmp' = [tmp EXCEPT ![q] = NoTmp]
          /\ Goto(p, "stat")
          /\ UNCHANGED <<mode, mem>>
       \/ /\ tmp[q] = NoTmp
          /\ Throw(p)
          /\ mem' = [mem EXCEPT ![p] = Corrupt]
          /\ UNCHANGED <<base, tmp>>
  /\ todo' = [todo EXCEPT ![p] = {}]
  /\ UNCHANGED <<lockVars, mtime, clock, committed, ruined>>

(* recoverOrphanTmpFiles: readMtimeMs of the base, a call of its own ... *)
Stat(p) ==
  /\ Live(p) /\ pc[p] = "stat"
  /\ mtime' = [mtime EXCEPT ![p] = base.mtime]
  /\ Goto(p, "list")
  /\ UNCHANGED <<base, tmp, lockVars, mode, mem, todo, clock, committed, ruined>>

(* ... the listing ... *)
List(p) ==
  /\ Live(p) /\ pc[p] = "list"
  /\ todo' = [todo EXCEPT ![p] = DeadOrphans]
  /\ Goto(p, "scan")
  /\ UNCHANGED <<base, tmp, lockVars, mode, mem, mtime, clock, committed, ruined>>

(* ... then, in directory order, each orphan is promoted when it is newer
   than the snapshot in memory, and deleted otherwise.  One that has vanished
   cannot be read and is left alone.  (First, a promotion that leaves the
   snapshot in memory as it was.) *)
PromoteFileOnly(p, q) ==
  /\ base' = tmp[q]
  /\ tmp' = [tmp EXCEPT ![q] = NoTmp]
  /\ Goto(p, "restat")
  /\ UNCHANGED mem

(* adoptPromotedSnapshot replaces what is in memory. *)
Promote(p, q) ==
  /\ base' = tmp[q]
  /\ mem' = [mem EXCEPT ![p] = tmp[q].data]
  /\ tmp' = [tmp EXCEPT ![q] = NoTmp]
  /\ Goto(p, "restat")

Reap(q) == tmp' = [tmp EXCEPT ![q] = NoTmp]

Scan(p) ==
  /\ Live(p) /\ pc[p] = "scan"
  /\ \/ \E q \in todo[p] :
          /\ todo' = [todo EXCEPT ![p] = @ \ {q}]
          /\ UNCHANGED mtime
          /\ \/ tmp[q] = NoTmp /\ UNCHANGED <<base, tmp, mem, pc>>
             \/ /\ tmp[q] # NoTmp /\ ~IsSnapshot(tmp[q])
                /\ Reap(q) /\ UNCHANGED <<base, mem, pc>>
             \/ /\ tmp[q] # NoTmp /\ IsSnapshot(tmp[q])
                /\ ~Newer(mem[p], mtime[p], tmp[q])
                /\ Reap(q) /\ UNCHANGED <<base, mem, pc>>
             \/ /\ tmp[q] # NoTmp /\ IsSnapshot(tmp[q])
                /\ Newer(mem[p], mtime[p], tmp[q])
                /\ Promote(p, q)
     \/ /\ todo[p] = {}
        /\ Goto(p, "migrate")
        /\ mtime' = [mtime EXCEPT ![p] = 0]   \* not used any more
        /\ UNCHANGED <<base, tmp, mem, todo>>
  /\ UNCHANGED <<lockVars, mode, clock, committed, ruined>>

Restat(p) ==
  /\ Live(p) /\ pc[p] = "restat"
  /\ mtime' = [mtime EXCEPT ![p] = base.mtime]
  /\ Goto(p, "scan")
  /\ UNCHANGED <<base, tmp, lockVars, mode, mem, todo, clock, committed, ruined>>

(* migrateSchema: an old schema is brought up to date and written back (from
   a file that is no orphan candidate, so the rename is all one sees). *)
Migrate(p) ==
  /\ Live(p) /\ pc[p] = "migrate"
  /\ \/ /\ mem[p].legacy
        /\ mem' = [mem EXCEPT ![p].legacy = FALSE]
        /\ base' = File(mem'[p])
     \/ ~mem[p].legacy /\ UNCHANGED <<base, mem>>
  /\ Goto(p, "demote")
  /\ UNCHANGED <<tmp, lockVars, mode, mtime, todo, clock, committed, ruined>>

(* The owner's liveness not asked. *)
OwnerKnown(state) == state.active /\ state.pid # NoPid

(* recoverStaleActiveFlag: what the snapshot in memory allows. *)
OwnerDead(state) == state.active /\ state.pid \in dead
Unclaimed(state) == state.active /\ state.pid = NoPid /\ ~state.demoted

(* What follows read(): the mutator, or the caller, which keeps nothing the
   model needs. *)
ReadReturns(p, state) ==
  \/ /\ mode[p] = "read"
     /\ Goto(p, "idle")
     /\ mem' = [mem EXCEPT ![p] = Corrupt]
  \/ /\ mode[p] # "read"
     /\ Goto(p, "mutate")
     /\ mem' = [mem EXCEPT ![p] = state]

Demote(p) ==
  /\ Live(p) /\ pc[p] = "demote"
  /\ \/ /\ OwnerDead(mem[p])
        /\ mem' = [mem EXCEPT ![p].active = FALSE]
        /\ Goto(p, "demoteWrite")
     \/ /\ Unclaimed(mem[p])
        /\ mem' = [mem EXCEPT ![p].active = FALSE, ![p].demoted = TRUE]
        /\ Goto(p, "demoteWrite")
     \/ /\ ~OwnerDead(mem[p])
        /\ ReadReturns(p, mem[p])
  /\ UNCHANGED <<base, tmp, lockVars, mode, mtime, todo, clock, committed, ruined>>

------------------------------------------------------------------------------
(* writeStateFile: write the temporary file, rename it. *)

WriteTmp(p, from, to) ==
  /\ Live(p) /\ pc[p] = from
  /\ tmp' = [tmp EXCEPT ![p] = File(mem[p])]
  /\ Goto(p, to)
  /\ UNCHANGED <<base, lockVars, mode, mem, mtime, todo, clock, committed, ruined>>

DemoteWrite(p) == WriteTmp(p, "demoteWrite", "demoteRename")
Write(p) == WriteTmp(p, "write", "rename")

(* A rename whose source has gone fails, and the write with it. *)
RenameTmp(p) ==
  /\ base' = IF tmp[p] = NoTmp THEN base ELSE tmp[p]
  /\ tmp' = [tmp EXCEPT ![p] = NoTmp]

(* persistDemotionBestEffort *)
DemoteRename(p) ==
  /\ Live(p) /\ pc[p] = "demoteRename"
  /\ RenameTmp(p)
  /\ ReadReturns(p, mem[p])
  /\ UNCHANGED <<lockVars, mode, mtime, todo, clock, committed, ruined>>

(* The mutator of update or forceWriteMutate: a runner claims the session,
   advances or resets its iteration, or ends it. *)
Mutate(p) ==
  /\ Live(p) /\ pc[p] = "mutate"
  /\ \/ /\ mem[p].done[p] < MaxOps
        /\ \E s \in {[mem[p] EXCEPT !.pid = p, !.active = TRUE],
                     [mem[p] EXCEPT !.iteration = @ + 1],
                     [mem[p] EXCEPT !.iteration = 0],
                     [mem[p] EXCEPT !.active = FALSE]} :
             /\ s.iteration <= MaxIter
             /\ mem' = [mem EXCEPT ![p] = [s EXCEPT !.done[p] = @ + 1]]
        /\ Goto(p, "write")
        /\ UNCHANGED mode
     \/ /\ mem[p].done[p] = MaxOps
        /\ Return(p)
        /\ mem' = [mem EXCEPT ![p] = Corrupt]
  /\ UNCHANGED <<base, tmp, lockVars, mtime, todo, clock, committed, ruined>>

Rename(p) ==
  /\ Live(p) /\ pc[p] = "rename"
  /\ RenameTmp(p)
  /\ committed' = IF Locked(p) /\ tmp[p] # NoTmp
                    THEN [committed EXCEPT ![p] = mem[p].done[p]] ELSE committed
  /\ mem' = [mem EXCEPT ![p] = Corrupt]
  /\ Return(p)
  /\ UNCHANGED <<lockVars, mtime, todo, clock, ruined>>

Unlock(p) ==
  /\ Live(p) /\ pc[p] = "unlock"
  /\ Lock!Leave(p)
  /\ Goto(p, IF mode[p] = "fallback" THEN "raw" ELSE "idle")
  /\ UNCHANGED <<base, tmp, mode, mem, mtime, todo, clock, committed, ruined>>

------------------------------------------------------------------------------
(* The world outside. *)

(* A kill leaves the temporary file as it was; a writeFileSync it interrupts
   leaves part of one. *)
Die(p) ==
  /\ Cardinality(dead) < MaxDeaths
  /\ Lock!Die(p)
  /\ \/ UNCHANGED tmp
     \/ /\ pc[p] \in {"write", "demoteWrite"}
        /\ tmp' = [tmp EXCEPT ![p] = File(Corrupt)]
  /\ Goto(p, "idle")
  /\ mem' = [mem EXCEPT ![p] = Corrupt]
  /\ mtime' = [mtime EXCEPT ![p] = 0]
  /\ todo' = [todo EXCEPT ![p] = {}]
  /\ UNCHANGED <<base, mode, clock, committed, ruined>>

Tick ==
  /\ clock < MaxClock
  /\ clock' = clock + 1
  /\ UNCHANGED <<base, tmp, lockVars, pc, mode, mem, mtime, todo, committed, ruined>>

(* state.json is truncated or edited by something that is not the program. *)
Ruin ==
  /\ MayCorrupt /\ ~ruined
  /\ ruined' = TRUE
  /\ base' = File(Corrupt)
  /\ UNCHANGED <<tmp, lockVars, pc, mode, mem, mtime, todo, clock, committed>>

Step(p) ==
  \/ TakeLock(p) \/ ReclaimLock(p) \/ LockFails(p) \/ ReadRaw(p) \/ Salvage(p)
  \/ SalvageRename(p) \/ Stat(p) \/ List(p) \/ Scan(p) \/ Restat(p) \/ Migrate(p) \/ Demote(p)
  \/ DemoteWrite(p) \/ DemoteRename(p) \/ Mutate(p) \/ Write(p) \/ Rename(p)
  \/ Unlock(p)

Next ==
  \/ \E p \in Procs : Step(p) \/ Die(p) \/ \E m \in Modes : Begin(p, m)
  \/ Tick \/ Ruin

Spec == Init /\ [][Next]_vars

(* A call that has begun keeps running: StateManager is synchronous code. *)
FairSpec == Spec /\ \A p \in Procs : WF_vars(Step(p))

------------------------------------------------------------------------------
(* Properties. *)

(* update: a locked mutation that has been published is in state.json ever
   after, and a live process finds none of its own there twice or before its
   write returned: the lost update the locks exist to prevent, and crash
   recovery applying a dead writer's file at most once. *)
NoLostUpdate ==
  base.data # Corrupt =>
    \A p \in Procs : /\ base.data.done[p] >= committed[p]
                     /\ Live(p) => base.data.done[p] = committed[p]

(* Whatever is killed, read or recovered, state.json is always one complete
   snapshot: a torn temporary file is never promoted. *)
BaseNeverTorn == base.data = Corrupt => ruined

(* update's mutator receives exactly what state.json holds, after all the
   recovery read() has done: what a promotion dropped is not written back. *)
MutatorSeesBase ==
  \A p \in Procs :
    pc[p] = "mutate" /\ Locked(p) /\ base.data # Corrupt => mem[p] = base.data

(* shouldSkipLiveTmp: only its writer touches a live writer's temporary file,
   so a rename never finds its source gone. *)
WriterFindsItsTmp ==
  \A p \in Procs : pc[p] \in {"rename", "demoteRename"} => tmp[p] # NoTmp

(* demoteDeadProcessSession: the session that a recovery write marks inactive
   is, at that moment, one whose owner is not alive. *)
DemotesOnlyDeadOwners ==
  [][\A p \in Procs :
       pc[p] = "demoteRename" /\ pc'[p] # "demoteRename" /\ Live(p)' /\ base.data # Corrupt
         => ~(base.data.active /\ base.data.pid \in Procs \ dead)]_vars

(* A dead writer's file does not outlive the reads that find it. *)
OrphansAreReaped ==
  []<>(\E p \in Procs : pc[p] = "list")
    => \A q \in Procs : (q \in dead /\ tmp[q] # NoTmp) ~> tmp[q] = NoTmp
==============================================================================

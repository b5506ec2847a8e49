----------------------------- MODULE Transaction -----------------------------
(***************************************************************************)
(* StateManager.transaction (services/state-manager.ts): lock several      *)
(* state files in sorted order, read them, mutate the snapshots, write     *)
(* them one after the other, and write the old contents back when one of   *)
(* the writes fails.                                                       *)
(*                                                                         *)
(* The locks are abstract, one for every file, and keep the promise of     *)
(* module Mutex (one holder at a time; a holder that dies loses its lock   *)
(* to whoever tries next); one read or                                     *)
(* write of a file is one step, module StateStore being about what happens *)
(* inside it.  A snapshot is the set of callers whose mutation it contains *)
(* and its schema version.  A reader may change what it has parsed, a      *)
(* newer release (it supports version 1 where this one supports 0) to      *)
(* migrate it, any release to demote a session whose runner is gone, and   *)
(* writes it back later, all of it without the lock.  Each process makes   *)
(* one call.                                                               *)
(***************************************************************************)
EXTENDS Integers, Sequences, FiniteSets, SequencesExt

CONSTANTS
  Procs,     \* callers
  NoPid,     \* nobody's lock
  Paths,     \* state files: natural numbers, in the order of their names
  Requests,  \* the path lists a caller may pass
  MaxMishaps \* bound of the model: writes that fail, callers that are killed
             \* and unlocked readers that write back, taken together

ASSUME TransactionAssumption ==
  /\ NoPid \notin Procs
  /\ Paths \subseteq Nat /\ IsFiniteSet(Paths)
  /\ Requests \subseteq Seq(Paths) \ {<<>>}
  /\ MaxMishaps \in Nat

Contents == [by : SUBSET Procs, schema : {0, 1}]
Snapshots == [path : Paths, by : SUBSET Procs, schema : {0, 1}]

VARIABLES
  file,     \* the state files
  owner,    \* the locks: who holds each of them
  dead,     \* callers that have been killed
  pc,       \* where each caller is
  paths,    \* sorted
  k,        \* how many of them it has dealt with in the current loop
  written,  \* how many of them it has written
  held,     \* how many locks it has acquired, in the order of sorted
  mem,      \* states
  backup,   \* originals
  outcome,  \* how its call ended
  parsed,   \* what unlocked readers hold, to be written back
  reverted, \* history: files that one of them has put back to what they held
            \* when it parsed them
  mishaps   \* how many of the mishaps of MaxMishaps have happened

local == <<paths, held, written, mem, backup>>
readers == <<parsed, reverted>>
vars == <<file, owner, dead, pc, k, local, outcome, readers, mishaps>>

Labels == {"idle", "lock", "read", "mutate", "backup", "check", "write", "rollback",
           "release", "done"}
Outcomes == {"none", "ok", "LockError", "SCHEMA_MISMATCH", "SchemaVersionMismatchError",
             "TransactionError", "TransactionError, not rolled back"}

TypeOK ==
  /\ file \in [Paths -> Contents]
  /\ owner \in [Paths -> Procs \union {NoPid}]
  /\ dead \subseteq Procs
  /\ pc \in [Procs -> Labels]
  /\ \A p \in Procs :
       /\ pc[p] # "idle" => \E r \in Requests : Len(paths[p]) = Len(r) /\ ToSet(paths[p]) = ToSet(r)
       /\ k[p] \in 0..Len(paths[p])
       /\ written[p] \in 0..held[p] /\ held[p] \in 0..Len(paths[p])
       /\ mem[p] \in Seq(Contents) /\ Len(mem[p]) <= held[p]
       /\ backup[p] \in Seq(Contents) /\ Len(backup[p]) <= Len(mem[p])
  /\ outcome \in [Procs -> Outcomes]
  /\ parsed \subseteq Snapshots /\ reverted \subseteq Paths
  /\ mishaps \in 0..MaxMishaps

Init ==
  /\ file = [x \in Paths |-> [by |-> {}, schema |-> 0]]
  /\ owner = [x \in Paths |-> NoPid]
  /\ dead = {}
  /\ pc = [p \in Procs |-> "idle"]
  /\ paths = [p \in Procs |-> <<>>]
  /\ k = [p \in Procs |-> 0]
  /\ held = [p \in Procs |-> 0]
  /\ written = [p \in Procs |-> 0]
  /\ mem = [p \in Procs |-> <<>>]
  /\ backup = [p \in Procs |-> <<>>]
  /\ outcome = [p \in Procs |-> "none"]
  /\ parsed = {} /\ reverted = {}
  /\ mishaps = 0

------------------------------------------------------------------------------
(* Helpers. *)

Live(p) == p \notin dead
At(p, label) == Live(p) /\ pc[p] = label
AllDone(p) == k[p] = Len(paths[p])
Current(p) == paths[p][k[p] + 1]

(* One of the mishaps the model allows. *)
Mishap == mishaps < MaxMishaps /\ mishaps' = mishaps + 1

(* The next file of the loop, another loop, or the end of the call. *)
Continue(p) == k' = [k EXCEPT ![p] = @ + 1] /\ UNCHANGED <<pc, outcome>>
Proceed(p, label) ==
  /\ pc' = [pc EXCEPT ![p] = label]
  /\ k' = [k EXCEPT ![p] = 0]
  /\ UNCHANGED outcome
Finish(p, result) ==
  /\ pc' = [pc EXCEPT ![p] = "release"]
  /\ k' = [k EXCEPT ![p] = 0]
  /\ outcome' = [outcome EXCEPT ![p] = result]

(* The caller's order, and each path once. *)
AsGiven(request) == {request}
SortedOnce(request) == {SetToSortSeq(ToSet(request), <)}

(* sorted: the paths of the list, as often as it names them, in ascending
   order.  There is one such list. *)
Sorted(request) ==
  {list \in [DOMAIN request -> ToSet(request)] :
     /\ ToBag(list) = ToBag(request)
     /\ \A i, j \in DOMAIN list : i < j => list[i] <= list[j]}

------------------------------------------------------------------------------
(* transaction *)

Begin(p) ==
  /\ At(p, "idle")
  /\ \E request \in Requests : \E sorted \in Sorted(request) :
       paths' = [paths EXCEPT ![p] = sorted]
  /\ Proceed(p, "lock")
  /\ UNCHANGED <<file, owner, dead, held, written, mem, backup, readers, mishaps>>

(* The locks acquired so far forgotten by the LockError. *)
AcquireAndForget(p) ==
  /\ At(p, "lock")
  /\ \/ /\ ~AllDone(p)
        /\ owner[Current(p)] \in dead \union {NoPid}
        /\ owner' = [owner EXCEPT ![Current(p)] = p]
        /\ held' = [held EXCEPT ![p] = @ + 1]
        /\ Continue(p)
     \/ /\ ~AllDone(p)
        /\ owner[Current(p)] \notin dead \union {NoPid}
        /\ Finish(p, "LockError")
        /\ held' = [held EXCEPT ![p] = 0]
        /\ UNCHANGED owner
     \/ AllDone(p) /\ Proceed(p, "read") /\ UNCHANGED <<owner, held>>
  /\ UNCHANGED <<file, dead, paths, written, mem, backup, readers, mishaps>>

(* acquireAllLocks: each lock as Mutex promises it.  A lock that a live
   process keeps, the caller itself included, ends in a LockError. *)
Acquire(p) ==
  /\ At(p, "lock")
  /\ \/ /\ ~AllDone(p)
        /\ owner[Current(p)] \in dead \union {NoPid}
        /\ owner' = [owner EXCEPT ![Current(p)] = p]
        /\ held' = [held EXCEPT ![p] = @ + 1]
        /\ Continue(p)
     \/ /\ ~AllDone(p)
        /\ owner[Current(p)] \notin dead \union {NoPid}
        /\ Finish(p, "LockError")
        /\ UNCHANGED <<owner, held>>
     \/ /\ AllDone(p)
        /\ Proceed(p, "read")
        /\ UNCHANGED <<owner, held>>
  /\ UNCHANGED <<file, dead, paths, written, mem, backup, readers, mishaps>>

(* read, which refuses a schema of a newer release *)
Read(p) ==
  /\ At(p, "read")
  /\ \/ /\ ~AllDone(p) /\ file[Current(p)].schema = 0
        /\ mem' = [mem EXCEPT ![p] = Append(@, file[Current(p)])]
        /\ Continue(p)
     \/ /\ ~AllDone(p) /\ file[Current(p)].schema = 1
        /\ Finish(p, "SCHEMA_MISMATCH")
        /\ UNCHANGED mem
     \/ AllDone(p) /\ Proceed(p, "mutate") /\ UNCHANGED mem
  /\ UNCHANGED <<file, owner, dead, paths, held, written, backup, readers, mishaps>>

Mutate(p) ==
  /\ At(p, "mutate")
  /\ mem' = [mem EXCEPT ![p] = [i \in DOMAIN @ |->
                                   [by |-> @[i].by \union {p}, schema |-> @[i].schema]]]
  /\ Proceed(p, "backup")
  /\ UNCHANGED <<file, owner, dead, paths, held, written, backup, readers, mishaps>>

(* writeAllWithRollback: the originals are read from the files again. *)
Backup(p) ==
  /\ At(p, "backup")
  /\ \/ /\ ~AllDone(p)
        /\ backup' = [backup EXCEPT ![p] = Append(@, file[Current(p)])]
        /\ Continue(p)
     \/ AllDone(p) /\ Proceed(p, "check") /\ UNCHANGED backup
  /\ UNCHANGED <<file, owner, dead, paths, held, written, mem, readers, mishaps>>

(* assertOnDiskSchemaNotNewer: its error is thrown as it is, whatever has been
   written already. *)
Check(p) ==
  /\ At(p, "check")
  /\ \/ /\ file[Current(p)].schema <= mem[p][k[p] + 1].schema
        /\ pc' = [pc EXCEPT ![p] = "write"]
        /\ UNCHANGED <<k, outcome>>
     \/ /\ file[Current(p)].schema > mem[p][k[p] + 1].schema
        /\ Finish(p, "SchemaVersionMismatchError")
  /\ UNCHANGED <<file, owner, dead, local, readers, mishaps>>

(* writeStateFile of the next file: it is written, the last one ends the
   call, or ... *)
WriteNext(p) ==
  /\ file' = [file EXCEPT ![Current(p)] = mem[p][k[p] + 1]]
  /\ written' = [written EXCEPT ![p] = @ + 1]
  /\ IF k[p] + 1 < Len(paths[p])
       THEN k' = [k EXCEPT ![p] = @ + 1] /\ pc' = [pc EXCEPT ![p] = "check"] /\ UNCHANGED outcome
       ELSE Finish(p, "ok")
  /\ UNCHANGED mishaps

(* ... the write fails, and the call with it ... *)
WriteOrGiveUp(p) ==
  /\ At(p, "write")
  /\ \/ WriteNext(p)
     \/ /\ Mishap
        /\ Finish(p, "TransactionError")
        /\ UNCHANGED <<file, written>>
  /\ UNCHANGED <<owner, dead, paths, held, mem, backup, readers>>

(* ... after what has been written is undone. *)
Write(p) ==
  /\ At(p, "write")
  /\ \/ WriteNext(p)
     \/ /\ Mishap
        /\ Proceed(p, "rollback")
        /\ UNCHANGED <<file, written>>
  /\ UNCHANGED <<owner, dead, paths, held, mem, backup, readers>>

(* What it has written is removed, not put back. *)
RemoveWritten(p) ==
  /\ At(p, "rollback")
  /\ \/ /\ k[p] < written[p]
        /\ k' = [k EXCEPT ![p] = @ + 1]
        /\ file' = [file EXCEPT ![Current(p)] = [by |-> {}, schema |-> 0]]
        /\ UNCHANGED <<mishaps, outcome, pc>>
     \/ /\ k[p] = written[p]
        /\ Finish(p, "TransactionError")
        /\ UNCHANGED <<file, mishaps>>
  /\ UNCHANGED <<owner, dead, local, readers>>

(* The rollback: each file written gets its original back, or that fails too
   and is noted. *)
Rollback(p) ==
  /\ At(p, "rollback")
  /\ \/ /\ k[p] < written[p]
        /\ k' = [k EXCEPT ![p] = @ + 1]
        /\ \/ /\ file' = [file EXCEPT ![Current(p)] = backup[p][k[p] + 1]]
              /\ UNCHANGED <<mishaps, outcome>>
           \/ /\ Mishap
              /\ outcome' = [outcome EXCEPT ![p] = "TransactionError, not rolled back"]
              /\ UNCHANGED file
        /\ UNCHANGED pc
     \/ /\ k[p] = written[p]
        /\ Finish(p, IF outcome[p] = "none" THEN "TransactionError" ELSE outcome[p])
        /\ UNCHANGED <<file, mishaps>>
  /\ UNCHANGED <<owner, dead, local, readers>>

(* The locks acquired are released, in order, however the call ends. *)
Release(p) ==
  /\ At(p, "release")
  /\ \/ /\ k[p] < held[p]
        /\ owner' = [owner EXCEPT ![Current(p)] = NoPid]
        /\ k' = [k EXCEPT ![p] = @ + 1]
        /\ UNCHANGED pc
     \/ /\ k[p] = held[p]
        /\ pc' = [pc EXCEPT ![p] = "done"]
        /\ UNCHANGED <<owner, k>>
  /\ UNCHANGED <<file, dead, local, outcome, readers, mishaps>>

------------------------------------------------------------------------------
(* The world outside. *)

(* A reader without the lock parses a file that it is to migrate or to demote
   ... *)
Parse(x) ==
  /\ Mishap
  /\ \E schema \in file[x].schema..1 :
       parsed' = parsed \union {[path |-> x, by |-> file[x].by, schema |-> schema]}
  /\ UNCHANGED <<file, owner, dead, pc, k, local, outcome, reverted>>

(* ... and writes all of it back, whatever has become of the file. *)
WriteBack(snapshot) ==
  /\ snapshot \in parsed
  /\ parsed' = parsed \ {snapshot}
  /\ file' = [file EXCEPT ![snapshot.path] = [by |-> snapshot.by, schema |-> snapshot.schema]]
  /\ reverted' = IF snapshot.by = file[snapshot.path].by THEN reverted
                 ELSE reverted \union {snapshot.path}
  /\ UNCHANGED <<owner, dead, pc, k, local, outcome, mishaps>>

Die(p) ==
  /\ Live(p) /\ pc[p] \notin {"idle", "done"}
  /\ Mishap
  /\ dead' = dead \union {p}
  /\ UNCHANGED <<file, owner, pc, k, local, outcome, readers>>

Step(p) ==
  Begin(p) \/ Acquire(p) \/ Read(p) \/ Mutate(p) \/ Backup(p) \/ Check(p) \/ Write(p)
  \/ Rollback(p) \/ Release(p)

Next ==
  \/ \E p \in Procs : Step(p) \/ Die(p)
  \/ \E x \in Paths : Parse(x)
  \/ \E snapshot \in parsed : WriteBack(snapshot)

Spec == Init /\ [][Next]_vars

------------------------------------------------------------------------------
(* Properties. *)

(* What anyone who takes the locks will see of a file: while a call is being
   written or undone, what the file held when the call began. *)
Writing(x) == {p \in Procs : Live(p) /\ pc[p] \in {"check", "write", "rollback"} /\ x \in ToSet(paths[p])}
Visible(x) ==
  IF Writing(x) = {} THEN file[x].by
  ELSE LET p == CHOOSE q \in Writing(x) : TRUE
       IN backup[p][CHOOSE i \in DOMAIN paths[p] : paths[p][i] = x].by
Ended(p) == outcome[p] # "none" /\ pc[p] \in {"release", "done"}
Verdict(p) ==
  CASE outcome[p] = "ok" -> "committed"
    [] Ended(p) /\ outcome[p] \in {"LockError", "SCHEMA_MISMATCH", "TransactionError"} -> "aborted"
    [] Ended(p) /\ outcome[p] \notin {"ok", "LockError", "SCHEMA_MISMATCH", "TransactionError"} -> "torn"
    [] ~Ended(p) -> IF p \in dead THEN "torn" ELSE "none"

(* transaction: whatever the other callers do, whichever write fails and
   whoever is killed, a call changes all its files at once or none, for those
   who take the locks; only the calls AtomicCommit excepts leave a part, and
   only a file that an unlocked reader has put back is lost to it. *)
Atomic == INSTANCE AtomicCommit
  WITH content <- [x \in Paths |-> IF x \in reverted THEN {} ELSE Visible(x)],
       astray <- reverted,
       asked <- [p \in Procs |-> ToSet(paths[p])],
       outcome <- [p \in Procs |-> Verdict(p)]
CommitsAtomically == Atomic!Spec

(* acquireAllLocks, "consistent order prevents cross-tx deadlock": no callers
   wait for each other in a circle. *)
Waits(p, q) == At(p, "lock") /\ ~AllDone(p) /\ Live(q) /\ owner[Current(p)] = q
NoCircularWait ==
  \A S \in SUBSET Procs : S # {} => \E p \in S : \A q \in S \ {p} : ~Waits(p, q)

(* A call that has returned holds no lock, also one whose path list names a
   file twice, and also when it took some locks over from the dead. *)
ReturnsUnlocked == \A p \in Procs : At(p, "done") => \A x \in Paths : owner[x] # p

(* writeAllWithRollback: a call that fails leaves nothing behind, in its files
   or, through the files of others, anywhere else, unless an unlocked reader
   puts it back there. *)
RolledBack ==
  \A p \in Procs : Live(p) /\ outcome[p] \in {"LockError", "SCHEMA_MISMATCH", "TransactionError"}
    => \A x \in Paths \ reverted : p \notin file[x].by

(* The same of a call refused because a schema has advanced. *)
RefusalRolledBack ==
  \A p \in Procs : outcome[p] = "SchemaVersionMismatchError"
    => \A x \in Paths \ reverted : p \notin file[x].by
==============================================================================

-------------------------- MODULE TransactionProofs --------------------------
(***************************************************************************)
(* Proofs about Transaction, for any callers, files and path lists, any    *)
(* number of failed writes, deaths and unlocked readers.                   *)
(*                                                                         *)
(* The inductive invariant is built in four layers, each about more of the *)
(* state than the one before.  CallsInv: how far each call has come, and   *)
(* what it therefore has locked, read and kept.  LocksInv: a live call has *)
(* exactly the locks its place in its own loops says, so no two calls work *)
(* on one file.  FilesInv: what a live call keeps in memory is what its    *)
(* files held when it locked them, with its own change or without.         *)
(* CleanInv: a file holds changes only of calls that committed, of calls   *)
(* that AtomicCommit excepts, and of those still at their writes.  The     *)
(* last two speak of the files that no unlocked reader has put back        *)
(* (reverted): of the others nothing is left to say.                       *)
(*                                                                         *)
(* For each step a view says what it does to its own call, point by point; *)
(* Frame says that it does nothing to the others.                          *)
(***************************************************************************)
EXTENDS Transaction, SequenceTheorems, FiniteSetTheorems, WellFoundedInduction, TLAPS

Count(p) == Len(paths[p])

Shape ==
  /\ file \in [Paths -> Contents]
  /\ owner \in [Paths -> Procs \union {NoPid}]
  /\ dead \subseteq Procs
  /\ pc \in [Procs -> Labels]
  /\ paths \in [Procs -> Seq(Paths)]
  /\ k \in [Procs -> Nat] /\ held \in [Procs -> Nat] /\ written \in [Procs -> Nat]
  /\ mem \in [Procs -> Seq(Contents)] /\ backup \in [Procs -> Seq(Contents)]
  /\ outcome \in [Procs -> Outcomes]
  /\ parsed \subseteq Snapshots /\ reverted \subseteq Paths
  /\ mishaps \in 0..MaxMishaps

(* The list of a call is one that was asked for, in ascending order. *)
ListInv(p) ==
  /\ pc[p] # "idle" =>
       \E r \in Requests : Len(paths[p]) = Len(r) /\ ToSet(paths[p]) = ToSet(r)
  /\ \A i, j \in DOMAIN paths[p] : i < j => paths[p][i] <= paths[p][j]

(* Which loops a call has behind it, and how far it has come in its own. *)
ProgressInv(p) ==
  /\ pc[p] = "idle" => k[p] = 0 /\ paths[p] = <<>>
  /\ pc[p] \in {"idle", "lock"} => held[p] = k[p] /\ k[p] <= Count(p)
  /\ pc[p] \in {"read", "mutate", "backup", "check", "write", "rollback"} => held[p] = Count(p)
  /\ pc[p] \in {"idle", "lock"} => Len(mem[p]) = 0
  /\ pc[p] = "read" => Len(mem[p]) = k[p] /\ k[p] <= Count(p)
  /\ pc[p] \in {"mutate", "backup", "check", "write", "rollback"} => Len(mem[p]) = Count(p)
  /\ pc[p] \in {"idle", "lock", "read", "mutate"} => Len(backup[p]) = 0
  /\ pc[p] = "mutate" => k[p] = 0
  /\ pc[p] = "backup" => Len(backup[p]) = k[p] /\ k[p] <= Count(p)
  /\ pc[p] \in {"check", "write", "rollback"} => Len(backup[p]) = Count(p)
  /\ pc[p] \in {"idle", "lock", "read", "mutate", "backup"} => written[p] = 0
  /\ pc[p] \in {"check", "write"} => written[p] = k[p] /\ k[p] < Count(p)
  /\ pc[p] = "rollback" => k[p] <= written[p] /\ written[p] <= Count(p)
  /\ pc[p] \in {"release", "done"} =>
       /\ k[p] <= held[p] /\ held[p] <= Count(p) /\ written[p] <= held[p]
       /\ Len(mem[p]) <= held[p] /\ Len(backup[p]) <= Len(mem[p])
  /\ pc[p] = "done" => k[p] = held[p]

OutcomeInv(p) ==
  /\ pc[p] \notin {"rollback", "release", "done"} => outcome[p] = "none"
  /\ pc[p] = "rollback" => outcome[p] \in {"none", "TransactionError, not rolled back"}
  /\ pc[p] \in {"release", "done"} => outcome[p] # "none"

LocalInv(p) == ListInv(p) /\ ProgressInv(p) /\ OutcomeInv(p)

LEMMA SeqOfFunction ==
  ASSUME NEW S, NEW n \in Nat, NEW f \in [1..n -> S]
  PROVE  f \in Seq(S) /\ Len(f) = n /\ DOMAIN f = 1..n
  OBVIOUS

LEMMA SortedIs ==
  ASSUME NEW r \in Requests, NEW list \in Sorted(r)
  PROVE  /\ list \in Seq(Paths) /\ Len(list) = Len(r) /\ ToSet(list) = ToSet(r)
         /\ \A i, j \in DOMAIN list : i < j => list[i] <= list[j]
  <1>1. r \in Seq(Paths) /\ r # <<>>
    BY TransactionAssumption
  <1>2. list \in [1..Len(r) -> ToSet(r)] /\ ToBag(list) = ToBag(r)
        /\ \A i, j \in DOMAIN list : i < j => list[i] <= list[j]
    BY <1>1 DEF Sorted
  <1>3. ToSet(r) \subseteq Paths
    BY <1>1 DEF ToSet
  <1>4. list \in [1..Len(r) -> Paths]
    BY <1>2, <1>3
  <1>5. Range(list) = Range(r)
    BY <1>2 DEF ToBag
  <1>6. list \in Seq(Paths) /\ Len(list) = Len(r)
    BY <1>1, <1>4
  <1> QED
    BY <1>2, <1>5, <1>6 DEF Range, ToSet

(* The part of a step that only its own process sees. *)
Same(q) ==
  /\ pc'[q] = pc[q] /\ k'[q] = k[q] /\ paths'[q] = paths[q] /\ held'[q] = held[q]
  /\ written'[q] = written[q] /\ mem'[q] = mem[q] /\ backup'[q] = backup[q]
  /\ outcome'[q] = outcome[q]

LEMMA Frame ==
  ASSUME Shape, NEW p \in Procs, Step(p), NEW q \in Procs \ {p}
  PROVE  Same(q)
  <1> USE DEF Shape, Same, local, Continue, Proceed, Finish
  <1>1. CASE Begin(p)
    BY <1>1 DEF Begin
  <1>2. CASE Acquire(p)
    BY <1>2 DEF Acquire
  <1>3. CASE Read(p)
    BY <1>3 DEF Read
  <1>4. CASE Mutate(p)
    BY <1>4 DEF Mutate
  <1>5. CASE Backup(p)
    BY <1>5 DEF Backup
  <1>6. CASE Check(p)
    BY <1>6 DEF Check
  <1>7. CASE Write(p)
    <2>1. CASE WriteNext(p)
      BY <1>7, <2>1 DEF Write, WriteNext
    <2>2. CASE ~WriteNext(p)
      BY <1>7, <2>2 DEF Write
    <2> QED
      BY <2>1, <2>2
  <1>8. CASE Rollback(p)
    BY <1>8 DEF Rollback
  <1>9. CASE Release(p)
    BY <1>9 DEF Release
  <1> QED
    BY <1>1, <1>2, <1>3, <1>4, <1>5, <1>6, <1>7, <1>8, <1>9 DEF Step

LEMMA KeepLocal == ASSUME NEW q, Same(q), LocalInv(q) PROVE LocalInv(q)'
  <1>1. ListInv(q)'
    BY DEF Same, LocalInv, ListInv
  <1>2. ProgressInv(q)'
    BY DEF Same, LocalInv, ProgressInv, Count
  <1>3. OutcomeInv(q)'
    BY DEF Same, LocalInv, OutcomeInv
  <1> QED
    BY <1>1, <1>2, <1>3 DEF LocalInv

(* Where a call is, and how far: the three ways to move on. *)
ControlType ==
  pc \in [Procs -> Labels] /\ k \in [Procs -> Nat] /\ outcome \in [Procs -> Outcomes]

LEMMA ContinueIs ==
  ASSUME ControlType, NEW p \in Procs, Continue(p)
  PROVE  ControlType' /\ pc'[p] = pc[p] /\ k'[p] = k[p] + 1 /\ outcome'[p] = outcome[p]
  BY DEF ControlType, Continue

LEMMA ProceedIs ==
  ASSUME ControlType, NEW p \in Procs, NEW label \in Labels, Proceed(p, label)
  PROVE  ControlType' /\ pc'[p] = label /\ k'[p] = 0 /\ outcome'[p] = outcome[p]
  BY DEF ControlType, Proceed

LEMMA FinishIs ==
  ASSUME ControlType, NEW p \in Procs, NEW result \in Outcomes, Finish(p, result)
  PROVE  ControlType' /\ pc'[p] = "release" /\ k'[p] = 0 /\ outcome'[p] = result
  <1>1. "release" \in Labels
    BY DEF Labels
  <1> QED
    BY <1>1 DEF ControlType, Finish

LEMMA Names ==
  /\ {"idle", "lock", "read", "mutate", "backup", "check", "write", "rollback",
      "release", "done"} \subseteq Labels
  /\ {"none", "ok", "LockError", "SCHEMA_MISMATCH", "SchemaVersionMismatchError",
      "TransactionError", "TransactionError, not rolled back"} \subseteq Outcomes
  BY DEF Labels, Outcomes

(* What each step does to its own call, point by point. *)
BeginView(p) ==
  /\ At(p, "idle") /\ UNCHANGED <<file, owner, dead, readers, mishaps>>
  /\ \E request \in Requests : paths'[p] \in Sorted(request)
  /\ pc'[p] = "lock" /\ k'[p] = 0 /\ outcome'[p] = outcome[p]
  /\ held'[p] = held[p] /\ written'[p] = written[p] /\ mem'[p] = mem[p] /\ backup'[p] = backup[p]

LEMMA BeginIs == ASSUME Shape, NEW p \in Procs, Begin(p) PROVE BeginView(p)
  <1>1. PICK request \in Requests : \E sorted \in Sorted(request) :
          paths' = [paths EXCEPT ![p] = sorted]
    BY DEF Begin
  <1>2. paths'[p] \in Sorted(request)
    BY <1>1 DEF Shape
  <1>3. pc'[p] = "lock" /\ k'[p] = 0 /\ outcome'[p] = outcome[p]
    BY Names, ProceedIs DEF Begin, Shape, ControlType
  <1> QED
    BY <1>2, <1>3 DEF Begin, BeginView

AcquireView(p) ==
  /\ At(p, "lock") /\ UNCHANGED <<file, dead, readers, mishaps>>
  /\ \/ /\ ~AllDone(p) /\ owner[Current(p)] \in dead \union {NoPid}
        /\ owner' = [owner EXCEPT ![Current(p)] = p]
        /\ held'[p] = held[p] + 1
        /\ pc'[p] = "lock" /\ k'[p] = k[p] + 1 /\ outcome'[p] = outcome[p]
     \/ /\ ~AllDone(p) /\ owner' = owner /\ held'[p] = held[p]
        /\ pc'[p] = "release" /\ k'[p] = 0 /\ outcome'[p] = "LockError"
     \/ /\ AllDone(p) /\ owner' = owner /\ held'[p] = held[p]
        /\ pc'[p] = "read" /\ k'[p] = 0 /\ outcome'[p] = outcome[p]
  /\ paths'[p] = paths[p] /\ written'[p] = written[p]
  /\ mem'[p] = mem[p] /\ backup'[p] = backup[p]

LEMMA AcquireIs == ASSUME Shape, NEW p \in Procs, Acquire(p) PROVE AcquireView(p)
  BY Names, ContinueIs, ProceedIs, FinishIs, ZenonT(60)
  DEF Acquire, AcquireView, Shape, ControlType, local, At, AllDone, Count

ReadView(p) ==
  /\ At(p, "read") /\ UNCHANGED <<file, owner, dead, readers, mishaps>>
  /\ \/ /\ ~AllDone(p) /\ mem'[p] = Append(mem[p], file[Current(p)])
        /\ pc'[p] = "read" /\ k'[p] = k[p] + 1 /\ outcome'[p] = outcome[p]
     \/ /\ ~AllDone(p) /\ mem'[p] = mem[p]
        /\ pc'[p] = "release" /\ k'[p] = 0 /\ outcome'[p] = "SCHEMA_MISMATCH"
     \/ /\ AllDone(p) /\ mem'[p] = mem[p]
        /\ pc'[p] = "mutate" /\ k'[p] = 0 /\ outcome'[p] = outcome[p]
  /\ paths'[p] = paths[p] /\ held'[p] = held[p]
  /\ written'[p] = written[p] /\ backup'[p] = backup[p]

LEMMA ReadIs == ASSUME Shape, NEW p \in Procs, Read(p) PROVE ReadView(p)
  BY Names, ContinueIs, ProceedIs, FinishIs, ZenonT(60)
  DEF Read, ReadView, Shape, ControlType, local, At, AllDone, Count

MutateView(p) ==
  /\ At(p, "mutate") /\ UNCHANGED <<file, owner, dead, readers, mishaps>>
  /\ mem'[p] \in Seq(Contents) /\ Len(mem'[p]) = Len(mem[p])
  /\ \A i \in 1..Len(mem[p]) : mem'[p][i].by = mem[p][i].by \union {p}
  /\ pc'[p] = "backup" /\ k'[p] = 0 /\ outcome'[p] = outcome[p]
  /\ paths'[p] = paths[p] /\ held'[p] = held[p]
  /\ written'[p] = written[p] /\ backup'[p] = backup[p]

LEMMA MutateIs == ASSUME Shape, NEW p \in Procs, Mutate(p) PROVE MutateView(p)
  <1>1. pc'[p] = "backup" /\ k'[p] = 0 /\ outcome'[p] = outcome[p]
    BY Names, ProceedIs DEF Mutate, Shape, ControlType
  <1>2. mem[p] \in Seq(Contents) /\ Len(mem[p]) \in Nat /\ DOMAIN mem[p] = 1..Len(mem[p])
    BY DEF Shape
  <1> DEFINE mutated == [i \in DOMAIN mem[p] |->
                           [by |-> mem[p][i].by \union {p}, schema |-> mem[p][i].schema]]
  <1>3. mem' = [mem EXCEPT ![p] = mutated]
    BY DEF Mutate
  <1>4. mutated \in Seq(Contents) /\ Len(mutated) = Len(mem[p])
    <2> \A i \in 1..Len(mem[p]) : mem[p][i] \in Contents
      BY <1>2
    <2>1. \A i \in 1..Len(mem[p]) :
            [by |-> mem[p][i].by \union {p}, schema |-> mem[p][i].schema] \in Contents
      BY <1>2 DEF Contents
    <2>2. mutated \in [1..Len(mem[p]) -> Contents]
      BY <1>2, <2>1
    <2> QED
      BY <1>2, <2>2, SeqOfFunction
  <1>5. \A i \in 1..Len(mem[p]) : mutated[i].by = mem[p][i].by \union {p}
    BY <1>2
  <1> HIDE DEF mutated
  <1>6. mem'[p] = mutated
    BY <1>3 DEF Shape
  <1> QED
    BY <1>1, <1>4, <1>5, <1>6 DEF Mutate, MutateView

BackupView(p) ==
  /\ At(p, "backup") /\ UNCHANGED <<file, owner, dead, readers, mishaps>>
  /\ \/ /\ ~AllDone(p) /\ backup'[p] = Append(backup[p], file[Current(p)])
        /\ pc'[p] = "backup" /\ k'[p] = k[p] + 1 /\ outcome'[p] = outcome[p]
     \/ /\ AllDone(p) /\ backup'[p] = backup[p]
        /\ pc'[p] = "check" /\ k'[p] = 0 /\ outcome'[p] = outcome[p]
  /\ paths'[p] = paths[p] /\ held'[p] = held[p] /\ written'[p] = written[p] /\ mem'[p] = mem[p]

LEMMA BackupIs == ASSUME Shape, NEW p \in Procs, Backup(p) PROVE BackupView(p)
  BY Names, ContinueIs, ProceedIs, FinishIs, ZenonT(60)
  DEF Backup, BackupView, Shape, ControlType, local, At, AllDone, Count

CheckView(p) ==
  /\ At(p, "check") /\ UNCHANGED <<file, owner, dead, readers, mishaps>>
  /\ \/ pc'[p] = "write" /\ k'[p] = k[p] /\ outcome'[p] = outcome[p]
     \/ pc'[p] = "release" /\ k'[p] = 0 /\ outcome'[p] = "SchemaVersionMismatchError"
  /\ paths'[p] = paths[p] /\ held'[p] = held[p] /\ written'[p] = written[p]
  /\ mem'[p] = mem[p] /\ backup'[p] = backup[p]

LEMMA CheckIs == ASSUME Shape, NEW p \in Procs, Check(p) PROVE CheckView(p)
  BY Names, ContinueIs, ProceedIs, FinishIs, ZenonT(60)
  DEF Check, CheckView, Shape, ControlType, local, At, AllDone, Count

WriteView(p) ==
  /\ At(p, "write") /\ UNCHANGED <<owner, dead, readers>>
  /\ \/ /\ file' = [file EXCEPT ![Current(p)] = mem[p][k[p] + 1]]
        /\ written'[p] = written[p] + 1 /\ mishaps' = mishaps
        /\ \/ /\ k[p] + 1 < Count(p)
              /\ pc'[p] = "check" /\ k'[p] = k[p] + 1 /\ outcome'[p] = outcome[p]
           \/ /\ ~(k[p] + 1 < Count(p))
              /\ pc'[p] = "release" /\ k'[p] = 0 /\ outcome'[p] = "ok"
     \/ /\ Mishap
        /\ file' = file /\ written'[p] = written[p]
        /\ pc'[p] = "rollback" /\ k'[p] = 0 /\ outcome'[p] = outcome[p]
  /\ paths'[p] = paths[p] /\ held'[p] = held[p] /\ mem'[p] = mem[p] /\ backup'[p] = backup[p]

LEMMA WriteIs == ASSUME Shape, NEW p \in Procs, Write(p) PROVE WriteView(p)
  BY Names, ContinueIs, ProceedIs, FinishIs, ZenonT(60)
  DEF Write, WriteNext, WriteView, Shape, ControlType, local, At, AllDone, Count

RollbackView(p) ==
  /\ At(p, "rollback") /\ UNCHANGED <<owner, dead, readers>>
  /\ \/ /\ k[p] < written[p] /\ file' = [file EXCEPT ![Current(p)] = backup[p][k[p] + 1]]
        /\ pc'[p] = "rollback" /\ k'[p] = k[p] + 1 /\ outcome'[p] = outcome[p] /\ mishaps' = mishaps
     \/ /\ k[p] < written[p] /\ file' = file
        /\ Mishap
        /\ pc'[p] = "rollback" /\ k'[p] = k[p] + 1
        /\ outcome'[p] = "TransactionError, not rolled back"
     \/ /\ k[p] = written[p] /\ file' = file /\ mishaps' = mishaps
        /\ pc'[p] = "release" /\ k'[p] = 0
        /\ outcome'[p] = IF outcome[p] = "none" THEN "TransactionError" ELSE outcome[p]
  /\ paths'[p] = paths[p] /\ held'[p] = held[p] /\ written'[p] = written[p]
  /\ mem'[p] = mem[p] /\ backup'[p] = backup[p]

LEMMA RollbackIs == ASSUME Shape, NEW p \in Procs, Rollback(p) PROVE RollbackView(p)
  BY Names, ContinueIs, ProceedIs, FinishIs, ZenonT(60)
  DEF Rollback, RollbackView, Shape, ControlType, local, At, AllDone, Count

ReleaseView(p) ==
  /\ At(p, "release") /\ UNCHANGED <<file, dead, readers, mishaps>>
  /\ \/ /\ k[p] < held[p] /\ owner' = [owner EXCEPT ![Current(p)] = NoPid]
        /\ pc'[p] = "release" /\ k'[p] = k[p] + 1
     \/ /\ k[p] = held[p] /\ owner' = owner
        /\ pc'[p] = "done" /\ k'[p] = k[p]
  /\ paths'[p] = paths[p] /\ held'[p] = held[p] /\ written'[p] = written[p]
  /\ mem'[p] = mem[p] /\ backup'[p] = backup[p] /\ outcome'[p] = outcome[p]

LEMMA ReleaseIs == ASSUME Shape, NEW p \in Procs, Release(p) PROVE ReleaseView(p)
  BY Names, ContinueIs, ProceedIs, FinishIs, ZenonT(60)
  DEF Release, ReleaseView, Shape, ControlType, local, At, AllDone, Count

LEMMA Types ==
  ASSUME Shape, NEW p \in Procs
  PROVE  /\ paths[p] \in Seq(Paths) /\ mem[p] \in Seq(Contents) /\ backup[p] \in Seq(Contents)
         /\ Count(p) \in Nat /\ k[p] \in Nat /\ held[p] \in Nat /\ written[p] \in Nat
         /\ outcome[p] \in Outcomes /\ pc[p] \in Labels
         /\ Len(mem[p]) \in Nat /\ Len(backup[p]) \in Nat
  BY DEF Shape, Count

LEMMA CurrentIsPath ==
  ASSUME Shape, NEW p \in Procs, k[p] < Count(p)
  PROVE  /\ Current(p) \in Paths /\ file[Current(p)] \in Contents
         /\ k[p] + 1 \in 1..Count(p) /\ Current(p) = paths[p][k[p] + 1]
  BY Types DEF Shape, Current, Count

LEMMA ExceptType ==
  ASSUME NEW D, NEW R, NEW f \in [D -> R], NEW x, NEW v \in R
  PROVE  [f EXCEPT ![x] = v] \in [D -> R]
  OBVIOUS

LEMMA BeginLocal ==
  ASSUME Shape, NEW p \in Procs, LocalInv(p), Begin(p)
  PROVE  LocalInv(p)'
  <1>1. BeginView(p)
    BY BeginIs
  <1>2. ListInv(p)'
    BY <1>1, SortedIs DEF BeginView, At, LocalInv, ListInv
  <1>3. ProgressInv(p)'
    BY <1>1, Types DEF BeginView, At, AllDone, Count, LocalInv, ProgressInv
  <1>4. OutcomeInv(p)'
    BY <1>1 DEF BeginView, At, LocalInv, OutcomeInv
  <1> QED
    BY <1>2, <1>3, <1>4 DEF LocalInv

LEMMA AcquireLocal ==
  ASSUME Shape, NEW p \in Procs, LocalInv(p), Acquire(p)
  PROVE  LocalInv(p)'
  <1>1. AcquireView(p)
    BY AcquireIs
  <1>2. ListInv(p)'
    BY <1>1 DEF AcquireView, At, LocalInv, ListInv
  <1>3. ProgressInv(p)'
    BY <1>1, Types DEF AcquireView, At, AllDone, Count, LocalInv, ProgressInv
  <1>4. OutcomeInv(p)'
    BY <1>1 DEF AcquireView, At, LocalInv, OutcomeInv
  <1> QED
    BY <1>2, <1>3, <1>4 DEF LocalInv

LEMMA ReadLocal ==
  ASSUME Shape, NEW p \in Procs, LocalInv(p), Read(p)
  PROVE  LocalInv(p)'
  <1>1. ReadView(p)
    BY ReadIs
  <1>2. ListInv(p)'
    BY <1>1 DEF ReadView, At, LocalInv, ListInv
  <1>a. k[p] <= Count(p)
    BY DEF Read, At, LocalInv, ProgressInv
  <1>b. ~AllDone(p) => Len(Append(mem[p], file[Current(p)])) = Len(mem[p]) + 1
    BY <1>a, Types, CurrentIsPath, AppendProperties DEF AllDone, Count
  <1>c. /\ pc[p] = "read" /\ Len(mem'[p]) \in Nat
        /\ \/ /\ k[p] # Count(p) /\ Len(mem'[p]) = Len(mem[p]) + 1
              /\ pc'[p] = "read" /\ k'[p] = k[p] + 1
           \/ mem'[p] = mem[p] /\ pc'[p] = "release" /\ k'[p] = 0
           \/ k[p] = Count(p) /\ mem'[p] = mem[p] /\ pc'[p] = "mutate" /\ k'[p] = 0
    BY <1>1, <1>b, Types DEF ReadView, At, AllDone, Count
  <1>d. /\ paths'[p] = paths[p] /\ held'[p] = held[p] /\ written'[p] = written[p]
        /\ backup'[p] = backup[p]
    BY <1>1 DEF ReadView
  <1> USE DEF Count, LocalInv, ProgressInv
  <1>3. ProgressInv(p)'
    <2>1. CASE pc'[p] = "read"
      BY <1>a, <1>c, <1>d, <2>1, Types
    <2>2. CASE pc'[p] = "release"
      BY <1>a, <1>c, <1>d, <2>2, Types
    <2>3. CASE pc'[p] = "mutate"
      BY <1>a, <1>c, <1>d, <2>3, Types
    <2> QED
      BY <1>c, <2>1, <2>2, <2>3
  <1>4. OutcomeInv(p)'
    BY <1>1 DEF ReadView, At, LocalInv, OutcomeInv
  <1> QED
    BY <1>2, <1>3, <1>4 DEF LocalInv

LEMMA MutateLocal ==
  ASSUME Shape, NEW p \in Procs, LocalInv(p), Mutate(p)
  PROVE  LocalInv(p)'
  <1>1. MutateView(p)
    BY MutateIs
  <1>2. ListInv(p)'
    BY <1>1 DEF MutateView, At, LocalInv, ListInv
  <1>3. ProgressInv(p)'
    BY <1>1, Types DEF MutateView, At, AllDone, Count, LocalInv, ProgressInv
  <1>4. OutcomeInv(p)'
    BY <1>1 DEF MutateView, At, LocalInv, OutcomeInv
  <1> QED
    BY <1>2, <1>3, <1>4 DEF LocalInv

LEMMA NeverEmpty ==
  ASSUME Shape, NEW p \in Procs, LocalInv(p), pc[p] # "idle"
  PROVE  Count(p) > 0
  <1>1. PICK r \in Requests : Len(paths[p]) = Len(r)
    BY DEF LocalInv, ListInv
  <1>2. r \in Seq(Paths) /\ r # <<>>
    BY TransactionAssumption
  <1> QED
    BY <1>1, <1>2 DEF Count

LEMMA BackupLocal ==
  ASSUME Shape, NEW p \in Procs, LocalInv(p), Backup(p)
  PROVE  LocalInv(p)'
  <1>1. BackupView(p)
    BY BackupIs
  <1>2. ListInv(p)'
    BY <1>1 DEF BackupView, At, LocalInv, ListInv
  <1>a. k[p] <= Count(p)
    BY DEF Backup, At, LocalInv, ProgressInv
  <1>b. ~AllDone(p) => Len(Append(backup[p], file[Current(p)])) = Len(backup[p]) + 1
    BY <1>a, Types, CurrentIsPath, AppendProperties DEF AllDone, Count
  <1>c. /\ pc[p] = "backup" /\ Len(backup'[p]) \in Nat
        /\ \/ /\ k[p] # Count(p) /\ Len(backup'[p]) = Len(backup[p]) + 1
              /\ pc'[p] = "backup" /\ k'[p] = k[p] + 1
           \/ backup'[p] = backup[p] /\ pc'[p] = "release" /\ k'[p] = 0
           \/ k[p] = Count(p) /\ backup'[p] = backup[p] /\ pc'[p] = "check" /\ k'[p] = 0
    BY <1>1, <1>b, Types DEF BackupView, At, AllDone, Count
  <1>d. /\ paths'[p] = paths[p] /\ held'[p] = held[p] /\ written'[p] = written[p]
        /\ mem'[p] = mem[p]
    BY <1>1 DEF BackupView
  <1> USE DEF Count, LocalInv, ProgressInv
  <1>3. ProgressInv(p)'
    <2>1. CASE pc'[p] = "backup"
      BY <1>a, <1>c, <1>d, <2>1, Types
    <2>2. CASE pc'[p] = "release"
      BY <1>a, <1>c, <1>d, <2>2, Types
    <2>3. CASE pc'[p] = "check"
      BY <1>a, <1>c, <1>d, <2>3, Types, NeverEmpty
    <2> QED
      BY <1>c, <2>1, <2>2, <2>3
  <1>4. OutcomeInv(p)'
    BY <1>1 DEF BackupView, At, LocalInv, OutcomeInv
  <1> QED
    BY <1>2, <1>3, <1>4 DEF LocalInv

LEMMA CheckLocal ==
  ASSUME Shape, NEW p \in Procs, LocalInv(p), Check(p)
  PROVE  LocalInv(p)'
  <1>1. CheckView(p)
    BY CheckIs
  <1>2. ListInv(p)'
    BY <1>1 DEF CheckView, At, LocalInv, ListInv
  <1>3. ProgressInv(p)'
    BY <1>1, Types DEF CheckView, At, AllDone, Count, LocalInv, ProgressInv
  <1>4. OutcomeInv(p)'
    BY <1>1 DEF CheckView, At, LocalInv, OutcomeInv
  <1> QED
    BY <1>2, <1>3, <1>4 DEF LocalInv

LEMMA WriteLocal ==
  ASSUME Shape, NEW p \in Procs, LocalInv(p), Write(p)
  PROVE  LocalInv(p)'
  <1>1. WriteView(p)
    BY WriteIs
  <1>2. ListInv(p)'
    BY <1>1 DEF WriteView, At, LocalInv, ListInv
  <1>3. ProgressInv(p)'
    BY <1>1, Types DEF WriteView, At, AllDone, Count, LocalInv, ProgressInv
  <1>4. OutcomeInv(p)'
    BY <1>1 DEF WriteView, At, LocalInv, OutcomeInv
  <1> QED
    BY <1>2, <1>3, <1>4 DEF LocalInv

LEMMA RollbackLocal ==
  ASSUME Shape, NEW p \in Procs, LocalInv(p), Rollback(p)
  PROVE  LocalInv(p)'
  <1>1. RollbackView(p)
    BY RollbackIs
  <1>2. ListInv(p)'
    BY <1>1 DEF RollbackView, At, LocalInv, ListInv
  <1>a. /\ pc[p] = "rollback"
        /\ \/ pc'[p] = "rollback" /\ k[p] < written[p] /\ k'[p] = k[p] + 1
           \/ pc'[p] = "release" /\ k'[p] = 0
        /\ paths'[p] = paths[p] /\ held'[p] = held[p] /\ written'[p] = written[p]
        /\ mem'[p] = mem[p] /\ backup'[p] = backup[p]
    BY <1>1 DEF RollbackView, At
  <1>3. ProgressInv(p)'
    BY <1>a, Types DEF Count, LocalInv, ProgressInv
  <1>4. OutcomeInv(p)'
    BY <1>1 DEF RollbackView, At, LocalInv, OutcomeInv
  <1> QED
    BY <1>2, <1>3, <1>4 DEF LocalInv

LEMMA ReleaseLocal ==
  ASSUME Shape, NEW p \in Procs, LocalInv(p), Release(p)
  PROVE  LocalInv(p)'
  <1>1. ReleaseView(p)
    BY ReleaseIs
  <1>2. ListInv(p)'
    BY <1>1 DEF ReleaseView, At, LocalInv, ListInv
  <1>3. ProgressInv(p)'
    BY <1>1, Types DEF ReleaseView, At, AllDone, Count, LocalInv, ProgressInv
  <1>4. OutcomeInv(p)'
    BY <1>1 DEF ReleaseView, At, LocalInv, OutcomeInv
  <1> QED
    BY <1>2, <1>3, <1>4 DEF LocalInv

(* No step takes a variable out of its type. *)

LEMMA MishapType == Mishap /\ mishaps \in 0..MaxMishaps => mishaps' \in 0..MaxMishaps
  BY TransactionAssumption DEF Mishap

LEMMA MoveType ==
  ASSUME ControlType, NEW p \in Procs,
         NEW label \in Labels, NEW n \in Nat, NEW result \in Outcomes,
         pc' = pc \/ pc' = [pc EXCEPT ![p] = label],
         k' = k \/ k' = [k EXCEPT ![p] = n],
         outcome' = outcome \/ outcome' = [outcome EXCEPT ![p] = result]
  PROVE  ControlType'
  <1>1. pc' \in [Procs -> Labels]
    BY DEF ControlType
  <1>2. k' \in [Procs -> Nat]
    BY DEF ControlType
  <1>3. outcome' \in [Procs -> Outcomes]
    BY DEF ControlType
  <1> QED
    BY <1>1, <1>2, <1>3 DEF ControlType

LEMMA BeginShape == ASSUME Shape, NEW p \in Procs, Begin(p) PROVE Shape'
  <1>1. PICK request \in Requests : \E sorted \in Sorted(request) :
          paths' = [paths EXCEPT ![p] = sorted]
    BY DEF Begin
  <1>2. paths' \in [Procs -> Seq(Paths)]
    BY <1>1, SortedIs DEF Shape
  <1>3. ControlType'
    BY Names, ProceedIs DEF Begin, Shape, ControlType
  <1> QED
    BY <1>2, <1>3 DEF Shape, ControlType, Begin, readers

LEMMA AcquireShape == ASSUME Shape, NEW p \in Procs, LocalInv(p), Acquire(p) PROVE Shape'
  <1>1. ControlType'
    BY Names, ContinueIs, ProceedIs, FinishIs DEF Acquire, Shape, ControlType
  <1>3. owner' \in [Paths -> Procs \union {NoPid}]
    BY ExceptType DEF Acquire, Shape
  <1>4. held' \in [Procs -> Nat]
    <2>1. held' = held \/ held' = [held EXCEPT ![p] = held[p] + 1]
      BY DEF Acquire
    <2>2. held[p] + 1 \in Nat /\ held \in [Procs -> Nat]
      BY Types DEF Shape
    <2> QED
      BY <2>1, <2>2, ExceptType
  <1> QED
    BY <1>1, <1>3, <1>4 DEF Shape, ControlType, Acquire, readers

LEMMA ReadShape == ASSUME Shape, NEW p \in Procs, LocalInv(p), Read(p) PROVE Shape'
  <1>1. ControlType'
    BY Names, ContinueIs, ProceedIs, FinishIs DEF Read, Shape, ControlType
  <1>2. ~AllDone(p) => file[Current(p)] \in Contents
    BY CurrentIsPath, Types DEF Read, At, LocalInv, ProgressInv, AllDone, Count
  <1>3. ~AllDone(p) => Append(mem[p], file[Current(p)]) \in Seq(Contents)
    BY <1>2, Types, AppendProperties
  <1>4. mem' \in [Procs -> Seq(Contents)]
    <2>1. CASE ~AllDone(p) /\ mem' = [mem EXCEPT ![p] = Append(@, file[Current(p)])]
      <3> DEFINE longer == Append(mem[p], file[Current(p)])
      <3>1. mem' = [mem EXCEPT ![p] = longer] /\ longer \in Seq(Contents)
        BY <1>3, <2>1
      <3> HIDE DEF longer
      <3> QED
        BY <3>1, ExceptType DEF Shape
    <2>2. CASE UNCHANGED mem
      BY <2>2 DEF Shape
    <2> QED
      BY <2>1, <2>2 DEF Read
  <1> QED
    BY <1>1, <1>4 DEF Shape, ControlType, Read, readers

LEMMA MutateShape == ASSUME Shape, NEW p \in Procs, Mutate(p) PROVE Shape'
  <1>1. ControlType'
    BY Names, ProceedIs DEF Mutate, Shape, ControlType
  <1>2. mem'[p] \in Seq(Contents)
    BY MutateIs DEF MutateView
  <1>3. mem' \in [Procs -> Seq(Contents)]
    BY <1>2 DEF Mutate, Shape
  <1> QED
    BY <1>1, <1>3 DEF Shape, ControlType, Mutate, readers

LEMMA BackupShape == ASSUME Shape, NEW p \in Procs, LocalInv(p), Backup(p) PROVE Shape'
  <1>1. ControlType'
    BY Names, ContinueIs, ProceedIs DEF Backup, Shape, ControlType
  <1>2. ~AllDone(p) => file[Current(p)] \in Contents
    BY CurrentIsPath, Types DEF Backup, At, LocalInv, ProgressInv, AllDone, Count
  <1>3. ~AllDone(p) => Append(backup[p], file[Current(p)]) \in Seq(Contents)
    BY <1>2, Types, AppendProperties
  <1>4. backup' \in [Procs -> Seq(Contents)]
    <2>1. CASE ~AllDone(p) /\ backup' = [backup EXCEPT ![p] = Append(@, file[Current(p)])]
      <3> DEFINE longer == Append(backup[p], file[Current(p)])
      <3>1. backup' = [backup EXCEPT ![p] = longer] /\ longer \in Seq(Contents)
        BY <1>3, <2>1
      <3> HIDE DEF longer
      <3> QED
        BY <3>1, ExceptType DEF Shape
    <2>2. CASE UNCHANGED backup
      BY <2>2 DEF Shape
    <2> QED
      BY <2>1, <2>2 DEF Backup
  <1> QED
    BY <1>1, <1>4 DEF Shape, ControlType, Backup, readers

LEMMA CheckShape == ASSUME Shape, NEW p \in Procs, Check(p) PROVE Shape'
  <1>1. ControlType'
    BY Names, FinishIs DEF Check, Shape, ControlType
  <1> QED
    BY <1>1 DEF Shape, ControlType, Check, local, readers

LEMMA WriteShape == ASSUME Shape, NEW p \in Procs, LocalInv(p), Write(p) PROVE Shape'
  <1>0. ControlType /\ k[p] + 1 \in Nat
    BY DEF Shape, ControlType
  <1>1. ControlType'
    <2>1. CASE /\ k' = [k EXCEPT ![p] = k[p] + 1] /\ pc' = [pc EXCEPT ![p] = "check"]
               /\ UNCHANGED outcome
      BY <1>0, <2>1, Names, MoveType
    <2>2. CASE Finish(p, "ok")
      BY <1>0, <2>2, Names, FinishIs
    <2>3. CASE Proceed(p, "rollback")
      BY <1>0, <2>3, Names, ProceedIs
    <2> QED
      BY <2>1, <2>2, <2>3 DEF Write, WriteNext
  <1>2. mem[p][k[p] + 1] \in Contents
    BY Types DEF Write, At, LocalInv, ProgressInv
  <1>3. file' \in [Paths -> Contents]
    BY <1>2, ExceptType DEF Write, WriteNext, Shape
  <1>4. written' \in [Procs -> Nat]
    <2>1. written' = written \/ written' = [written EXCEPT ![p] = written[p] + 1]
      BY DEF Write, WriteNext
    <2>2. written[p] + 1 \in Nat /\ written \in [Procs -> Nat]
      BY Types DEF Shape
    <2> QED
      BY <2>1, <2>2, ExceptType
  <1>5. mishaps' \in 0..MaxMishaps
    BY MishapType DEF Write, WriteNext, Shape
  <1> QED
    BY <1>1, <1>3, <1>4, <1>5 DEF Shape, ControlType, Write, readers

LEMMA RollbackShape == ASSUME Shape, NEW p \in Procs, LocalInv(p), Rollback(p) PROVE Shape'
  <1>0. ControlType /\ k[p] + 1 \in Nat /\ outcome[p] \in Outcomes
    BY DEF Shape, ControlType
  <1>1. ControlType'
    <2>1. CASE k[p] < written[p]
      <3>1. /\ k' = [k EXCEPT ![p] = k[p] + 1] /\ UNCHANGED pc
            /\ \/ UNCHANGED outcome
               \/ outcome' = [outcome EXCEPT ![p] = "TransactionError, not rolled back"]
        <4>1. k[p] # written[p]
          BY <2>1, Types
        <4> QED
          BY <4>1 DEF Rollback
      <3> QED
        BY <1>0, <3>1, Names, MoveType
    <2>2. CASE ~(k[p] < written[p])
      BY <1>0, <2>2, Names, FinishIs DEF Rollback
    <2> QED
      BY <2>1, <2>2
  <1>2. k[p] < written[p] => backup[p][k[p] + 1] \in Contents
    <2>1. written[p] <= Len(backup[p]) /\ k[p] \in Nat /\ backup[p] \in Seq(Contents)
      BY Types DEF Rollback, At, LocalInv, ProgressInv
    <2> QED
      BY <2>1, Types
  <1>3. file' \in [Paths -> Contents]
    BY <1>2, ExceptType DEF Rollback, Shape
  <1>4. mishaps' \in 0..MaxMishaps
    <2>1. mishaps' = mishaps \/ Mishap
      BY RollbackIs DEF RollbackView
    <2> QED
      BY <2>1, MishapType DEF Shape
  <1> QED
    BY <1>1, <1>3, <1>4 DEF Shape, ControlType, Rollback, local, readers

LEMMA ReleaseShape == ASSUME Shape, NEW p \in Procs, LocalInv(p), Release(p) PROVE Shape'
  <1>1. ControlType'
    <2>1. ControlType /\ k[p] + 1 \in Nat /\ outcome[p] \in Outcomes
      BY DEF Shape, ControlType
    <2>2. UNCHANGED outcome /\ (k' = k \/ k' = [k EXCEPT ![p] = k[p] + 1])
          /\ (pc' = pc \/ pc' = [pc EXCEPT ![p] = "done"])
      BY DEF Release
    <2> QED
      BY <2>1, <2>2, Names, MoveType
  <1>2. owner' \in [Paths -> Procs \union {NoPid}]
    BY ExceptType DEF Release, Shape
  <1> QED
    BY <1>1, <1>2 DEF Shape, ControlType, Release, local, readers

------------------------------------------------------------------------------
(* The first layer: where the calls are. *)

CallsInv == Shape /\ \A p \in Procs : LocalInv(p)

LEMMA StepCalls == ASSUME CallsInv, NEW p \in Procs, Step(p) PROVE CallsInv'
  <1> USE DEF CallsInv
  <1>1. ASSUME NEW q \in Procs \ {p} PROVE LocalInv(q)'
    BY <1>1, Frame, KeepLocal
  <1>2. Shape' /\ LocalInv(p)'
    <2>1. CASE Begin(p)
      BY <2>1, BeginShape, BeginLocal
    <2>2. CASE Acquire(p)
      BY <2>2, AcquireShape, AcquireLocal
    <2>3. CASE Read(p)
      BY <2>3, ReadShape, ReadLocal
    <2>4. CASE Mutate(p)
      BY <2>4, MutateShape, MutateLocal
    <2>5. CASE Backup(p)
      BY <2>5, BackupShape, BackupLocal
    <2>6. CASE Check(p)
      BY <2>6, CheckShape, CheckLocal
    <2>7. CASE Write(p)
      BY <2>7, WriteShape, WriteLocal
    <2>8. CASE Rollback(p)
      BY <2>8, RollbackShape, RollbackLocal
    <2>9. CASE Release(p)
      BY <2>9, ReleaseShape, ReleaseLocal
    <2> QED
      BY <2>1, <2>2, <2>3, <2>4, <2>5, <2>6, <2>7, <2>8, <2>9 DEF Step
  <1> QED
    BY <1>1, <1>2

(* The world outside changes no call, and what a file holds only where an
   unlocked reader puts it back. *)
Outside ==
  \/ \E p \in Procs : Die(p)
  \/ \E x \in Paths : Parse(x)
  \/ \E snapshot \in parsed : WriteBack(snapshot)
  \/ UNCHANGED vars

OutsideView ==
  /\ Shape' /\ UNCHANGED owner
  /\ \A q \in Procs : Same(q)
  /\ dead \subseteq dead' /\ reverted \subseteq reverted'
  /\ \A x \in Paths \ reverted' : file'[x].by = file[x].by

LEMMA ParseIs ==
  ASSUME Shape, NEW x \in Paths, Parse(x)
  PROVE  OutsideView /\ UNCHANGED <<file, dead, reverted>>
  <1>1. PICK schema \in file[x].schema..1 :
          parsed' = parsed \union {[path |-> x, by |-> file[x].by, schema |-> schema]}
    BY DEF Parse
  <1>2. file[x] \in Contents /\ schema \in {0, 1}
    BY <1>1 DEF Shape, Contents
  <1>3. [path |-> x, by |-> file[x].by, schema |-> schema] \in Snapshots
    BY <1>2 DEF Contents, Snapshots
  <1>4. parsed' \subseteq Snapshots
    BY <1>1, <1>3 DEF Shape
  <1>5. mishaps' \in 0..MaxMishaps
    BY MishapType DEF Parse, Shape
  <1>6. UNCHANGED <<file, owner, dead, pc, k, local, outcome, reverted>>
    BY DEF Parse
  <1>7. Shape'
    BY <1>4, <1>5, <1>6 DEF Shape, local
  <1> QED
    BY <1>6, <1>7 DEF OutsideView, Same, local

WriteBackView(snapshot) ==
  /\ OutsideView /\ UNCHANGED dead
  /\ snapshot.path \in Paths
  /\ \A x \in Paths : x # snapshot.path => file'[x] = file[x]
  /\ \/ reverted' = reverted /\ \A x \in Paths : file'[x].by = file[x].by
     \/ reverted' = reverted \union {snapshot.path}

LEMMA WriteBackIs ==
  ASSUME Shape, NEW snapshot \in parsed, WriteBack(snapshot)
  PROVE  WriteBackView(snapshot)
  <1> DEFINE content == [by |-> snapshot.by, schema |-> snapshot.schema]
  <1>1. snapshot.path \in Paths /\ content \in Contents /\ content.by = snapshot.by
    BY DEF Shape, Snapshots, Contents
  <1>2. file' = [file EXCEPT ![snapshot.path] = content] /\ parsed' \subseteq parsed
    BY DEF WriteBack
  <1> HIDE DEF content
  <1>3. /\ file' \in [Paths -> Contents] /\ file'[snapshot.path].by = snapshot.by
        /\ \A x \in Paths : x # snapshot.path => file'[x] = file[x]
    BY <1>1, <1>2 DEF Shape
  <1>4. UNCHANGED <<owner, dead, pc, k, local, outcome, mishaps>>
    BY DEF WriteBack
  <1>5. \/ reverted' = reverted /\ snapshot.by = file[snapshot.path].by
        \/ reverted' = reverted \union {snapshot.path}
    BY DEF WriteBack
  <1>6. reverted' \subseteq Paths /\ parsed' \subseteq Snapshots
    BY <1>1, <1>2, <1>5 DEF Shape
  <1>7. Shape'
    BY <1>3, <1>4, <1>6 DEF Shape, local
  <1>8. \A q \in Procs : Same(q)
    BY <1>4 DEF Same, local
  <1> QED
    BY <1>1, <1>3, <1>4, <1>5, <1>7, <1>8 DEF OutsideView, WriteBackView

LEMMA OutsideIs == ASSUME Shape, Outside PROVE OutsideView
  <1>1. ASSUME NEW p \in Procs, Die(p) PROVE OutsideView
    <2>1. UNCHANGED <<file, owner, pc, k, local, outcome, readers>> /\ dead' = dead \union {p}
      BY <1>1 DEF Die
    <2>2. mishaps' \in 0..MaxMishaps
      BY <1>1, MishapType DEF Die, Shape
    <2>3. Shape'
      BY <2>1, <2>2 DEF Shape, local, readers
    <2> QED
      BY <2>1, <2>3 DEF OutsideView, Same, local, readers
  <1>2. CASE UNCHANGED vars
    <2>1. Shape'
      BY <1>2 DEF Shape, vars, local, readers
    <2> QED
      BY <1>2, <2>1 DEF OutsideView, Same, vars, local, readers
  <1> QED
    BY <1>1, <1>2, ParseIs, WriteBackIs DEF Outside, WriteBackView

LEMMA OutsideCalls == CallsInv /\ Outside => CallsInv'
  BY OutsideIs, KeepLocal DEF CallsInv, OutsideView

LEMMA InitCalls == Init => CallsInv
  <1> SUFFICES ASSUME Init PROVE CallsInv
    OBVIOUS
  <1>1. [by |-> {}, schema |-> 0] \in Contents
    BY DEF Contents
  <1>2. file \in [Paths -> Contents]
    BY <1>1 DEF Init
  <1>3. <<>> \in Seq(Paths) /\ <<>> \in Seq(Contents)
    OBVIOUS
  <1>4. /\ paths \in [Procs -> Seq(Paths)]
        /\ mem \in [Procs -> Seq(Contents)] /\ backup \in [Procs -> Seq(Contents)]
    BY <1>3 DEF Init
  <1>5. pc \in [Procs -> Labels] /\ outcome \in [Procs -> Outcomes]
    BY Names DEF Init
  <1>6. Shape
    BY <1>2, <1>4, <1>5, TransactionAssumption DEF Init, Shape
  <1>7. ASSUME NEW p \in Procs PROVE LocalInv(p)
    BY DEF Init, LocalInv, ListInv, ProgressInv, OutcomeInv, Count
  <1> QED
    BY <1>6, <1>7 DEF CallsInv

LEMMA NextIs == ASSUME [Next]_vars PROVE Outside \/ \E p \in Procs : Step(p)
  BY DEF Next, Outside

------------------------------------------------------------------------------
(* The second layer: who holds the locks. *)

(* The places in its list of the locks that p has. *)
Has(p) == {i \in 1..held[p] : pc[p] \in {"release", "done"} => k[p] < i}

LockInv(p) ==
  /\ \A i, j \in 1..held[p] : i # j => paths[p][i] # paths[p][j]
  /\ Live(p) => \A x \in Paths : owner[x] = p <=> \E i \in Has(p) : x = paths[p][i]

(* The steps that leave p its locks, and take none. *)
LEMMA KeepLocks ==
  ASSUME NEW p, LockInv(p), paths'[p] = paths[p], held'[p] = held[p], Has(p)' = Has(p),
         dead \subseteq dead', Live(p) => \A x \in Paths : owner'[x] = p <=> owner[x] = p
  PROVE  LockInv(p)'
  BY DEF LockInv, Live

LEMMA SameLocks ==
  ASSUME NEW p, LockInv(p), Same(p), dead \subseteq dead',
         Live(p) => \A x \in Paths : owner'[x] = p <=> owner[x] = p
  PROVE  LockInv(p)'
  <1>1. Has(p)' = Has(p)
    BY DEF Same, Has
  <1> QED
    BY <1>1, KeepLocks DEF Same

LEMMA BeginLocks ==
  ASSUME CallsInv, NEW p \in Procs, LockInv(p), Begin(p)
  PROVE  LockInv(p)'
  <1>1. BeginView(p) /\ held[p] = 0
    BY BeginIs DEF CallsInv, Begin, At, LocalInv, ProgressInv
  <1>2. Has(p) = {} /\ Has(p)' = {} /\ 1..held'[p] = {}
    BY <1>1 DEF Has, BeginView
  <1> QED
    BY <1>1, <1>2 DEF LockInv, BeginView, Live

LEMMA AcquireLocks ==
  ASSUME CallsInv, NEW p \in Procs, LockInv(p), Acquire(p)
  PROVE  LockInv(p)'
  <1>1. /\ AcquireView(p) /\ pc[p] = "lock" /\ Live(p) /\ held[p] = k[p] /\ k[p] <= Count(p)
        /\ p # NoPid /\ Shape
    BY AcquireIs, TransactionAssumption DEF CallsInv, Acquire, At, LocalInv, ProgressInv
  <1>2. held[p] \in Nat /\ Count(p) \in Nat /\ Has(p) = 1..held[p]
    BY <1>1, Types DEF Has
  <1>3. CASE /\ ~AllDone(p) /\ owner[Current(p)] \in dead \union {NoPid}
             /\ owner' = [owner EXCEPT ![Current(p)] = p]
             /\ held'[p] = held[p] + 1 /\ pc'[p] = "lock"
    <2>1. /\ Current(p) = paths[p][held[p] + 1] /\ Current(p) \in Paths
          /\ owner[Current(p)] \in dead \union {NoPid}
          /\ held'[p] = held[p] + 1 /\ pc'[p] = "lock"
      BY <1>1, <1>2, <1>3, CurrentIsPath DEF AcquireView, AllDone, Count
    <2>2. owner[Current(p)] # p
      BY <1>1, <2>1 DEF Live
    <2>3. \A i \in 1..held[p] : paths[p][i] # Current(p)
      BY <1>1, <1>2, <2>1, <2>2 DEF LockInv
    <2>4. Has(p)' = 1..(held[p] + 1)
      BY <2>1 DEF Has
    <2>5. \A i \in 1..(held[p] + 1) : i \in 1..held[p] \/ i = held[p] + 1
      BY <1>2
    <2>6. \A i, j \in 1..held'[p] : i # j => paths'[p][i] # paths'[p][j]
      BY <1>1, <2>1, <2>3, <2>5 DEF LockInv, AcquireView
    <2>7. \A x \in Paths : owner'[x] = p <=> (owner[x] = p \/ x = Current(p))
      BY <1>1, <1>3, <2>1 DEF Shape
    <2>8. \A x \in Paths : owner[x] = p <=> \E i \in 1..held[p] : x = paths[p][i]
      BY <1>1, <1>2 DEF LockInv
    <2>9. held[p] + 1 \in 1..(held[p] + 1) /\ \A i \in 1..held[p] : i \in 1..(held[p] + 1)
      BY <1>2
    <2>10. \A x \in Paths : owner'[x] = p <=> \E i \in Has(p)' : x = paths'[p][i]
      BY <1>1, <2>1, <2>4, <2>5, <2>7, <2>8, <2>9 DEF AcquireView
    <2> QED
      BY <2>6, <2>10 DEF LockInv
  <1>4. CASE owner' = owner /\ held'[p] = held[p]
    <2>1. Has(p)' = Has(p)
      BY <1>1, <1>2, <1>4 DEF Has, AcquireView
    <2> QED
      BY <1>1, <1>4, <2>1, KeepLocks DEF AcquireView
  <1> QED
    BY <1>1, <1>3, <1>4 DEF AcquireView

LEMMA ReleaseLocks ==
  ASSUME CallsInv, NEW p \in Procs, LockInv(p), Release(p)
  PROVE  LockInv(p)'
  <1>1. /\ ReleaseView(p) /\ pc[p] = "release" /\ Live(p) /\ k[p] <= held[p] /\ held[p] <= Count(p)
        /\ p # NoPid /\ Shape
    BY ReleaseIs, TransactionAssumption DEF CallsInv, Release, At, LocalInv, ProgressInv
  <1>2. held[p] \in Nat /\ Count(p) \in Nat /\ k[p] \in Nat
    BY <1>1, Types
  <1>3. CASE k[p] < held[p]
    <2>1. /\ Current(p) = paths[p][k[p] + 1] /\ Current(p) \in Paths
          /\ owner' = [owner EXCEPT ![Current(p)] = NoPid]
          /\ k'[p] = k[p] + 1 /\ pc'[p] = "release"
      BY <1>1, <1>2, <1>3, CurrentIsPath DEF ReleaseView
    <2>2. /\ \A i \in Has(p)' : i \in Has(p) /\ i # k[p] + 1 /\ i \in 1..held[p]
          /\ \A i \in Has(p) : i \in Has(p)' \/ i = k[p] + 1
          /\ k[p] + 1 \in 1..held[p]
      BY <1>1, <1>2, <1>3, <2>1 DEF Has, ReleaseView
    <2>3. \A x \in Paths : owner'[x] = p <=> (owner[x] = p /\ x # Current(p))
      BY <1>1, <2>1 DEF Shape
    <2>4. \A x \in Paths : owner[x] = p <=> \E i \in Has(p) : x = paths[p][i]
      BY <1>1 DEF LockInv
    <2>5. \A i \in Has(p)' : paths[p][i] # Current(p)
      BY <2>1, <2>2 DEF LockInv
    <2>6. \A x \in Paths : owner'[x] = p <=> \E i \in Has(p)' : x = paths'[p][i]
      BY <1>1, <2>1, <2>2, <2>3, <2>4, <2>5 DEF ReleaseView
    <2> QED
      BY <1>1, <2>6 DEF LockInv, ReleaseView
  <1>4. CASE ~(k[p] < held[p])
    <2>1. Has(p)' = Has(p)
      BY <1>1, <1>2, <1>4 DEF Has, ReleaseView
    <2> QED
      BY <1>1, <1>4, <2>1, KeepLocks DEF ReleaseView
  <1> QED
    BY <1>3, <1>4

(* Between the first and the last lock. *)
Inner(p) == Read(p) \/ Mutate(p) \/ Backup(p) \/ Check(p) \/ Write(p) \/ Rollback(p)

LEMMA InnerIs ==
  ASSUME Shape, NEW p \in Procs, Inner(p)
  PROVE  /\ Live(p) /\ UNCHANGED <<owner, dead>>
         /\ pc[p] \in {"read", "mutate", "backup", "check", "write", "rollback"}
         /\ pc'[p] \in {"read", "mutate", "backup", "check", "write", "rollback", "release"}
         /\ pc'[p] = "release" => k'[p] = 0
         /\ paths'[p] = paths[p] /\ held'[p] = held[p]
  <1>1. CASE Read(p)
    BY <1>1, ReadIs DEF ReadView, At
  <1>2. CASE Mutate(p)
    BY <1>2, MutateIs DEF MutateView, At
  <1>3. CASE Backup(p)
    BY <1>3, BackupIs DEF BackupView, At
  <1>4. CASE Check(p)
    BY <1>4, CheckIs DEF CheckView, At
  <1>5. CASE Write(p)
    BY <1>5, WriteIs DEF WriteView, At
  <1>6. CASE Rollback(p)
    BY <1>6, RollbackIs DEF RollbackView, At
  <1> QED
    BY <1>1, <1>2, <1>3, <1>4, <1>5, <1>6 DEF Inner

LEMMA InnerLocks ==
  ASSUME CallsInv, NEW p \in Procs, LockInv(p), Inner(p)
  PROVE  LockInv(p)'
  <1>1. Has(p)' = Has(p)
    BY InnerIs, Types DEF CallsInv, Has
  <1> QED
    BY <1>1, InnerIs, KeepLocks DEF CallsInv

(* No step takes or gives a lock of another live call. *)
LEMMA OthersLocks ==
  ASSUME CallsInv, NEW p \in Procs, LockInv(p), Step(p), NEW q \in Procs \ {p}, Live(q)
  PROVE  \A x \in Paths : owner'[x] = q <=> owner[x] = q
  <1>1. q # NoPid /\ Shape
    BY TransactionAssumption DEF CallsInv
  <1>2. CASE Acquire(p)
    <2>1. owner' = owner \/ (/\ owner[Current(p)] \in dead \union {NoPid}
                             /\ owner' = [owner EXCEPT ![Current(p)] = p])
      BY <1>1, <1>2, AcquireIs DEF AcquireView
    <2> QED
      BY <1>1, <2>1 DEF Shape, Live
  <1>3. CASE Release(p)
    <2>1. CASE owner' = owner
      BY <2>1
    <2>2. CASE k[p] < held[p] /\ owner' = [owner EXCEPT ![Current(p)] = NoPid]
      <3>1. pc[p] = "release" /\ Live(p) /\ k[p] <= held[p] /\ held[p] <= Count(p)
        BY <1>3 DEF CallsInv, Release, At, LocalInv, ProgressInv
      <3>2. Current(p) = paths[p][k[p] + 1] /\ Current(p) \in Paths /\ k[p] + 1 \in Has(p)
        BY <1>1, <2>2, <3>1, CurrentIsPath, Types DEF Has
      <3>3. owner[Current(p)] = p
        BY <3>1, <3>2 DEF LockInv
      <3> QED
        BY <1>1, <2>2, <3>3 DEF Shape
    <2> QED
      BY <1>1, <1>3, <2>1, <2>2, ReleaseIs DEF ReleaseView
  <1>4. CASE Begin(p)
    BY <1>4 DEF Begin
  <1>5. CASE Inner(p)
    BY <1>1, <1>5, InnerIs
  <1> QED
    BY <1>2, <1>3, <1>4, <1>5 DEF Step, Inner

LocksInv == CallsInv /\ \A p \in Procs : LockInv(p)

LEMMA StepDead ==
  ASSUME NEW p, Step(p)
  PROVE  dead' = dead /\ Live(p) /\ readers' = readers /\ reverted' = reverted
  BY DEF Step, Begin, Acquire, Read, Mutate, Backup, Check, Write, Rollback, Release, At, readers

LEMMA StepLocks == ASSUME LocksInv, NEW p \in Procs, Step(p) PROVE LocksInv'
  <1> USE DEF LocksInv
  <1>1. CallsInv'
    BY StepCalls
  <1>2. LockInv(p)'
    BY BeginLocks, AcquireLocks, ReleaseLocks, InnerLocks DEF Step, Inner
  <1>3. ASSUME NEW q \in Procs \ {p} PROVE LockInv(q)'
    BY <1>3, Frame, StepDead, OthersLocks, SameLocks DEF CallsInv
  <1> QED
    BY <1>1, <1>2, <1>3

LEMMA OutsideLocks == LocksInv /\ Outside => LocksInv'
  <1> SUFFICES ASSUME LocksInv, Outside PROVE LocksInv'
    OBVIOUS
  <1>1. CallsInv'
    BY OutsideCalls DEF LocksInv
  <1>2. ASSUME NEW q \in Procs PROVE LockInv(q)'
    BY OutsideIs, SameLocks DEF LocksInv, CallsInv, OutsideView
  <1> QED
    BY <1>1, <1>2 DEF LocksInv

LEMMA InitLocks == Init => LocksInv
  <1> SUFFICES ASSUME Init, NEW p \in Procs PROVE LockInv(p)
    BY InitCalls DEF LocksInv
  <1> QED
    BY TransactionAssumption DEF Init, LockInv, Has

LEMMA NextLocks == LocksInv /\ [Next]_vars => LocksInv'
  BY NextIs, StepLocks, OutsideLocks

(* A call that has returned holds no lock, whether it committed, failed or was
   refused, whatever its list and whoever has died. *)
THEOREM LocksAreReturned == Spec => []ReturnsUnlocked
  <1>1. LocksInv => ReturnsUnlocked
    <2> SUFFICES ASSUME LocksInv, NEW p \in Procs, At(p, "done"), NEW x \in Paths
                 PROVE  owner[x] # p
      BY DEF ReturnsUnlocked
    <2>1. Has(p) = {}
      BY Types DEF LocksInv, CallsInv, LocalInv, ProgressInv, At, Has
    <2> QED
      BY <2>1 DEF LocksInv, LockInv, At
  <1> QED
    BY <1>1, InitLocks, NextLocks, PTL DEF Spec

(* Every variable has its type; a call's list names what was asked for, and it
   writes no more files than it has locked, read and kept. *)
THEOREM TypeCorrect == Spec => []TypeOK
  <1>1. CallsInv => TypeOK
    <2> SUFFICES ASSUME CallsInv, NEW p \in Procs
                 PROVE  /\ k[p] \in 0..Len(paths[p])
                        /\ written[p] \in 0..held[p] /\ held[p] \in 0..Len(paths[p])
                        /\ Len(mem[p]) <= held[p] /\ Len(backup[p]) <= Len(mem[p])
      BY DEF TypeOK, CallsInv, Shape, LocalInv, ListInv
    <2>1. ProgressInv(p) /\ Shape /\ pc[p] \in Labels
      BY Types DEF CallsInv, LocalInv
    <2> QED
      BY <2>1, Types DEF ProgressInv, Labels, Count
  <1> QED
    BY <1>1, InitLocks, NextLocks, PTL DEF Spec, LocksInv

LEMMA Least ==
  ASSUME NEW set \in SUBSET Nat, set # {}
  PROVE  \E least \in set : \A n \in set : least <= n
  <1> DEFINE less == OpToRel(<, Nat)
  <1>1. IsWellFoundedOn(less, Nat)
    BY NatLessThanWellFounded
  <1>2. \A m, n \in Nat : m < n => <<m, n>> \in less
    BY DEF OpToRel
  <1> HIDE DEF less
  <1>3. PICK least \in set : \A n \in set : <<n, least>> \notin less
    BY <1>1, WFMin
  <1>4. least \in Nat /\ \A n \in set : n \in Nat /\ ~(n < least)
    BY <1>2, <1>3
  <1> QED
    BY <1>4

(* Along a chain of calls that wait, the files they wait for come later and
   later in the order. *)
LEMMA WaitingAscends ==
  ASSUME LocksInv, NEW p \in Procs, NEW q \in Procs, NEW r \in Procs,
         Waits(p, q), Waits(q, r), q # r
  PROVE  Current(p) \in Paths /\ Current(q) \in Paths /\ Current(p) < Current(q)
  <1>1. /\ Shape /\ pc[q] = "lock" /\ Live(q) /\ owner[Current(p)] = q /\ owner[Current(q)] = r
        /\ k[p] # Count(p) /\ k[p] <= Count(p) /\ k[q] # Count(q) /\ k[q] <= Count(q)
        /\ held[q] = k[q]
    BY DEF LocksInv, CallsInv, LocalInv, ProgressInv, Waits, At, AllDone, Count
  <1>2. k[p] \in Nat /\ Count(p) \in Nat /\ k[q] \in Nat /\ Count(q) \in Nat
        /\ paths[q] \in Seq(Paths)
    BY <1>1, Types
  <1>3. Current(p) \in Paths /\ Current(q) \in Paths /\ Current(q) = paths[q][k[q] + 1]
    BY <1>1, <1>2, CurrentIsPath
  <1>4. PICK i \in Has(q) : Current(p) = paths[q][i]
    BY <1>1, <1>3 DEF LocksInv, LockInv
  <1>5. i \in 1..k[q] /\ i \in DOMAIN paths[q] /\ k[q] + 1 \in DOMAIN paths[q] /\ i < k[q] + 1
    BY <1>1, <1>2, <1>4 DEF Has, Count
  <1>6. Current(p) <= Current(q)
    BY <1>3, <1>4, <1>5 DEF LocksInv, CallsInv, LocalInv, ListInv
  <1>7. Current(p) # Current(q)
    BY <1>1
  <1> QED
    BY <1>3, <1>6, <1>7, TransactionAssumption

(* No callers wait for each other in a circle, however many there are and
   whatever lists they pass: the one of them that waits for the last file waits
   for none of the others. *)
THEOREM NobodyWaitsInACircle == Spec => []NoCircularWait
  <1>1. ASSUME LocksInv, NEW S \in SUBSET Procs, S # {}
        PROVE  \E p \in S : \A q \in S \ {p} : ~Waits(p, q)
    <2> SUFFICES ASSUME \A p \in S : \E q \in S \ {p} : Waits(p, q)
                 PROVE  FALSE
      OBVIOUS
    <2> DEFINE Above(p) == {x \in Paths : x > Current(p)}
               sizes == {Cardinality(Above(p)) : p \in S}
    <2>1. \A p \in Procs : IsFiniteSet(Above(p)) /\ Cardinality(Above(p)) \in Nat
      BY TransactionAssumption, FS_Subset, FS_CardinalityType
    <2>2. sizes \in SUBSET Nat /\ sizes # {}
      <3> HIDE DEF Above
      <3>1. \A p \in S : Cardinality(Above(p)) \in Nat
        BY <1>1, <2>1
      <3> QED
        BY <1>1, <3>1
    <2>3. PICK least \in sizes : \A n \in sizes : least <= n
      BY <2>2, Least
    <2>4. PICK p \in S : least = Cardinality(Above(p))
      BY <2>3
    <2>5. PICK q \in S \ {p} : Waits(p, q)
      BY <2>4
    <2>6. PICK r \in S \ {q} : Waits(q, r)
      BY <2>5
    <2>7. Current(p) \in Paths /\ Current(q) \in Paths /\ Current(p) < Current(q)
      BY <1>1, <2>4, <2>5, <2>6, WaitingAscends
    <2>8. Above(q) \subseteq Above(p) /\ Current(q) \in Above(p) /\ Current(q) \notin Above(q)
      <3>1. Paths \subseteq Nat /\ Current(p) \in Nat /\ Current(q) \in Nat
        BY <2>7, TransactionAssumption
      <3>2. \A x \in Paths : x > Current(q) => x > Current(p)
        BY <2>7, <3>1
      <3>3. Current(q) > Current(p) /\ ~(Current(q) > Current(q))
        BY <2>7, <3>1
      <3> QED
        BY <2>7, <3>2, <3>3
    <2>9. Cardinality(Above(q)) <= Cardinality(Above(p))
          /\ Cardinality(Above(q)) # Cardinality(Above(p))
      <3>1. Above(q) \in SUBSET Above(p) /\ Above(q) # Above(p) /\ IsFiniteSet(Above(p))
        BY <1>1, <2>1, <2>4, <2>8
      <3> HIDE DEF Above
      <3> QED
        BY <3>1, FS_Subset
    <2>10. Cardinality(Above(q)) \in sizes
      BY <2>5
    <2> HIDE DEF Above, sizes
    <2> QED
      BY <1>1, <2>1, <2>3, <2>4, <2>5, <2>9, <2>10
  <1>2. LocksInv => NoCircularWait
    BY <1>1 DEF NoCircularWait
  <1> QED
    BY <1>2, InitLocks, NextLocks, PTL DEF Spec

------------------------------------------------------------------------------
(* The third layer: what the files of a live call hold. *)

(* The file holds what it held when the call locked it. *)
Undone(p, i) == file[paths[p][i]].by = backup[p][i].by

(* The places in its list of the files that no unlocked reader has put back. *)
Kept(p) == {i \in 1..Count(p) : paths[p][i] \notin reverted}

ContentInv(p) ==
  /\ pc[p] = "read" => \A i \in Kept(p) : i <= k[p] => mem[p][i].by = file[paths[p][i]].by
  /\ pc[p] = "mutate" => \A i \in Kept(p) : mem[p][i].by = file[paths[p][i]].by
  /\ pc[p] = "backup" =>
       /\ \A i \in Kept(p) : mem[p][i].by = file[paths[p][i]].by \union {p}
       /\ \A i \in Kept(p) : i <= k[p] => Undone(p, i)
  /\ pc[p] \in {"check", "write", "rollback"} =>
       /\ \A i \in Kept(p) : mem[p][i].by = backup[p][i].by \union {p}
       /\ \A i \in Kept(p) : file[paths[p][i]].by \in {backup[p][i].by, mem[p][i].by}
       /\ \A i \in Kept(p) : i > written[p] => Undone(p, i)
  /\ pc[p] \in {"check", "write"} =>
       \A i \in Kept(p) : i <= written[p] => file[paths[p][i]].by = mem[p][i].by
  /\ pc[p] = "rollback" /\ outcome[p] = "none" => \A i \in Kept(p) : i <= k[p] => Undone(p, i)

(* A call works on its files from when it has all their locks until it starts
   to release them. *)
Working == {"read", "mutate", "backup", "check", "write", "rollback"}

LEMMA KeepContent ==
  ASSUME NEW q \in Procs, ContentInv(q), Same(q), reverted \subseteq reverted',
         pc[q] \in Working => \A i \in Kept(q)' : file'[paths[q][i]].by = file[paths[q][i]].by
  PROVE  ContentInv(q)'
  <1>1. \A i \in Kept(q)' : i \in Kept(q)
    BY DEF Kept, Same, Count
  <1> QED
    BY <1>1 DEF ContentInv, Same, Working, Undone

LEMMA KeptIs == ASSUME NEW p, NEW i \in Kept(p) PROVE i \in 1..Count(p) /\ paths[p][i] \notin reverted
  BY DEF Kept

LEMMA SameKept ==
  ASSUME NEW p, paths'[p] = paths[p], reverted' = reverted
  PROVE  Kept(p)' = Kept(p)
  BY DEF Kept, Count

(* The files a live call works on are its own. *)
LEMMA HasAll ==
  ASSUME LocksInv, NEW q \in Procs, Live(q), pc[q] \in Working
  PROVE  \A i \in 1..Count(q) : paths[q][i] \in Paths /\ owner[paths[q][i]] = q
  <1>1. Shape /\ held[q] = Count(q) /\ Has(q) = 1..Count(q)
    BY DEF LocksInv, CallsInv, LocalInv, ProgressInv, Working, Has
  <1>2. \A i \in 1..Count(q) : paths[q][i] \in Paths
    BY <1>1, Types DEF Count
  <1> QED
    BY <1>1, <1>2 DEF LocksInv, LockInv

(* A step changes no file but one that its call has locked. *)
LEMMA FileStep ==
  ASSUME LocksInv, NEW p \in Procs, Step(p)
  PROVE  \/ UNCHANGED file
         \/ /\ Current(p) \in Paths /\ owner[Current(p)] = p /\ pc[p] \in {"write", "rollback"}
            /\ \A x \in Paths : x # Current(p) => file'[x] = file[x]
  <1>1. Shape /\ Live(p) /\ (pc[p] = "write" => k[p] < Count(p))
        /\ (pc[p] = "rollback" => written[p] <= Count(p))
    BY StepDead DEF LocksInv, CallsInv, LocalInv, ProgressInv
  <1>2. k[p] \in Nat /\ written[p] \in Nat /\ Count(p) \in Nat
    BY <1>1, Types
  <1>3. ASSUME pc[p] \in {"write", "rollback"}, k[p] < Count(p)
        PROVE  Current(p) \in Paths /\ owner[Current(p)] = p
    BY <1>1, <1>2, <1>3, CurrentIsPath, HasAll DEF Working
  <1>4. CASE Write(p)
    <2>1. UNCHANGED file \/ file' = [file EXCEPT ![Current(p)] = mem[p][k[p] + 1]]
      BY <1>1, <1>4, WriteIs DEF WriteView
    <2> QED
      BY <1>1, <1>3, <1>4, <2>1 DEF Write, At, Shape
  <1>5. CASE Rollback(p)
    <2>1. \/ UNCHANGED file
          \/ k[p] < written[p] /\ file' = [file EXCEPT ![Current(p)] = backup[p][k[p] + 1]]
      BY <1>1, <1>5, RollbackIs DEF RollbackView
    <2>2. pc[p] = "rollback"
      BY <1>5 DEF Rollback, At
    <2>3. k[p] < written[p] => k[p] < Count(p)
      BY <1>1, <1>2, <2>2
    <2> QED
      BY <1>1, <1>3, <2>1, <2>2, <2>3 DEF Shape
  <1>6. CASE ~(Write(p) \/ Rollback(p))
    BY <1>6 DEF Step, Begin, Acquire, Read, Mutate, Backup, Check, Release
  <1> QED
    BY <1>4, <1>5, <1>6

LEMMA OthersContent ==
  ASSUME LocksInv, NEW p \in Procs, Step(p), NEW q \in Procs \ {p}, Live(q), ContentInv(q)
  PROVE  ContentInv(q)'
  <1>1. Same(q) /\ reverted' = reverted
    BY Frame, StepDead DEF LocksInv, CallsInv
  <1>2. pc[q] \in Working => \A i \in 1..Count(q) : file'[paths[q][i]].by = file[paths[q][i]].by
    BY FileStep, HasAll
  <1>3. \A i \in Kept(q)' : i \in 1..Count(q)
    BY <1>1 DEF Kept, Same, Count
  <1> QED
    BY <1>1, <1>2, <1>3, KeepContent

LEMMA Longer ==
  ASSUME NEW S, NEW seq \in Seq(S), NEW x \in S
  PROVE  /\ Len(Append(seq, x)) = Len(seq) + 1
         /\ \A i \in 1..Len(seq) : Append(seq, x)[i] = seq[i]
         /\ Append(seq, x)[Len(seq) + 1] = x
  BY AppendProperties

LEMMA BeginContent ==
  ASSUME LocksInv, NEW p \in Procs, Begin(p) \/ Acquire(p) \/ Release(p), ContentInv(p)
  PROVE  ContentInv(p)'
  <1>1. Shape
    BY DEF LocksInv, CallsInv
  <1>2. pc'[p] \in {"lock", "release", "done"} \/ (pc'[p] = "read" /\ k'[p] = 0)
    BY <1>1, BeginIs, AcquireIs, ReleaseIs DEF BeginView, AcquireView, ReleaseView
  <1>3. \A i \in Kept(p)' : i \in Nat /\ i >= 1
    BY DEF Kept
  <1> QED
    BY <1>2, <1>3 DEF ContentInv

LEMMA ReadContent ==
  ASSUME LocksInv, NEW p \in Procs, Read(p), ContentInv(p)
  PROVE  ContentInv(p)'
  <1>1. /\ Shape /\ ReadView(p) /\ pc[p] = "read" /\ Len(mem[p]) = k[p] /\ k[p] <= Count(p)
        /\ k[p] \in Nat /\ Count(p) \in Nat /\ mem[p] \in Seq(Contents)
    BY ReadIs, Types DEF LocksInv, CallsInv, Read, At, LocalInv, ProgressInv
  <1>2. /\ \A i \in Kept(p) : i <= k[p] => mem[p][i].by = file[paths[p][i]].by
        /\ \A i \in Kept(p) : i \in 1..Count(p)
    BY <1>1, KeptIs DEF ContentInv
  <1>3. Kept(p)' = Kept(p) /\ file' = file /\ paths'[p] = paths[p]
    BY <1>1, SameKept DEF ReadView, readers
  <1>4. CASE /\ ~AllDone(p) /\ mem'[p] = Append(mem[p], file[Current(p)])
             /\ pc'[p] = "read" /\ k'[p] = k[p] + 1
    <2>1. file[Current(p)] \in Contents /\ Current(p) = paths[p][k[p] + 1]
      BY <1>1, <1>4, CurrentIsPath DEF AllDone, Count
    <2>2. /\ \A i \in 1..k[p] : mem'[p][i] = mem[p][i]
          /\ mem'[p][k[p] + 1] = file[Current(p)]
      BY <1>1, <1>4, <2>1, Longer
    <2>3. \A i \in Kept(p) : i <= k'[p] => (i \in 1..k[p] /\ i <= k[p]) \/ i = k[p] + 1
      BY <1>1, <1>2, <1>4
    <2>4. \A i \in Kept(p) : i <= k'[p] => mem'[p][i].by = file[paths[p][i]].by
      BY <1>2, <2>1, <2>2, <2>3
    <2> QED
      BY <1>3, <1>4, <2>4 DEF ContentInv
  <1>5. CASE pc'[p] = "release"
    BY <1>5 DEF ContentInv
  <1>6. CASE AllDone(p) /\ mem'[p] = mem[p] /\ pc'[p] = "mutate"
    <2>1. \A i \in Kept(p) : i <= k[p]
      BY <1>1, <1>2, <1>6 DEF AllDone, Count
    <2> QED
      BY <1>2, <1>3, <1>6, <2>1 DEF ContentInv
  <1> QED
    BY <1>1, <1>4, <1>5, <1>6 DEF ReadView

LEMMA MutateContent ==
  ASSUME LocksInv, NEW p \in Procs, Mutate(p), ContentInv(p)
  PROVE  ContentInv(p)'
  <1>1. /\ Shape /\ MutateView(p) /\ pc[p] = "mutate" /\ Len(mem[p]) = Count(p)
    BY MutateIs DEF LocksInv, CallsInv, Mutate, At, LocalInv, ProgressInv
  <1>2. /\ \A i \in Kept(p) : mem[p][i].by = file[paths[p][i]].by
        /\ \A i \in Kept(p) : i \in 1..Len(mem[p]) /\ ~(i <= 0)
    BY <1>1, KeptIs, Types DEF ContentInv
  <1>3. /\ pc'[p] = "backup" /\ k'[p] = 0 /\ Kept(p)' = Kept(p)
        /\ file' = file /\ paths'[p] = paths[p]
    BY <1>1, SameKept DEF MutateView, readers
  <1>4. \A i \in Kept(p) : mem'[p][i].by = file[paths[p][i]].by \union {p}
    BY <1>1, <1>2 DEF MutateView
  <1> QED
    BY <1>2, <1>3, <1>4 DEF ContentInv

LEMMA BackupContent ==
  ASSUME LocksInv, NEW p \in Procs, Backup(p), ContentInv(p)
  PROVE  ContentInv(p)'
  <1>1. /\ Shape /\ BackupView(p) /\ pc[p] = "backup" /\ Len(backup[p]) = k[p] /\ k[p] <= Count(p)
        /\ k[p] \in Nat /\ Count(p) \in Nat /\ backup[p] \in Seq(Contents) /\ written[p] = 0
    BY BackupIs, Types DEF LocksInv, CallsInv, Backup, At, LocalInv, ProgressInv
  <1>2. /\ \A i \in Kept(p) : mem[p][i].by = file[paths[p][i]].by \union {p}
        /\ \A i \in Kept(p) : i <= k[p] => file[paths[p][i]].by = backup[p][i].by
        /\ \A i \in Kept(p) : i \in 1..Count(p)
    BY <1>1, KeptIs DEF ContentInv, Undone
  <1>3. Kept(p)' = Kept(p) /\ file' = file /\ paths'[p] = paths[p] /\ mem'[p] = mem[p]
    BY <1>1, SameKept DEF BackupView, readers
  <1>4. CASE /\ ~AllDone(p) /\ backup'[p] = Append(backup[p], file[Current(p)])
             /\ pc'[p] = "backup" /\ k'[p] = k[p] + 1
    <2>1. file[Current(p)] \in Contents /\ Current(p) = paths[p][k[p] + 1]
      BY <1>1, <1>4, CurrentIsPath DEF AllDone, Count
    <2>2. /\ \A i \in 1..k[p] : backup'[p][i] = backup[p][i]
          /\ backup'[p][k[p] + 1] = file[Current(p)]
      BY <1>1, <1>4, <2>1, Longer
    <2>3. \A i \in Kept(p) : i <= k'[p] => (i \in 1..k[p] /\ i <= k[p]) \/ i = k[p] + 1
      BY <1>1, <1>2, <1>4
    <2>4. \A i \in Kept(p) : i <= k'[p] => file[paths[p][i]].by = backup'[p][i].by
      BY <1>2, <2>1, <2>2, <2>3
    <2> QED
      BY <1>2, <1>3, <1>4, <2>4, ZenonT(60) DEF ContentInv, Undone
  <1>5. CASE AllDone(p) /\ backup'[p] = backup[p] /\ pc'[p] = "check"
    <2>1. written'[p] = 0 /\ \A i \in Kept(p) : i <= k[p] /\ ~(i <= 0)
      BY <1>1, <1>2, <1>5 DEF AllDone, Count, BackupView
    <2> QED
      BY <1>2, <1>3, <1>5, <2>1 DEF ContentInv, Undone
  <1> QED
    BY <1>1, <1>4, <1>5 DEF BackupView

LEMMA CheckContent ==
  ASSUME LocksInv, NEW p \in Procs, Check(p), ContentInv(p)
  PROVE  ContentInv(p)'
  <1>1. Shape /\ CheckView(p) /\ pc[p] = "check"
    BY CheckIs DEF LocksInv, CallsInv, Check, At
  <1>2. Kept(p)' = Kept(p)
    BY <1>1, SameKept DEF CheckView, readers
  <1> QED
    BY <1>1, <1>2 DEF ContentInv, CheckView, Undone

LEMMA WriteContent ==
  ASSUME LocksInv, NEW p \in Procs, Write(p), ContentInv(p)
  PROVE  ContentInv(p)'
  <1>1. /\ Shape /\ WriteView(p) /\ pc[p] = "write" /\ written[p] = k[p] /\ k[p] < Count(p)
        /\ k[p] \in Nat /\ Count(p) \in Nat /\ held[p] = Count(p)
    BY WriteIs, Types DEF LocksInv, CallsInv, Write, At, LocalInv, ProgressInv
  <1>2. /\ \A i \in Kept(p) : mem[p][i].by = backup[p][i].by \union {p}
        /\ \A i \in Kept(p) : file[paths[p][i]].by \in {backup[p][i].by, mem[p][i].by}
        /\ \A i \in Kept(p) : i > k[p] => file[paths[p][i]].by = backup[p][i].by
        /\ \A i \in Kept(p) : i <= k[p] => file[paths[p][i]].by = mem[p][i].by
        /\ \A i \in Kept(p) : i \in 1..Count(p)
    BY <1>1, KeptIs DEF ContentInv, Undone
  <1>3. /\ Kept(p)' = Kept(p) /\ paths'[p] = paths[p] /\ mem'[p] = mem[p]
        /\ backup'[p] = backup[p]
    BY <1>1, SameKept DEF WriteView, readers
  <1>4. CASE pc'[p] = "check"
    <2>1. /\ file' = [file EXCEPT ![Current(p)] = mem[p][k[p] + 1]]
          /\ written'[p] = k[p] + 1
      BY <1>1, <1>4 DEF WriteView
    <2>2. Current(p) \in Paths /\ Current(p) = paths[p][k[p] + 1]
      BY <1>1, CurrentIsPath
    <2>3. \A i \in 1..Count(p) : paths[p][i] \in Paths /\ (i # k[p] + 1 => paths[p][i] # Current(p))
      <3>1. k[p] + 1 \in 1..Count(p) /\ LockInv(p)
        BY <1>1 DEF LocksInv
      <3>2. \A i \in 1..Count(p) : paths[p][i] \in Paths
        BY <1>1, Types DEF Count
      <3> QED
        BY <1>1, <2>2, <3>1, <3>2 DEF LockInv
    <2>4. \A i \in 1..Count(p) :
            file'[paths[p][i]] = IF i = k[p] + 1 THEN mem[p][i] ELSE file[paths[p][i]]
      BY <1>1, <2>1, <2>2, <2>3 DEF Shape
    <2>5. \A i \in Kept(p) : file'[paths'[p][i]].by \in {backup'[p][i].by, mem'[p][i].by}
      BY <1>2, <1>3, <2>4
    <2>6. \A i \in Kept(p) : i > written'[p] => file'[paths'[p][i]].by = backup'[p][i].by
      <3> \A i \in Kept(p) : i > written'[p] => i > k[p] /\ i # k[p] + 1
        BY <1>1, <1>2, <2>1
      <3> QED
        BY <1>2, <1>3, <2>4
    <2>7. \A i \in Kept(p)' : i <= written'[p] => file'[paths'[p][i]].by = mem'[p][i].by
      <3> \A i \in Kept(p) : i <= written'[p] => i <= k[p] \/ i = k[p] + 1
        BY <1>1, <1>2, <2>1
      <3> QED
        BY <1>2, <1>3, <2>4
    <2> QED
      BY <1>2, <1>3, <1>4, <2>5, <2>6, <2>7 DEF ContentInv, Undone
  <1>5. CASE pc'[p] = "rollback"
    <2>1. file' = file /\ written'[p] = written[p] /\ \A i \in Kept(p) : ~(i <= k'[p])
      BY <1>1, <1>2, <1>5 DEF WriteView
    <2> QED
      BY <1>1, <1>2, <1>3, <1>5, <2>1 DEF ContentInv, Undone
  <1>6. CASE pc'[p] = "release"
    BY <1>6 DEF ContentInv
  <1> QED
    BY <1>1, <1>4, <1>5, <1>6 DEF WriteView

LEMMA RollbackContent ==
  ASSUME LocksInv, NEW p \in Procs, Rollback(p), ContentInv(p)
  PROVE  ContentInv(p)'
  <1>1. /\ Shape /\ RollbackView(p) /\ pc[p] = "rollback" /\ written[p] <= Count(p)
        /\ k[p] \in Nat /\ Count(p) \in Nat /\ written[p] \in Nat /\ held[p] = Count(p)
    BY RollbackIs, Types DEF LocksInv, CallsInv, Rollback, At, LocalInv, ProgressInv
  <1>2. /\ \A i \in Kept(p) : mem[p][i].by = backup[p][i].by \union {p}
        /\ \A i \in Kept(p) : file[paths[p][i]].by \in {backup[p][i].by, mem[p][i].by}
        /\ \A i \in Kept(p) : i > written[p] => file[paths[p][i]].by = backup[p][i].by
        /\ outcome[p] = "none" => \A i \in Kept(p) : i <= k[p] => file[paths[p][i]].by = backup[p][i].by
        /\ \A i \in Kept(p) : i \in 1..Count(p)
    BY <1>1, KeptIs DEF ContentInv, Undone
  <1>3. /\ Kept(p)' = Kept(p) /\ paths'[p] = paths[p] /\ mem'[p] = mem[p]
        /\ backup'[p] = backup[p] /\ written'[p] = written[p]
    BY <1>1, SameKept DEF RollbackView, readers
  <1>4. CASE /\ k[p] < written[p] /\ file' = [file EXCEPT ![Current(p)] = backup[p][k[p] + 1]]
             /\ pc'[p] = "rollback" /\ k'[p] = k[p] + 1 /\ outcome'[p] = outcome[p]
    <2>2. Current(p) \in Paths /\ Current(p) = paths[p][k[p] + 1]
      BY <1>1, <1>4, CurrentIsPath
    <2>3. \A i \in 1..Count(p) : paths[p][i] \in Paths /\ (i # k[p] + 1 => paths[p][i] # Current(p))
      <3>1. k[p] + 1 \in 1..Count(p) /\ LockInv(p)
        BY <1>1, <1>4 DEF LocksInv
      <3>2. \A i \in 1..Count(p) : paths[p][i] \in Paths
        BY <1>1, Types DEF Count
      <3> QED
        BY <1>1, <2>2, <3>1, <3>2 DEF LockInv
    <2>4. \A i \in 1..Count(p) :
            file'[paths[p][i]] = IF i = k[p] + 1 THEN backup[p][i] ELSE file[paths[p][i]]
      BY <1>1, <1>4, <2>2, <2>3 DEF Shape
    <2>5. \A i \in Kept(p) : file'[paths'[p][i]].by \in {backup'[p][i].by, mem'[p][i].by}
      BY <1>2, <1>3, <2>4
    <2>6. \A i \in Kept(p) : i > written'[p] => file'[paths'[p][i]].by = backup'[p][i].by
      BY <1>2, <1>3, <2>4
    <2>7. outcome'[p] = "none" => \A i \in Kept(p)' : i <= k'[p] => file'[paths'[p][i]].by = backup'[p][i].by
      <3> \A i \in Kept(p) : i <= k'[p] => i <= k[p] \/ i = k[p] + 1
        BY <1>1, <1>2, <1>4
      <3> QED
        BY <1>2, <1>3, <1>4, <2>4
    <2> QED
      BY <1>2, <1>3, <1>4, <2>5, <2>6, <2>7 DEF ContentInv, Undone
  <1>5. CASE /\ file' = file /\ pc'[p] = "rollback"
             /\ outcome'[p] = "TransactionError, not rolled back"
    BY <1>2, <1>3, <1>5 DEF ContentInv, Undone
  <1>6. CASE pc'[p] = "release"
    BY <1>6 DEF ContentInv
  <1> QED
    BY <1>1, <1>4, <1>5, <1>6 DEF RollbackView

FilesInv == LocksInv /\ \A p \in Procs : Live(p) => ContentInv(p)

LEMMA StepFiles == ASSUME FilesInv, NEW p \in Procs, Step(p) PROVE FilesInv'
  <1> USE DEF FilesInv
  <1>1. LocksInv' /\ dead' = dead /\ Live(p)
    BY StepLocks, StepDead
  <1>2. ContentInv(p)'
    BY <1>1, BeginContent, ReadContent, MutateContent, BackupContent, CheckContent, WriteContent,
       RollbackContent DEF Step
  <1>3. ASSUME NEW q \in Procs \ {p}, Live(q) PROVE ContentInv(q)'
    BY <1>3, OthersContent
  <1> QED
    BY <1>1, <1>2, <1>3 DEF Live

LEMMA OutsideFiles == FilesInv /\ Outside => FilesInv'
  <1> SUFFICES ASSUME FilesInv, Outside PROVE FilesInv'
    OBVIOUS
  <1>1. LocksInv' /\ OutsideView
    BY OutsideLocks, OutsideIs DEF FilesInv, LocksInv, CallsInv
  <1>2. ASSUME NEW q \in Procs, Live(q) PROVE ContentInv(q)'
    <2>1. Same(q) /\ ContentInv(q) /\ reverted \subseteq reverted'
      BY <1>1, <1>2 DEF FilesInv, OutsideView
    <2>2. ASSUME pc[q] \in Working, NEW i \in Kept(q)'
          PROVE  file'[paths[q][i]].by = file[paths[q][i]].by
      <3>1. i \in 1..Count(q) /\ paths[q][i] \notin reverted'
        BY <2>1 DEF Kept, Same, Count
      <3>2. paths[q][i] \in Paths
        BY <1>2, <2>2, <3>1, HasAll DEF FilesInv
      <3> QED
        BY <1>1, <3>1, <3>2 DEF OutsideView
    <2> QED
      BY <2>1, <2>2, KeepContent
  <1>3. dead \subseteq dead'
    BY <1>1 DEF OutsideView
  <1> QED
    BY <1>1, <1>2, <1>3 DEF FilesInv, Live

LEMMA InitFiles == Init => FilesInv
  BY InitLocks DEF FilesInv, Init, ContentInv

LEMMA NextFiles == FilesInv /\ [Next]_vars => FilesInv'
  BY NextIs, StepFiles, OutsideFiles

------------------------------------------------------------------------------
(* The fourth layer: whose changes a file may hold. *)

(* The calls that may have left something behind: they ended in a commit, in
   one of the ways AtomicCommit excepts, or in death. *)
Seen ==
  dead \union
  {p \in Procs : pc[p] \in {"release", "done"} /\
     outcome[p] \in {"ok", "SchemaVersionMismatchError", "TransactionError, not rolled back"}}

(* The calls in the middle of their writes that have written x. *)
Open(x) ==
  {p \in Procs : /\ pc[p] \in {"check", "write", "rollback"}
                 /\ \E i \in 1..written[p] : x = paths[p][i]}

SnapshotInv(q) ==
  \A i \in Kept(q) :
    /\ i <= Len(mem[q]) => mem[q][i].by \subseteq Seen \union {q}
    /\ i <= Len(backup[q]) => backup[q][i].by \subseteq Seen

CleanInv ==
  /\ FilesInv
  /\ \A x \in Paths \ reverted : file[x].by \subseteq Seen \union Open(x)
  /\ \A q \in Procs : Live(q) => SnapshotInv(q)

(* Once seen, always seen. *)
LEMMA SeenGrows == ASSUME FilesInv, NEW p \in Procs, Step(p) PROVE Seen \subseteq Seen'
  <1>1. Shape /\ dead' = dead
    BY StepDead DEF FilesInv, LocksInv, CallsInv
  <1>2. \A q \in Procs \ {p} : Same(q)
    BY <1>1, Frame
  <1>3. ASSUME pc[p] \in {"release", "done"}
        PROVE  pc'[p] \in {"release", "done"} /\ outcome'[p] = outcome[p]
    <2>1. Release(p)
      BY <1>3 DEF Step, Begin, Acquire, Read, Mutate, Backup, Check, Write, Rollback, At
    <2> QED
      BY <1>1, <2>1, ReleaseIs DEF ReleaseView
  <1> QED
    BY <1>1, <1>2, <1>3 DEF Seen, Same

(* What a call that has locked x finds there. *)
LEMMA FoundIsSeen ==
  ASSUME CleanInv, NEW p \in Procs, Live(p), pc[p] \in {"read", "backup"}, NEW i \in Kept(p)
  PROVE  file[paths[p][i]].by \subseteq Seen
  <1>1. paths[p][i] \in Paths \ reverted /\ owner[paths[p][i]] = p
    BY KeptIs, HasAll DEF Working, CleanInv, FilesInv
  <1>2. ASSUME NEW q \in Open(paths[p][i]) PROVE q \in Seen
    <2>1. q \in Procs /\ pc[q] \in Working /\ q # p
      BY DEF Open, Working
    <2>2. PICK j \in 1..written[q] : paths[p][i] = paths[q][j]
      BY DEF Open
    <2>3. j \in 1..Count(q)
      <3>1. Shape /\ LocalInv(q)
        BY <2>1 DEF CleanInv, FilesInv, LocksInv, CallsInv
      <3>2. written[q] <= Count(q)
        BY <2>1, <3>1, Types DEF Open, LocalInv, ProgressInv
      <3> QED
        BY <2>1, <2>2, <3>1, <3>2, Types
    <2>4. ~Live(q)
      BY <1>1, <2>1, <2>2, <2>3, HasAll DEF CleanInv, FilesInv
    <2> QED
      BY <2>4 DEF Live, Seen
  <1> QED
    BY <1>1, <1>2 DEF CleanInv

LEMMA KeepSnapshot ==
  ASSUME NEW q, SnapshotInv(q), mem'[q] = mem[q], backup'[q] = backup[q], Seen \subseteq Seen',
         \A i \in Kept(q)' : i \in Kept(q)
  PROVE  SnapshotInv(q)'
  BY DEF SnapshotInv

LEMMA StepSnapshot ==
  ASSUME CleanInv, NEW p \in Procs, Step(p)
  PROVE  SnapshotInv(p)'
  <1>1. /\ Shape /\ Live(p) /\ LocalInv(p) /\ SnapshotInv(p) /\ Seen \subseteq Seen'
        /\ reverted' = reverted
    BY StepDead, SeenGrows DEF CleanInv, FilesInv, LocksInv, CallsInv
  <1>2. /\ k[p] \in Nat /\ Count(p) \in Nat /\ mem[p] \in Seq(Contents) /\ backup[p] \in Seq(Contents)
        /\ \A i \in Kept(p) : i \in 1..Count(p)
    BY <1>1, Types, KeptIs
  <1>3. CASE Begin(p)
    <2>1. Len(mem'[p]) = 0 /\ Len(backup'[p]) = 0
      BY <1>1, <1>3, BeginIs DEF BeginView, At, LocalInv, ProgressInv
    <2>2. \A i \in Kept(p)' : ~(i <= 0)
      BY DEF Kept
    <2> QED
      BY <2>1, <2>2 DEF SnapshotInv
  <1>4. CASE Acquire(p) \/ Check(p) \/ Write(p) \/ Rollback(p) \/ Release(p)
    <2>1. mem'[p] = mem[p] /\ backup'[p] = backup[p] /\ paths'[p] = paths[p]
      BY <1>1, <1>4, AcquireIs, CheckIs, WriteIs, RollbackIs, ReleaseIs
      DEF AcquireView, CheckView, WriteView, RollbackView, ReleaseView
    <2> QED
      BY <1>1, <2>1, SameKept, KeepSnapshot
  <1>5. CASE Read(p)
    <2>1. /\ ReadView(p) /\ pc[p] = "read" /\ Len(mem[p]) = k[p] /\ k[p] <= Count(p)
          /\ Kept(p)' = Kept(p) /\ backup'[p] = backup[p]
      BY <1>1, <1>5, ReadIs, SameKept DEF Read, At, LocalInv, ProgressInv, ReadView
    <2>2. CASE ~AllDone(p) /\ mem'[p] = Append(mem[p], file[Current(p)])
      <3>1. file[Current(p)] \in Contents /\ Current(p) = paths[p][k[p] + 1]
        BY <1>1, <1>2, <2>1, <2>2, CurrentIsPath DEF AllDone, Count
      <3>2. k[p] + 1 \in Kept(p) => file[Current(p)].by \subseteq Seen
        BY <1>1, <2>1, <3>1, FoundIsSeen
      <3>3. /\ Len(mem'[p]) = k[p] + 1 /\ mem'[p][k[p] + 1] = file[Current(p)]
            /\ \A i \in 1..k[p] : mem'[p][i] = mem[p][i]
        BY <1>2, <2>1, <2>2, <3>1, Longer
      <3>4. \A i \in Kept(p) : i <= k[p] + 1 => (i \in 1..k[p] /\ i <= k[p]) \/ i = k[p] + 1
        BY <1>2, <2>1
      <3>5. \A i \in Kept(p) : i <= Len(mem'[p]) => mem'[p][i].by \subseteq Seen' \union {p}
        BY <1>1, <2>1, <3>2, <3>3, <3>4 DEF SnapshotInv
      <3> QED
        BY <1>1, <2>1, <3>5 DEF SnapshotInv
    <2>3. CASE mem'[p] = mem[p]
      BY <1>1, <2>1, <2>3, KeepSnapshot
    <2> QED
      BY <2>1, <2>2, <2>3 DEF ReadView
  <1>6. CASE Mutate(p)
    <2>1. MutateView(p) /\ Kept(p)' = Kept(p) /\ Len(mem[p]) = Count(p)
      BY <1>1, <1>6, MutateIs, SameKept DEF MutateView, At, LocalInv, ProgressInv
    <2>2. \A i \in Kept(p) : i \in 1..Len(mem[p]) /\ i <= Len(mem[p])
      BY <1>2, <2>1
    <2> QED
      BY <1>1, <2>1, <2>2 DEF SnapshotInv, MutateView
  <1>7. CASE Backup(p)
    <2>1. /\ BackupView(p) /\ pc[p] = "backup" /\ Len(backup[p]) = k[p] /\ k[p] <= Count(p)
          /\ Kept(p)' = Kept(p) /\ mem'[p] = mem[p]
      BY <1>1, <1>7, BackupIs, SameKept DEF Backup, At, LocalInv, ProgressInv, BackupView
    <2>2. CASE ~AllDone(p) /\ backup'[p] = Append(backup[p], file[Current(p)])
      <3>1. file[Current(p)] \in Contents /\ Current(p) = paths[p][k[p] + 1]
        BY <1>1, <1>2, <2>1, <2>2, CurrentIsPath DEF AllDone, Count
      <3>2. k[p] + 1 \in Kept(p) => file[Current(p)].by \subseteq Seen
        BY <1>1, <2>1, <3>1, FoundIsSeen
      <3>3. /\ Len(backup'[p]) = k[p] + 1 /\ backup'[p][k[p] + 1] = file[Current(p)]
            /\ \A i \in 1..k[p] : backup'[p][i] = backup[p][i]
        BY <1>2, <2>1, <2>2, <3>1, Longer
      <3>4. \A i \in Kept(p) : i <= k[p] + 1 => (i \in 1..k[p] /\ i <= k[p]) \/ i = k[p] + 1
        BY <1>2, <2>1
      <3>5. \A i \in Kept(p) : i <= Len(backup'[p]) => backup'[p][i].by \subseteq Seen'
        BY <1>1, <2>1, <3>2, <3>3, <3>4 DEF SnapshotInv
      <3> QED
        BY <1>1, <2>1, <3>5 DEF SnapshotInv
    <2>3. CASE backup'[p] = backup[p]
      BY <1>1, <2>1, <2>3, KeepSnapshot
    <2> QED
      BY <2>1, <2>2, <2>3 DEF BackupView
  <1> QED
    BY <1>3, <1>4, <1>5, <1>6, <1>7 DEF Step

(* A call's own change is in no file before it writes, nor after it has taken
   everything back. *)
LEMMA OwnChange ==
  ASSUME CleanInv, NEW p \in Procs, Step(p), NEW x \in Paths \ reverted, p \in file[x].by
  PROVE  p \in Seen' \union Open(x)'
  <1>1. Shape /\ Live(p) /\ LocalInv(p) /\ ContentInv(p) /\ SnapshotInv(p) /\ Seen \subseteq Seen'
    BY StepDead, SeenGrows DEF CleanInv, FilesInv, LocksInv, CallsInv
  <1>2. SUFFICES ASSUME p \notin Seen PROVE p \in Seen' \union Open(x)'
    BY <1>1
  <1>3. p \in Open(x)
    BY <1>2 DEF CleanInv
  <1>4. PICK i \in 1..written[p] : x = paths[p][i]
    BY <1>3 DEF Open
  <1>5. pc[p] \in {"check", "write", "rollback"} /\ written[p] \in Nat
    BY <1>1, <1>3, Types DEF Open
  <1>6. CASE Check(p)
    BY <1>1, <1>4, <1>6, CheckIs DEF CheckView, Open, Seen
  <1>7. CASE Write(p)
    <2>1. WriteView(p) /\ (written'[p] = written[p] \/ written'[p] = written[p] + 1)
      BY <1>1, <1>7, WriteIs DEF WriteView
    <2>2. i \in 1..written'[p]
      BY <1>5, <2>1
    <2> QED
      BY <1>4, <2>1, <2>2 DEF WriteView, Open, Seen
  <1>8. CASE Rollback(p)
    <2>1. RollbackView(p) /\ pc[p] = "rollback" /\ k[p] \in Nat /\ written[p] <= Count(p)
          /\ Len(backup[p]) = Count(p)
      BY <1>1, <1>8, RollbackIs, Types DEF Rollback, At, LocalInv, ProgressInv
    <2>2. CASE pc'[p] = "rollback"
      BY <1>4, <2>1, <2>2 DEF RollbackView, Open
    <2>3. CASE pc'[p] = "release" /\ outcome[p] # "none"
      <3>1. outcome'[p] = "TransactionError, not rolled back"
        BY <1>1, <2>1, <2>3 DEF RollbackView, LocalInv, OutcomeInv
      <3> QED
        BY <2>3, <3>1 DEF Seen
    <2>4. CASE pc'[p] = "release" /\ outcome[p] = "none"
      <3>1. k[p] = written[p]
        BY <2>1, <2>4 DEF RollbackView
      <3>2. i \in Kept(p) /\ i <= k[p] /\ i <= Len(backup[p])
        BY <1>1, <1>4, <1>5, <2>1, <3>1, Types DEF Kept
      <3>3. file[x].by = backup[p][i].by
        BY <1>1, <1>4, <2>1, <2>4, <3>2 DEF ContentInv, Undone
      <3> QED
        BY <1>1, <1>2, <3>2, <3>3 DEF SnapshotInv
    <2> QED
      BY <2>1, <2>2, <2>3, <2>4 DEF RollbackView
  <1> QED
    BY <1>5, <1>6, <1>7, <1>8 DEF Step, Begin, Acquire, Read, Mutate, Backup, Release, At

(* The one file a step may change gets the snapshot or its original back. *)
LEMMA NewContent ==
  ASSUME CleanInv, NEW p \in Procs, Step(p), NEW x \in Paths \ reverted, file'[x] # file[x]
  PROVE  /\ file'[x].by \subseteq Seen \union {p}
         /\ p \in file'[x].by => p \in Seen' \union Open(x)'
  <1>1. Shape /\ Live(p) /\ LocalInv(p) /\ SnapshotInv(p) /\ Seen \subseteq Seen'
    BY StepDead, SeenGrows DEF CleanInv, FilesInv, LocksInv, CallsInv
  <1>2. k[p] \in Nat /\ Count(p) \in Nat /\ written[p] \in Nat
    BY <1>1, Types
  <1>3. CASE Write(p)
    <2>1. /\ WriteView(p) /\ pc[p] = "write" /\ written[p] = k[p] /\ k[p] < Count(p)
          /\ Len(mem[p]) = Count(p)
      BY <1>1, <1>3, WriteIs DEF Write, At, LocalInv, ProgressInv
    <2>2. file' = [file EXCEPT ![Current(p)] = mem[p][k[p] + 1]] /\ written'[p] = k[p] + 1
      BY <2>1 DEF WriteView
    <2>3. x = Current(p) /\ Current(p) = paths[p][k[p] + 1] /\ k[p] + 1 \in 1..Count(p)
      BY <1>1, <1>2, <2>1, <2>2, CurrentIsPath DEF Shape
    <2>4. file'[x] = mem[p][k[p] + 1]
      BY <1>1, <2>2, <2>3 DEF Shape
    <2>5. file'[x].by \subseteq Seen \union {p}
      <3>1. k[p] + 1 \in Kept(p) /\ k[p] + 1 <= Len(mem[p])
        BY <1>2, <2>1, <2>3 DEF Kept
      <3> QED
        BY <1>1, <2>4, <3>1 DEF SnapshotInv
    <2>6. k[p] + 1 \in 1..written'[p] /\ x = paths'[p][k[p] + 1]
      BY <1>2, <2>1, <2>2, <2>3 DEF WriteView
    <2>7. p \in Seen' \union Open(x)'
      BY <2>1, <2>6 DEF WriteView, Open, Seen
    <2> QED
      BY <2>5, <2>7
  <1>4. CASE Rollback(p)
    <2>1. /\ RollbackView(p) /\ pc[p] = "rollback" /\ written[p] <= Count(p)
          /\ Len(backup[p]) = Count(p)
      BY <1>1, <1>4, RollbackIs DEF Rollback, At, LocalInv, ProgressInv
    <2>2. k[p] < written[p] /\ file' = [file EXCEPT ![Current(p)] = backup[p][k[p] + 1]]
      BY <2>1 DEF RollbackView
    <2>3. x = Current(p) /\ Current(p) = paths[p][k[p] + 1] /\ k[p] + 1 \in 1..Count(p)
      <3>1. k[p] < Count(p)
        BY <1>2, <2>1, <2>2
      <3>2. x = Current(p)
        BY <1>1, <2>2 DEF Shape
      <3> QED
        BY <1>1, <3>1, <3>2, CurrentIsPath
    <2>4. file'[x] = backup[p][k[p] + 1]
      BY <1>1, <2>2, <2>3 DEF Shape
    <2>5. file'[x].by \subseteq Seen
      <3>1. k[p] + 1 \in Kept(p) /\ k[p] + 1 <= Len(backup[p])
        BY <1>2, <2>1, <2>3 DEF Kept
      <3> QED
        BY <1>1, <2>4, <3>1 DEF SnapshotInv
    <2> QED
      BY <1>1, <2>5
  <1> QED
    BY <1>3, <1>4 DEF Step, Begin, Acquire, Read, Mutate, Backup, Check, Release

LEMMA StepClean == ASSUME CleanInv, NEW p \in Procs, Step(p) PROVE CleanInv'
  <1>1. FilesInv' /\ dead' = dead /\ reverted' = reverted /\ Seen \subseteq Seen' /\ Shape
    BY StepFiles, StepDead, SeenGrows DEF CleanInv, FilesInv, LocksInv, CallsInv
  <1>2. SnapshotInv(p)'
    BY StepSnapshot
  <1>3. ASSUME NEW q \in Procs \ {p}, Live(q) PROVE SnapshotInv(q)'
    <2>1. Same(q) /\ SnapshotInv(q)
      BY <1>1, <1>3, Frame DEF CleanInv
    <2> QED
      BY <1>1, <2>1, SameKept, KeepSnapshot DEF Same
  <1>4. ASSUME NEW x \in Paths \ reverted, NEW q \in file'[x].by PROVE q \in Seen' \union Open(x)'
    <2>1. CASE q = p
      BY <2>1, OwnChange, NewContent
    <2>2. CASE q # p
      <3>1. q \in Seen \union Open(x)
        <4>1. CASE file'[x] = file[x]
          BY <4>1 DEF CleanInv
        <4>2. CASE file'[x] # file[x]
          BY <2>2, <4>2, NewContent
        <4> QED
          BY <4>1, <4>2
      <3>2. q \in Open(x) => q \in Open(x)'
        BY <1>1, <2>2, Frame DEF Open, Same
      <3> QED
        BY <1>1, <3>1, <3>2
    <2> QED
      BY <2>1, <2>2
  <1> QED
    BY <1>1, <1>2, <1>3, <1>4 DEF CleanInv, Live

LEMMA OutsideClean == CleanInv /\ Outside => CleanInv'
  <1> SUFFICES ASSUME CleanInv, Outside PROVE CleanInv'
    OBVIOUS
  <1>1. FilesInv' /\ OutsideView
    BY OutsideFiles, OutsideIs DEF CleanInv, FilesInv, LocksInv, CallsInv
  <1>2. /\ \A q \in Procs : Same(q)
        /\ dead \subseteq dead' /\ reverted \subseteq reverted'
        /\ \A x \in Paths \ reverted' : file'[x].by = file[x].by
    BY <1>1 DEF OutsideView
  <1>3. Seen \subseteq Seen'
    BY <1>2 DEF Seen, Same
  <1>4. \A x \in Paths : Open(x) \subseteq Open(x)'
    BY <1>2 DEF Open, Same
  <1>5. ASSUME NEW q \in Procs, Live(q) PROVE SnapshotInv(q)'
    <2>1. \A i \in Kept(q)' : i \in Kept(q)
      BY <1>2 DEF Kept, Same, Count
    <2> QED
      BY <1>2, <1>3, <1>5, <2>1, KeepSnapshot DEF CleanInv, Same
  <1>6. ASSUME NEW x \in Paths \ reverted' PROVE file'[x].by \subseteq Seen' \union Open(x)'
    BY <1>2, <1>3, <1>4 DEF CleanInv
  <1>7. ASSUME NEW q \in Procs, Live(q)' PROVE SnapshotInv(q)'
    BY <1>2, <1>5, <1>7 DEF Live
  <1> QED
    BY <1>1, <1>6, <1>7 DEF CleanInv

LEMMA InitClean == Init => CleanInv
  <1> SUFFICES ASSUME Init PROVE CleanInv
    OBVIOUS
  <1>1. FilesInv
    BY InitFiles
  <1>2. \A x \in Paths : file[x].by = {}
    BY DEF Init
  <1>3. ASSUME NEW q \in Procs PROVE SnapshotInv(q)
    <2>1. Count(q) = 0
      BY DEF Init, Count
    <2>2. Kept(q) = {}
      BY <2>1 DEF Kept
    <2> QED
      BY <2>2 DEF SnapshotInv
  <1> QED
    BY <1>1, <1>2, <1>3 DEF CleanInv

LEMMA NextClean == CleanInv /\ [Next]_vars => CleanInv'
  BY NextIs, StepClean, OutsideClean

(* A call that fails leaves nothing behind: not in its files, not in files
   that others have read and written since, unless an unlocked reader that had
   parsed a file in between has put it back. *)
THEOREM FailureLeavesNothing == Spec => []RolledBack
  <1>1. CleanInv => RolledBack
    <2> SUFFICES ASSUME CleanInv, NEW p \in Procs, Live(p), NEW x \in Paths \ reverted, p \in file[x].by,
                        outcome[p] \in {"LockError", "SCHEMA_MISMATCH", "TransactionError"}
                 PROVE  FALSE
      BY DEF RolledBack
    <2>1. p \in Seen \union Open(x)
      BY DEF CleanInv
    <2>2. OutcomeInv(p)
      BY DEF CleanInv, FilesInv, LocksInv, CallsInv, LocalInv
    <2> QED
      BY <2>1, <2>2 DEF Seen, Open, Live, OutcomeInv
  <1> QED
    BY <1>1, InitClean, NextClean, PTL DEF Spec

------------------------------------------------------------------------------
(* The refinement: what those who take the locks see of the files. *)

InWrites(p) == Live(p) /\ pc[p] \in {"check", "write", "rollback"}

(* No other call moves, no other caller dies, and no file is put back. *)
Others(p) ==
  /\ reverted' = reverted
  /\ \A q \in Procs \ {p} : Same(q) /\ (q \in dead' <=> q \in dead)

LEMMA WriterIsOwner ==
  ASSUME LocksInv, NEW x \in Paths, NEW q \in Writing(x)
  PROVE  q \in Procs /\ owner[x] = q
  <1>1. q \in Procs /\ Live(q) /\ pc[q] \in Working /\ x \in ToSet(paths[q])
    BY DEF Writing, Working
  <1>2. PICK i \in DOMAIN paths[q] : x = paths[q][i]
    BY <1>1 DEF ToSet
  <1>3. DOMAIN paths[q] = 1..Count(q)
    BY <1>1, Types DEF LocksInv, CallsInv, Count
  <1> QED
    BY <1>1, <1>2, <1>3, HasAll

LEMMA Elements ==
  ASSUME Shape, NEW p \in Procs
  PROVE  /\ \A i \in 1..Count(p) : paths[p][i] \in Paths /\ paths[p][i] \in ToSet(paths[p])
         /\ \A x \in ToSet(paths[p]) : x \in Paths /\ \E i \in 1..Count(p) : x = paths[p][i]
  <1>1. paths[p] \in Seq(Paths) /\ DOMAIN paths[p] = 1..Count(p)
    BY Types DEF Count
  <1> QED
    BY <1>1 DEF ToSet, Count

LEMMA VisibleThroughWriter ==
  ASSUME LocksInv, NEW p \in Procs, InWrites(p), NEW i \in 1..Count(p), NEW x, x = paths[p][i]
  PROVE  Visible(x) = backup[p][i].by
  <1>1. x \in Paths /\ x \in ToSet(paths[p])
    BY Elements DEF LocksInv, CallsInv
  <1>2. Writing(x) = {p}
    <2>1. p \in Writing(x)
      BY <1>1 DEF Writing, InWrites
    <2> QED
      BY <1>1, <2>1, WriterIsOwner
  <1>3. DOMAIN paths[p] = 1..Count(p) /\ held[p] = Count(p)
    BY Types DEF LocksInv, CallsInv, LocalInv, ProgressInv, InWrites, Count
  <1>4. \A j \in DOMAIN paths[p] : paths[p][j] = x => j = i
    BY <1>3 DEF LocksInv, LockInv
  <1>5. (CHOOSE j \in DOMAIN paths[p] : paths[p][j] = x) = i
    BY <1>3, <1>4
  <1>6. (CHOOSE q \in Writing(x) : TRUE) = p
    BY <1>2
  <1> QED
    BY <1>2, <1>5, <1>6 DEF Visible

ThroughWriters ==
  \A p \in Procs : InWrites(p) =>
    \A i \in 1..Count(p), x \in Paths : x = paths[p][i] => Visible(x) = backup[p][i].by

LEMMA VisibleThroughWriters == LocksInv => ThroughWriters
  BY VisibleThroughWriter DEF ThroughWriters

LEMMA VisibleOpenly == ASSUME NEW x, Writing(x) = {} PROVE Visible(x) = file[x].by
  BY DEF Visible

LEMMA SameVisible ==
  ASSUME NEW x, Writing(x)' = Writing(x), Writing(x) = {} => file'[x].by = file[x].by,
         \A q \in Writing(x) : paths'[q] = paths[q] /\ backup'[q] = backup[q]
  PROVE  Visible(x)' = Visible(x)
  <1>1. CASE Writing(x) = {}
    BY <1>1 DEF Visible
  <1>2. CASE Writing(x) # {}
    <2> DEFINE q == CHOOSE r \in Writing(x) : TRUE
    <2>1. q \in Writing(x)
      BY <1>2
    <2>2. paths'[q] = paths[q] /\ backup'[q] = backup[q]
      BY <2>1
    <2> QED
      BY <1>2, <2>2 DEF Visible
  <1> QED
    BY <1>1, <1>2

LEMMA OthersWriting ==
  ASSUME NEW p \in Procs, Others(p), NEW x
  PROVE  /\ \A q \in Procs \ {p} : q \in Writing(x)' <=> q \in Writing(x)
         /\ p \in Writing(x) <=> InWrites(p) /\ x \in ToSet(paths[p])
         /\ p \in Writing(x)' <=> InWrites(p)' /\ x \in ToSet(paths'[p])
         /\ Writing(x) \subseteq Procs /\ Writing(x)' \subseteq Procs
  BY DEF Others, Same, Writing, InWrites, Live

LEMMA SameVisibleOf ==
  ASSUME NEW p \in Procs, Others(p), NEW x \in Paths,
         p \in Writing(x) <=> p \in Writing(x)',
         p \in Writing(x) => paths'[p] = paths[p] /\ backup'[p] = backup[p],
         p \notin Writing(x) => file'[x].by = file[x].by
  PROVE  Visible(x)' = Visible(x)
  <1>1. Writing(x)' = Writing(x)
    <2>1. \A q : q \in Writing(x)' <=> q \in Writing(x)
      BY OthersWriting
    <2> QED
      BY <2>1
  <1>2. \A q \in Writing(x) : paths'[q] = paths[q] /\ backup'[q] = backup[q]
    BY OthersWriting DEF Others, Same
  <1> QED
    BY <1>1, <1>2, SameVisible

(* A call that has its files to itself, and neither begins nor ends to write. *)
LEMMA VisibleOutsideWrites ==
  ASSUME NEW p \in Procs, Others(p), ~InWrites(p), ~InWrites(p)',
         NEW x \in Paths, file'[x].by = file[x].by
  PROVE  Visible(x)' = Visible(x)
  BY OthersWriting, SameVisibleOf

(* A call that is at its writes before and after. *)
LEMMA VisibleInWrites ==
  ASSUME LocksInv, NEW p \in Procs, Step(p), InWrites(p), InWrites(p)',
         paths'[p] = paths[p], backup'[p] = backup[p], NEW x \in Paths
  PROVE  Visible(x)' = Visible(x)
  <1>1. Others(p) /\ Shape
    BY Frame, StepDead DEF Others, LocksInv, CallsInv
  <1>2. p \in Writing(x) <=> p \in Writing(x)'
    BY <1>1, OthersWriting
  <1>3. p \notin Writing(x) => file'[x] = file[x]
    <2>1. SUFFICES ASSUME file'[x] # file[x] PROVE x \in ToSet(paths[p])
      BY <1>1, OthersWriting
    <2>2. owner[x] = p
      BY <2>1, FileStep
    <2>3. PICK i \in Has(p) : x = paths[p][i]
      BY <2>2 DEF LocksInv, LockInv, InWrites
    <2>4. i \in 1..Count(p)
      BY <1>1, Types DEF LocksInv, CallsInv, LocalInv, ProgressInv, InWrites, Has
    <2> QED
      BY <1>1, <2>3, <2>4, Elements
  <1> QED
    BY <1>1, <1>2, <1>3, SameVisibleOf

(* A call that turns to its writes has just seen what it keeps as originals. *)
LEMMA VisibleBeforeWrites ==
  ASSUME FilesInv, NEW p \in Procs, Step(p), ~InWrites(p), InWrites(p)', NEW x \in Paths \ reverted
  PROVE  /\ Visible(x)' = Visible(x) /\ paths'[p] = paths[p]
  <1>1. Others(p) /\ Shape /\ Live(p) /\ LocksInv /\ LocksInv' /\ LocalInv(p) /\ ContentInv(p)
    BY Frame, StepDead, StepLocks DEF Others, FilesInv, LocksInv, CallsInv
  <1>2. /\ Backup(p) /\ BackupView(p) /\ pc[p] = "backup" /\ AllDone(p)
        /\ backup'[p] = backup[p] /\ paths'[p] = paths[p] /\ file' = file
    <2>1. Backup(p)
      BY <1>1, BeginIs, AcquireIs, ReadIs, MutateIs, ReleaseIs
      DEF Step, InWrites, BeginView, AcquireView, ReadView, MutateView, ReleaseView,
          Check, Write, Rollback, At
    <2> QED
      BY <1>1, <2>1, BackupIs DEF BackupView, InWrites, At
  <1>3. CASE x \in ToSet(paths[p])
    <2>1. PICK i \in 1..Count(p) : x = paths[p][i]
      BY <1>1, <1>3, Elements
    <2>2. Visible(x)' = backup'[p][i].by
      <3>1. i \in 1..Count(p)' /\ x = paths'[p][i]
        BY <1>2, <2>1 DEF Count
      <3>2. (LocksInv => ThroughWriters)'
        BY VisibleThroughWriters, PTL
      <3> QED
        BY <1>1, <3>1, <3>2 DEF ThroughWriters
    <2>3. Writing(x) = {}
      <3>1. owner[x] = p
        BY <1>1, <1>2, <2>1, HasAll DEF Working
      <3>2. p \notin Writing(x)
        BY <1>1, OthersWriting
      <3> QED
        BY <1>1, <3>1, <3>2, WriterIsOwner
    <2>4. file[x].by = backup[p][i].by
      <3>1. i \in Kept(p) /\ i <= k[p]
        BY <1>1, <1>2, <2>1, Types DEF Kept, AllDone, Count
      <3> QED
        BY <1>1, <1>2, <2>1, <3>1 DEF ContentInv, Undone
    <2> QED
      BY <1>2, <2>2, <2>3, <2>4, VisibleOpenly
  <1>4. CASE x \notin ToSet(paths[p])
    BY <1>1, <1>2, <1>4, OthersWriting, SameVisibleOf
  <1> QED
    BY <1>2, <1>3, <1>4

(* A call that turns from its writes shows what it has left in its files. *)
LEMMA VisibleAfterWrites ==
  ASSUME LocksInv, NEW p \in Procs, Others(p), InWrites(p), ~InWrites(p)',
         \A x \in Paths : x \notin ToSet(paths[p]) => file'[x].by = file[x].by,
         NEW x \in Paths
  PROVE  /\ x \notin ToSet(paths[p]) => Visible(x)' = Visible(x)
         /\ \A i \in 1..Count(p) : x = paths[p][i] =>
              Visible(x) = backup[p][i].by /\ Visible(x)' = file'[x].by
  <1>1. x \notin ToSet(paths[p]) => Visible(x)' = Visible(x)
    BY OthersWriting, SameVisibleOf
  <1>2. ASSUME NEW i \in 1..Count(p), x = paths[p][i]
        PROVE  Visible(x) = backup[p][i].by /\ Visible(x)' = file'[x].by
    <2>1. Visible(x) = backup[p][i].by
      BY <1>2, VisibleThroughWriter
    <2>2. owner[x] = p
      BY <1>2, HasAll DEF InWrites, Working
    <2>3. Writing(x)' = {}
      BY <2>2, OthersWriting, WriterIsOwner
    <2> QED
      BY <2>1, <2>3 DEF Visible
  <1> QED
    BY <1>1, <1>2

LEMMA SameVerdict ==
  ASSUME NEW q, Same(q), q \in dead' <=> q \in dead
  PROVE  Verdict(q)' = Verdict(q)
  BY DEF Same, Verdict, Ended

LEMMA VerdictBefore ==
  ASSUME NEW p, Live(p), OutcomeInv(p), pc[p] \notin {"release", "done"}
  PROVE  Verdict(p) = "none"
  BY DEF Live, OutcomeInv, Verdict, Ended

LEMMA VerdictAfter ==
  ASSUME NEW p
  PROVE  /\ pc'[p] = "release" /\ outcome'[p] = "ok" => Verdict(p)' = "committed"
         /\ pc'[p] = "release" /\ outcome'[p] \in {"LockError", "SCHEMA_MISMATCH", "TransactionError"}
              => Verdict(p)' = "aborted"
         /\ pc'[p] = "release"
              => (outcome'[p] \in {"SchemaVersionMismatchError", "TransactionError, not rolled back"}
                    => Verdict(p)' = "torn")
         /\ outcome'[p] # "ok" /\ pc'[p] \notin {"release", "done"}
              => Verdict(p)' = IF p \in dead' THEN "torn" ELSE "none"
  <1> USE DEF Verdict, Ended
  <1>1. CASE outcome'[p] = "ok"
    BY <1>1
  <1>2. CASE outcome'[p] \in {"LockError", "SCHEMA_MISMATCH", "TransactionError"}
    BY <1>2
  <1>3. CASE outcome'[p] \in {"SchemaVersionMismatchError", "TransactionError, not rolled back"}
    BY <1>3
  <1>4. CASE pc'[p] \notin {"release", "done"} /\ outcome'[p] # "ok"
    BY <1>4
  <1> QED
    BY <1>1, <1>2, <1>3, <1>4

(* Nothing that AtomicCommit speaks of changes. *)
LEMMA Quiet ==
  ASSUME NEW p \in Procs, Others(p), paths'[p] = paths[p], Verdict(p)' = Verdict(p),
         \A x \in Paths \ reverted : Visible(x)' = Visible(x)
  PROVE  UNCHANGED Atomic!vars
  <1>1. \A q \in Procs : paths'[q] = paths[q] /\ Verdict(q)' = Verdict(q)
    BY SameVerdict DEF Others, Same
  <1>2. \A q \in Procs : ToSet(paths[q])' = ToSet(paths[q])
    BY <1>1 DEF ToSet
  <1>3. reverted' = reverted
    BY DEF Others
  <1> QED
    BY <1>1, <1>2, <1>3 DEF Atomic!vars

LEMMA Ends ==
  ASSUME Shape, NEW p \in Procs, LocalInv(p), Others(p), pc[p] # "idle", paths'[p] = paths[p],
         Verdict(p) = "none", NEW verdict, Verdict(p)' = verdict,
         NEW files \in SUBSET ToSet(paths[p]),
         \A x \in Paths \ reverted : Visible(x)' = IF x \in files THEN Visible(x) \union {p} ELSE Visible(x)
  PROVE  Atomic!End(p, files, verdict)
  <1>1. \A q \in Procs : paths'[q] = paths[q]
    BY DEF Others, Same
  <1>2. \A q \in Procs : ToSet(paths[q])' = ToSet(paths[q])
    BY <1>1 DEF ToSet
  <1>3. \A q \in Procs \ {p} : Verdict(q)' = Verdict(q)
    BY SameVerdict DEF Others
  <1>4. ToSet(paths[p]) # {}
    <2>1. 1 \in 1..Count(p)
      BY NeverEmpty, Types
    <2> QED
      BY <2>1, Elements
  <1>5. reverted' = reverted
    BY DEF Others
  <1>6. ASSUME NEW x \in Paths
        PROVE  (IF x \in reverted' THEN {} ELSE Visible(x)') =
                 IF x \in files \ reverted
                   THEN (IF x \in reverted THEN {} ELSE Visible(x)) \union {p}
                   ELSE (IF x \in reverted THEN {} ELSE Visible(x))
    BY <1>5
  <1> QED
    BY <1>2, <1>3, <1>4, <1>5, <1>6 DEF Atomic!End

(* What a call that is killed, refused or not rolled back leaves behind: its
   change, in those of its files that it had written and not restored. *)
LEMMA LeftBehind ==
  ASSUME FilesInv, NEW p \in Procs, Others(p), InWrites(p), ~InWrites(p)',
         \A x \in Paths : file'[x].by = file[x].by
  PROVE  \E files \in SUBSET ToSet(paths[p]) : \A x \in Paths \ reverted :
           Visible(x)' = IF x \in files THEN Visible(x) \union {p} ELSE Visible(x)
  <1> DEFINE files == {x \in ToSet(paths[p]) : p \in file[x].by}
  <1>1. LocksInv /\ Shape /\ ContentInv(p)
    BY DEF FilesInv, LocksInv, CallsInv, InWrites
  <1>2. ASSUME NEW x \in Paths \ reverted
        PROVE  Visible(x)' = IF x \in files THEN Visible(x) \union {p} ELSE Visible(x)
    <2>1. CASE x \notin ToSet(paths[p])
      BY <1>1, <2>1, VisibleAfterWrites
    <2>2. CASE x \in ToSet(paths[p])
      <3>1. PICK i \in 1..Count(p) : x = paths[p][i]
        BY <1>1, <2>2, Elements
      <3>2. Visible(x) = backup[p][i].by /\ Visible(x)' = file[x].by
        BY <1>1, <3>1, VisibleAfterWrites
      <3>3. file[x].by \in {backup[p][i].by, backup[p][i].by \union {p}}
        BY <1>1, <3>1 DEF ContentInv, InWrites, Kept
      <3> QED
        BY <2>2, <3>2, <3>3
    <2> QED
      BY <2>1, <2>2
  <1> QED
    BY <1>2

LEMMA TornStep ==
  ASSUME FilesInv, NEW p \in Procs, Others(p), pc[p] # "idle", paths'[p] = paths[p],
         Verdict(p) = "none", Verdict(p)' = "torn", ~InWrites(p)',
         \A x \in Paths : file'[x].by = file[x].by
  PROVE  Atomic!Next
  <1>1. Shape /\ LocalInv(p)
    BY DEF FilesInv, LocksInv, CallsInv
  <1>2. \E files \in SUBSET ToSet(paths[p]) : \A x \in Paths \ reverted :
          Visible(x)' = IF x \in files THEN Visible(x) \union {p} ELSE Visible(x)
    <2>1. CASE InWrites(p)
      BY <2>1, LeftBehind
    <2>2. CASE ~InWrites(p)
      <3>1. \A x \in Paths : Visible(x)' = Visible(x)
        BY <2>2, VisibleOutsideWrites
      <3>2. {} \in SUBSET ToSet(paths[p]) /\ \A x \in Paths \ reverted : x \notin {}
        OBVIOUS
      <3> QED
        BY <3>1, <3>2
    <2> QED
      BY <2>1, <2>2
  <1>3. PICK files \in SUBSET ToSet(paths[p]) : \A x \in Paths \ reverted :
          Visible(x)' = IF x \in files THEN Visible(x) \union {p} ELSE Visible(x)
    BY <1>2
  <1>4. Atomic!End(p, files, "torn")
    BY <1>1, <1>3, Ends
  <1> QED
    BY <1>4 DEF Atomic!Next, Atomic!Tear

LEMMA AbortStep ==
  ASSUME FilesInv, NEW p \in Procs, Others(p), pc[p] # "idle", paths'[p] = paths[p],
         Verdict(p) = "none", Verdict(p)' = "aborted",
         \A x \in Paths \ reverted : Visible(x)' = Visible(x)
  PROVE  Atomic!Next
  <1>1. Shape /\ LocalInv(p)
    BY DEF FilesInv, LocksInv, CallsInv
  <1>2. Atomic!End(p, {}, "aborted")
    BY <1>1, Ends
  <1> QED
    BY <1>2 DEF Atomic!Next, Atomic!Abort

LEMMA BeginAtomic ==
  ASSUME FilesInv, NEW p \in Procs, Begin(p)
  PROVE  Atomic!Next
  <1>1. /\ Shape /\ LocalInv(p) /\ Live(p) /\ BeginView(p) /\ pc[p] = "idle" /\ Others(p)
        /\ paths[p] = <<>> /\ outcome[p] = "none"
    <2>1. Step(p)
      BY DEF Step
    <2> QED
      BY <2>1, BeginIs, Frame, StepDead
      DEF FilesInv, LocksInv, CallsInv, Others, Begin, At, LocalInv, ProgressInv, OutcomeInv
  <1>2. \A x \in Paths : Visible(x)' = Visible(x)
    BY <1>1, VisibleOutsideWrites DEF BeginView, InWrites
  <1>3. \A q \in Procs : Verdict(q)' = Verdict(q)
    BY <1>1, SameVerdict, VerdictBefore, VerdictAfter DEF Others, BeginView, LocalInv, Live
  <1> DEFINE files == ToSet(paths'[p])
  <1>4. files \in SUBSET Paths /\ files # {}
    <2>1. PICK r \in Requests : paths'[p] \in Sorted(r)
      BY <1>1 DEF BeginView
    <2>2. files = ToSet(r)
      BY <2>1, SortedIs
    <2>3. r \in Seq(Paths) /\ r # <<>>
      BY TransactionAssumption
    <2>4. DOMAIN r = 1..Len(r) /\ 1 \in DOMAIN r /\ \A i \in DOMAIN r : r[i] \in Paths
      BY <2>3
    <2> QED
      BY <2>2, <2>4 DEF ToSet
  <1>5. \A q \in Procs \ {p} : ToSet(paths[q])' = ToSet(paths[q])
    BY <1>1 DEF Others, Same, ToSet
  <1>6. ToSet(paths[p]) = {} /\ ToSet(paths[p])' = files
    BY <1>1 DEF ToSet
  <1>7. reverted' = reverted
    BY <1>1 DEF Others
  <1> HIDE DEF files
  <1>8. Atomic!Begin(p, files)
    BY <1>2, <1>3, <1>4, <1>5, <1>6, <1>7 DEF Atomic!Begin
  <1> QED
    BY <1>4, <1>8 DEF Atomic!Next

LEMMA WriteAtomic ==
  ASSUME FilesInv, NEW p \in Procs, Write(p), pc'[p] = "release"
  PROVE  Atomic!Next
  <1>0. Step(p)
    BY DEF Step
  <1>1. /\ Shape /\ LocksInv /\ LocalInv(p) /\ ContentInv(p) /\ Live(p) /\ WriteView(p)
        /\ pc[p] = "write" /\ Others(p) /\ written[p] = k[p] /\ k[p] < Count(p)
    BY <1>0, WriteIs, Frame, StepDead
    DEF FilesInv, LocksInv, CallsInv, Others, Write, At, LocalInv, ProgressInv
  <1>2. /\ file' = [file EXCEPT ![Current(p)] = mem[p][k[p] + 1]]
        /\ ~(k[p] + 1 < Count(p)) /\ outcome'[p] = "ok" /\ paths'[p] = paths[p]
    BY <1>1 DEF WriteView
  <1>3. /\ k[p] \in Nat /\ Count(p) \in Nat
        /\ Current(p) = paths[p][k[p] + 1] /\ k[p] + 1 \in 1..Count(p)
    BY <1>1, Types, CurrentIsPath
  <1>4. \A x \in Paths : x # Current(p) => file'[x] = file[x]
    BY <1>1, <1>2 DEF Shape
  <1>5. InWrites(p) /\ ~InWrites(p)' /\ Current(p) \in ToSet(paths[p])
    BY <1>1, <1>3, Elements DEF InWrites
  <1>6. ASSUME NEW x \in Paths \ reverted
        PROVE  Visible(x)' = IF x \in ToSet(paths[p]) THEN Visible(x) \union {p} ELSE Visible(x)
    <2>1. CASE x \notin ToSet(paths[p])
      BY <1>1, <1>4, <1>5, <2>1, VisibleAfterWrites
    <2>2. CASE x \in ToSet(paths[p])
      <3>1. PICK i \in 1..Count(p) : x = paths[p][i]
        BY <1>1, <2>2, Elements
      <3>2. Visible(x) = backup[p][i].by /\ Visible(x)' = file'[x].by
        BY <1>1, <1>4, <1>5, <3>1, VisibleAfterWrites
      <3>3. file'[x].by = mem[p][i].by
        <4>1. CASE i = k[p] + 1
          BY <1>1, <1>2, <1>3, <3>1, <4>1 DEF Shape
        <4>2. CASE i # k[p] + 1
          <5>1. i \in 1..written[p]
            BY <1>1, <1>2, <1>3, <4>2
          <5>2. x # Current(p)
            <6>1. held[p] = Count(p) /\ LockInv(p)
              BY <1>1 DEF LocalInv, ProgressInv, LocksInv
            <6> QED
              BY <1>3, <3>1, <4>2, <6>1 DEF LockInv
          <5> QED
            BY <1>1, <1>4, <3>1, <5>1, <5>2, Types DEF ContentInv, Kept
        <4> QED
          BY <4>1, <4>2
      <3>4. mem[p][i].by = backup[p][i].by \union {p}
        BY <1>1, <3>1 DEF ContentInv, Kept
      <3> QED
        BY <2>2, <3>2, <3>3, <3>4
    <2> QED
      BY <2>1, <2>2
  <1>7. Verdict(p) = "none" /\ Verdict(p)' = "committed"
    BY <1>1, <1>2, VerdictBefore, VerdictAfter DEF LocalInv
  <1>8. Atomic!End(p, ToSet(paths[p]), "committed")
    BY <1>1, <1>2, <1>6, <1>7, Ends
  <1> QED
    BY <1>8 DEF Atomic!Next, Atomic!Commit

LEMMA RollbackAtomic ==
  ASSUME FilesInv, NEW p \in Procs, Rollback(p), pc'[p] = "release"
  PROVE  Atomic!Next
  <1>0. Step(p)
    BY DEF Step
  <1>1. /\ Shape /\ LocksInv /\ LocalInv(p) /\ ContentInv(p) /\ Live(p) /\ RollbackView(p)
        /\ pc[p] = "rollback" /\ Others(p) /\ written[p] <= Count(p)
        /\ outcome[p] \in {"none", "TransactionError, not rolled back"}
    BY <1>0, RollbackIs, Frame, StepDead
    DEF FilesInv, LocksInv, CallsInv, Others, Rollback, At, LocalInv, ProgressInv, OutcomeInv
  <1>2. /\ file' = file /\ k[p] = written[p] /\ paths'[p] = paths[p]
        /\ outcome'[p] = IF outcome[p] = "none" THEN "TransactionError" ELSE outcome[p]
        /\ k[p] \in Nat /\ Count(p) \in Nat
    BY <1>1, Types DEF RollbackView
  <1>3. InWrites(p) /\ ~InWrites(p)' /\ Verdict(p) = "none"
    BY <1>1, VerdictBefore DEF InWrites, LocalInv
  <1>4. CASE outcome[p] = "none"
    <2>1. ASSUME NEW x \in Paths \ reverted PROVE Visible(x)' = Visible(x)
      <3>1. CASE x \notin ToSet(paths[p])
        BY <1>1, <1>2, <1>3, <3>1, VisibleAfterWrites
      <3>2. CASE x \in ToSet(paths[p])
        <4>1. PICK i \in 1..Count(p) : x = paths[p][i]
          BY <1>1, <3>2, Elements
        <4>2. Visible(x) = backup[p][i].by /\ Visible(x)' = file[x].by
          BY <1>1, <1>2, <1>3, <4>1, VisibleAfterWrites
        <4>3. i \in Kept(p) /\ (i > written[p] \/ i <= k[p])
          BY <1>2, <4>1 DEF Kept
        <4>4. file[x].by = backup[p][i].by
          BY <1>1, <1>4, <4>1, <4>3 DEF ContentInv, Undone
        <4> QED
          BY <4>2, <4>4
      <3> QED
        BY <3>1, <3>2
    <2>2. Verdict(p)' = "aborted"
      BY <1>2, <1>4, VerdictAfter
    <2> QED
      BY <1>1, <1>2, <1>3, <2>1, <2>2, AbortStep
  <1>5. CASE outcome[p] # "none"
    <2>1. Verdict(p)' = "torn"
      BY <1>1, <1>2, <1>5, VerdictAfter
    <2> QED
      BY <1>1, <1>2, <1>3, <2>1, TornStep
  <1> QED
    BY <1>4, <1>5

LEMMA StepAtomic ==
  ASSUME FilesInv, NEW p \in Procs, Step(p)
  PROVE  Atomic!Next \/ UNCHANGED Atomic!vars
  <1>1. Shape /\ LocksInv /\ LocalInv(p) /\ OutcomeInv(p) /\ Live(p) /\ Others(p) /\ dead' = dead
    BY Frame, StepDead DEF FilesInv, LocksInv, CallsInv, Others, LocalInv
  <1>2. CASE Begin(p)
    BY <1>2, BeginAtomic
  <1>3. CASE Acquire(p) \/ Read(p)
    <2>1. /\ pc[p] \in {"lock", "read"} /\ file' = file /\ paths'[p] = paths[p]
          /\ \/ /\ pc'[p] \in {"lock", "read", "mutate"} /\ outcome'[p] = outcome[p]
             \/ /\ pc'[p] = "release" /\ outcome'[p] \in {"LockError", "SCHEMA_MISMATCH"}
      BY <1>1, <1>3, AcquireIs, ReadIs DEF AcquireView, ReadView, At
    <2>2. \A x \in Paths : Visible(x)' = Visible(x)
      BY <1>1, <2>1, VisibleOutsideWrites DEF InWrites
    <2>3. Verdict(p) = "none"
      BY <1>1, <2>1, VerdictBefore
    <2>4. CASE pc'[p] = "release"
      <3>1. Verdict(p)' = "aborted"
        BY <2>1, <2>4, VerdictAfter
      <3> QED
        BY <1>1, <2>1, <2>2, <2>3, <3>1, AbortStep
    <2>5. CASE pc'[p] # "release"
      <3>1. Verdict(p)' = "none"
        BY <1>1, <2>1, <2>5, VerdictAfter DEF OutcomeInv, Live
      <3> QED
        BY <1>1, <2>1, <2>2, <2>3, <3>1, Quiet
    <2> QED
      BY <2>4, <2>5
  <1>4. CASE (Mutate(p) \/ Backup(p) \/ Check(p) \/ Write(p) \/ Rollback(p)) /\ pc'[p] # "release"
    <2>1. /\ pc[p] \in {"mutate", "backup", "check", "write", "rollback"}
          /\ pc'[p] \in {"backup", "check", "write", "rollback"} /\ paths'[p] = paths[p]
          /\ ~InWrites(p) => file' = file
          /\ InWrites(p) => InWrites(p)' /\ backup'[p] = backup[p]
          /\ outcome'[p] # "ok"
      BY <1>1, <1>4, MutateIs, BackupIs, CheckIs, WriteIs, RollbackIs
      DEF MutateView, BackupView, CheckView, WriteView, RollbackView, At, InWrites, Live, OutcomeInv
    <2>2. \A x \in Paths \ reverted : Visible(x)' = Visible(x)
      BY <1>1, <2>1, VisibleOutsideWrites, VisibleBeforeWrites, VisibleInWrites
    <2>3. Verdict(p) = "none" /\ Verdict(p)' = "none"
      BY <1>1, <2>1, VerdictBefore, VerdictAfter DEF Live
    <2> QED
      BY <1>1, <2>1, <2>2, <2>3, Quiet
  <1>5. CASE (Mutate(p) \/ Backup(p) \/ Check(p)) /\ pc'[p] = "release"
    <2>1. /\ CheckView(p) /\ pc[p] = "check" /\ outcome'[p] = "SchemaVersionMismatchError"
          /\ file' = file /\ paths'[p] = paths[p]
      BY <1>1, <1>5, MutateIs, BackupIs, CheckIs DEF MutateView, BackupView, CheckView, At
    <2>2. Verdict(p) = "none" /\ Verdict(p)' = "torn" /\ ~InWrites(p)'
      BY <1>1, <1>5, <2>1, VerdictBefore, VerdictAfter DEF InWrites
    <2> QED
      BY <1>1, <2>1, <2>2, TornStep
  <1>6. CASE Write(p) /\ pc'[p] = "release"
    BY <1>6, WriteAtomic
  <1>7. CASE Rollback(p) /\ pc'[p] = "release"
    BY <1>7, RollbackAtomic
  <1>8. CASE Release(p)
    <2>1. /\ pc[p] = "release" /\ pc'[p] \in {"release", "done"} /\ outcome'[p] = outcome[p]
          /\ file' = file /\ paths'[p] = paths[p]
      BY <1>1, <1>8, ReleaseIs DEF ReleaseView, At
    <2>2. \A x \in Paths : Visible(x)' = Visible(x)
      BY <1>1, <2>1, VisibleOutsideWrites DEF InWrites
    <2>3. Verdict(p)' = Verdict(p)
      BY <1>1, <2>1 DEF Verdict, Ended
    <2> QED
      BY <1>1, <2>1, <2>2, <2>3, Quiet
  <1> QED
    BY <1>2, <1>3, <1>4, <1>5, <1>6, <1>7, <1>8 DEF Step

LEMMA DieAtomic ==
  ASSUME FilesInv, NEW p \in Procs, Die(p)
  PROVE  Atomic!Next \/ UNCHANGED Atomic!vars
  <1>1. /\ Shape /\ LocalInv(p) /\ OutcomeInv(p) /\ Live(p) /\ pc[p] \notin {"idle", "done"}
        /\ Others(p) /\ Same(p) /\ file' = file /\ p \in dead' /\ ~InWrites(p)'
    BY DEF FilesInv, LocksInv, CallsInv, LocalInv, Die, Others, Same, local, readers, InWrites, Live
  <1>2. CASE pc[p] = "release"
    <2>1. \A x \in Paths : Visible(x)' = Visible(x)
      BY <1>1, <1>2, VisibleOutsideWrites DEF InWrites
    <2>2. Verdict(p)' = Verdict(p)
      BY <1>1, <1>2 DEF Verdict, Ended, Same, OutcomeInv
    <2> QED
      BY <1>1, <2>1, <2>2, Quiet DEF Same
  <1>3. CASE pc[p] # "release"
    <2>1. Verdict(p) = "none" /\ Verdict(p)' = "torn"
      BY <1>1, <1>3, VerdictBefore, VerdictAfter DEF Same, OutcomeInv
    <2> QED
      BY <1>1, <2>1, TornStep DEF Same
  <1> QED
    BY <1>2, <1>3

LEMMA OpenlySame ==
  ASSUME Shape, OutsideView, UNCHANGED dead, NEW x \in Paths \ reverted'
  PROVE  Visible(x)' = Visible(x)
  <1>1. \A q \in Procs : Same(q)
    BY DEF OutsideView
  <1>2. Writing(x)' = Writing(x)
    BY <1>1 DEF Writing, Same, Live
  <1>3. \A q \in Writing(x) : paths'[q] = paths[q] /\ backup'[q] = backup[q]
    BY <1>1 DEF Writing, Same
  <1> QED
    BY <1>2, <1>3, SameVisible DEF OutsideView

LEMMA OutsideAtomic ==
  ASSUME FilesInv, \/ \E x \in Paths : Parse(x)
                   \/ \E snapshot \in parsed : WriteBack(snapshot)
                   \/ UNCHANGED vars
  PROVE  Atomic!Next \/ UNCHANGED Atomic!vars
  <1>1. Shape /\ OutsideView /\ UNCHANGED dead
    <2>1. Shape
      BY DEF FilesInv, LocksInv, CallsInv
    <2>2. UNCHANGED dead
      BY DEF Parse, WriteBack, vars
    <2> QED
      BY <2>1, <2>2, OutsideIs DEF Outside
  <1>2. \A q \in Procs : Verdict(q)' = Verdict(q) /\ ToSet(paths[q])' = ToSet(paths[q])
    BY <1>1, SameVerdict DEF OutsideView, Same, ToSet
  <1>3. \A x \in Paths \ reverted' : Visible(x)' = Visible(x)
    BY <1>1, OpenlySame
  <1>4. CASE UNCHANGED reverted
    BY <1>2, <1>3, <1>4 DEF Atomic!vars
  <1>5. ASSUME NEW y \in Paths, reverted' = reverted \union {y} PROVE Atomic!Next
    <2>1. Atomic!Overwrite(y)
      <3>1. ASSUME NEW x \in Paths
            PROVE  (IF x \in reverted' THEN {} ELSE Visible(x)') =
                     IF x = y THEN {} ELSE IF x \in reverted THEN {} ELSE Visible(x)
        BY <1>3, <1>5
      <3> QED
        BY <1>2, <1>5, <3>1 DEF Atomic!Overwrite
    <2> QED
      BY <2>1 DEF Atomic!Next
  <1>6. UNCHANGED reverted \/ \E y \in Paths : reverted' = reverted \union {y}
    BY <1>1, WriteBackIs DEF WriteBackView, Parse, vars, readers
  <1> QED
    BY <1>4, <1>5, <1>6

LEMMA InitAtomic == Init => Atomic!Init
  <1> SUFFICES ASSUME Init PROVE Atomic!Init
    OBVIOUS
  <1>1. ASSUME NEW x \in Paths PROVE Visible(x) = {}
    <2>1. Writing(x) = {}
      BY DEF Writing, Init
    <2> QED
      BY <2>1, VisibleOpenly DEF Init
  <1>2. ASSUME NEW p \in Procs PROVE ToSet(paths[p]) = {} /\ Verdict(p) = "none"
    BY DEF Init, ToSet, Verdict, Ended
  <1> QED
    BY <1>1, <1>2 DEF Atomic!Init, Init

(* transaction implements AtomicCommit: for whoever takes the locks a call
   changes all its files at once or none of them, unless it is torn in one of
   the ways AtomicCommit names, and then only its own files; a file that an
   unlocked reader puts back is lost to it, and no other. *)
THEOREM ImplementsAtomicCommit == Spec => CommitsAtomically
  <1>1. FilesInv /\ [Next]_vars => [Atomic!Next]_(Atomic!vars)
    BY StepAtomic, DieAtomic, OutsideAtomic DEF Next
  <1> QED
    BY <1>1, InitFiles, NextFiles, InitAtomic, PTL DEF Spec, CommitsAtomically, Atomic!Spec
==============================================================================

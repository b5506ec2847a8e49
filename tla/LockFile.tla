------------------------------ MODULE LockFile -------------------------------
(***************************************************************************)
(* The lock-file protocol of services/state-manager.ts, which every lock   *)
(* of the program goes through: StateManager.acquireLock (state.json),     *)
(* withRetryLock (the sessions map) and withLock (the convergence gate).   *)
(*                                                                         *)
(* A lock is a file published by link(2), which fails when the path is     *)
(* taken.  It names the process that took it.  A process that finds the    *)
(* lock taken may remove it, when it can prove the owner dead: it first    *)
(* takes a second lock file, <lock>.steal, the exclusive right to remove.  *)
(* Every action below is one file-system call, or one liveness probe; any  *)
(* process may be killed between two of them.                              *)
(*                                                                         *)
(* Left out: the staging and tombstone names themselves (they are private  *)
(* to one attempt), sleeps, and file-system faults other than "exists" and *)
(* "does not exist".  Pids are not reused.                                 *)
(***************************************************************************)
EXTENDS Integers, FiniteSets

CONSTANTS
  Procs,           \* processes that take the lock
  Nonces,          \* nonces a process writes into its lock files
  NoFile,          \* what a path that does not exist links to
  Caller,          \* which of the three retry loops takes the lock
  MaxLockRetries,  \* retries after the first attempt
  MaxSteals,       \* successful steals that cost StateManager no attempt
  MaxCrashes,      \* bound of the model: how many processes may be killed
  CrashInSteal     \* may a process be killed while it holds <lock>.steal?

Callers == {"StateManager", "withRetryLock", "withLock"}

(* One lock file: its bytes name the owner and the acquisition's nonce. *)
Files == [owner : Procs, nonce : Nonces]

ASSUME NoFileAssumption == NoFile \notin Files /\ NoFile \notin Procs
ASSUME LimitsAssumption == /\ Caller \in Callers
                           /\ MaxLockRetries \in Nat
                           /\ MaxSteals \in Nat
                           /\ MaxCrashes \in Nat
                           /\ CrashInSteal \in BOOLEAN

Paths == {"lock", "steal"}

VARIABLES
  link,     \* the file each path links to
  pc,       \* the call each process makes next
  held,     \* LockHandle of the lock the process believes it holds
  right,    \* LockHandle of the <lock>.steal file it holds
  snap,     \* LockSnapshot its verdict is about
  tomb,     \* the file its tombstone, a second link, keeps
  stolen,   \* what the steal callback returned
  attempt,  \* retries made by this call
  steals    \* steals made by this call

vars == <<link, pc, held, right, snap, tomb, stolen, attempt, steals>>

(* Labels of the calls made while holding <lock>.steal. *)
Stealing == {"inspect", "verdict", "link", "judge", "unlink",
             "releaseRight", "removeRight"}
(* Labels of the calls made while holding the lock itself. *)
Holding == {"held", "remove"}
(* Labels of a call that has not obtained the lock yet. *)
Waiting == {"acquire", "takeRight", "inspectRight", "rightVerdict",
            "rightLink", "rightJudge", "rightUnlink", "retakeRight"}
             \union Stealing
Labels == {"idle", "lockError", "dead"} \union Waiting \union Holding

Dead(p) == pc[p] = "dead"

TypeOK ==
  /\ link \in [Paths -> Files \union {NoFile}]
  /\ pc \in [Procs -> Labels]
  /\ held \in [Procs -> Files \union {NoFile}]
  /\ right \in [Procs -> Files \union {NoFile}]
  /\ snap \in [Procs -> Files \union {NoFile}]
  /\ tomb \in [Procs -> Files \union {NoFile}]
  /\ stolen \in [Procs -> BOOLEAN]
  /\ attempt \in [Procs -> 0..MaxLockRetries]
  /\ steals \in [Procs -> 0..MaxSteals]

None == [p \in Procs |-> NoFile]
Zero == [p \in Procs |-> 0]

Init ==
  /\ link = [path \in Paths |-> NoFile]
  /\ pc = [p \in Procs |-> "idle"]
  /\ held = None /\ right = None /\ snap = None /\ tomb = None
  /\ stolen = [p \in Procs |-> FALSE]
  /\ attempt = Zero /\ steals = Zero

------------------------------------------------------------------------------
(* Helpers. *)

Goto(p, label) == pc' = [pc EXCEPT ![p] = label]

(* The mistake sameLock guards against: an inode number alone, recycled as
   soon as the file is gone, is no identity. *)
SameRecycledInode(a, b) == TRUE

(* sameLock compares inode and bytes; the bytes hold the nonce, unique to
   an acquisition, so equality of the records is what it decides. *)
SameLock(a, b) == a = b

(* Every file a live reference still names. *)
Referenced == {link[path] : path \in Paths}
                \union UNION {{held[p], right[p], snap[p], tomb[p]} : p \in Procs}

(* stagingSuffix: a nonce no file anyone can still compare with carries. *)
NewFile(p) ==
  [owner |-> p,
   nonce |-> CHOOSE n \in Nonces : [owner |-> p, nonce |-> n] \notin Referenced]

(* linkSync(staging, path): publishes a new file, whole, on a free path. *)
Publish(p, path) == /\ link[path] = NoFile
                    /\ NewFile(p) \in Files
                    /\ link' = [link EXCEPT ![path] = NewFile(p)]

(* The first call of an attempt. *)
First == IF Caller = "withRetryLock" THEN "takeRight" ELSE "acquire"

(* One retry too many. *)
BackoffOneTooMany(p) ==
  /\ IF attempt[p] <= MaxLockRetries
       THEN /\ Goto(p, First)
            /\ attempt' = [attempt EXCEPT ![p] = @ + 1]
       ELSE /\ Goto(p, "lockError")
            /\ UNCHANGED attempt
  /\ UNCHANGED steals

(* A retry that is not counted. *)
BackoffUncounted(p) ==
  /\ Goto(p, First)
  /\ UNCHANGED <<attempt, steals>>

(* An attempt failed: sleep and retry, or throw LockError. *)
Backoff(p) ==
  /\ IF attempt[p] < MaxLockRetries
       THEN /\ Goto(p, First)
            /\ attempt' = [attempt EXCEPT ![p] = @ + 1]
       ELSE /\ Goto(p, "lockError")
            /\ UNCHANGED attempt
  /\ UNCHANGED steals

(* withStealRight returned: withRetryLock now tries to acquire whatever the
   outcome; StateManager retries at once, for free, after a steal. *)
StealReturns(p, success) ==
  \/ /\ Caller = "withRetryLock"
     /\ Goto(p, "acquire")
     /\ UNCHANGED <<attempt, steals>>
  \/ /\ Caller = "StateManager" /\ success
     /\ Goto(p, "acquire")
     /\ steals' = [steals EXCEPT ![p] = @ + 1]
     /\ UNCHANGED attempt
  \/ /\ Caller = "withLock" \/ (Caller = "StateManager" /\ ~success)
     /\ Backoff(p)

------------------------------------------------------------------------------
(* Taking the lock. *)

Call(p) ==
  /\ pc[p] \in {"idle", "lockError"}
  /\ Goto(p, First)
  /\ attempt' = [attempt EXCEPT ![p] = 0]
  /\ steals' = [steals EXCEPT ![p] = 0]
  /\ UNCHANGED <<link, held, right, snap, tomb, stolen>>

(* acquireLockFile(lock) *)
Acquire(p) ==
  /\ pc[p] = "acquire"
  /\ \/ /\ Publish(p, "lock")
        /\ held' = [held EXCEPT ![p] = NewFile(p)]
        /\ Goto(p, "held")
        /\ UNCHANGED <<attempt, steals>>
     \/ /\ link["lock"] # NoFile
        /\ \/ Caller = "StateManager" /\ steals[p] < MaxSteals
           \/ Caller = "withLock"
        /\ Goto(p, "takeRight")
        /\ UNCHANGED <<link, held, attempt, steals>>
     \/ /\ link["lock"] # NoFile
        /\ \/ Caller = "StateManager" /\ steals[p] >= MaxSteals
           \/ Caller = "withRetryLock"
        /\ Backoff(p)
        /\ UNCHANGED <<link, held>>
  /\ UNCHANGED <<right, snap, tomb, stolen>>

(* The body has run: releaseLockFile inspects the path ... *)
Release(p) ==
  /\ pc[p] = "held"
  /\ IF link["lock"] # NoFile /\ SameLock(link["lock"], held[p])
       THEN Goto(p, "remove") /\ UNCHANGED held
       ELSE Goto(p, "idle") /\ held' = [held EXCEPT ![p] = NoFile]
  /\ UNCHANGED <<link, right, snap, tomb, stolen, attempt, steals>>

(* ... and unlinks it by name. *)
Remove(p) ==
  /\ pc[p] = "remove"
  /\ link' = [link EXCEPT !["lock"] = NoFile]
  /\ held' = [held EXCEPT ![p] = NoFile]
  /\ Goto(p, "idle")
  /\ UNCHANGED <<right, snap, tomb, stolen, attempt, steals>>

------------------------------------------------------------------------------
(* inspectLockFile, stealLockFile: the same code for either path.  `from`  *)
(* is the label of the call, `to` of the next one, `miss` of what follows  *)
(* when there is nothing to steal.                                         *)

Inspect(p, path, from, to, miss) ==
  /\ pc[p] = from
  /\ \/ /\ link[path] # NoFile
        /\ snap' = [snap EXCEPT ![p] = link[path]]
        /\ Goto(p, to)
     \/ /\ link[path] = NoFile
        /\ Goto(p, miss)
        /\ UNCHANGED snap
  /\ UNCHANGED <<link, held, right, tomb, stolen, attempt, steals>>

(* linkSync(path, tombstone): the file stays published while it is judged. *)
LinkTombstone(p, path, from, to, miss) ==
  /\ pc[p] = from
  /\ \/ /\ link[path] # NoFile
        /\ tomb' = [tomb EXCEPT ![p] = link[path]]
        /\ Goto(p, to)
        /\ UNCHANGED snap
     \/ /\ link[path] = NoFile
        /\ snap' = [snap EXCEPT ![p] = NoFile]
        /\ Goto(p, miss)
        /\ UNCHANGED tomb
  /\ UNCHANGED <<link, held, right, stolen, attempt, steals>>

(* The tombstone is compared with the snapshot the verdict was about. *)
Judge(p, from, to, miss) ==
  /\ pc[p] = from
  /\ IF SameLock(tomb[p], snap[p])
       THEN Goto(p, to) /\ UNCHANGED <<snap, tomb>>
       ELSE /\ Goto(p, miss)
            /\ snap' = [snap EXCEPT ![p] = NoFile]
            /\ tomb' = [tomb EXCEPT ![p] = NoFile]
  /\ UNCHANGED <<link, held, right, stolen, attempt, steals>>

(* unlinkSync(path): by name, whatever the path links to by now. *)
Unlink(p, path, from, to) ==
  /\ pc[p] = from
  /\ link' = [link EXCEPT ![path] = NoFile]
  /\ snap' = [snap EXCEPT ![p] = NoFile]
  /\ tomb' = [tomb EXCEPT ![p] = NoFile]
  /\ Goto(p, to)
  /\ UNCHANGED <<held, right, attempt, steals>>

------------------------------------------------------------------------------
(* withStealRight: taking <lock>.steal, reclaiming it from a dead stealer. *)

(* Stealing without the right: every stealer is let in. *)
TakeNoRight(p) ==
  /\ pc[p] = "takeRight"
  /\ Goto(p, "inspect")
  /\ UNCHANGED <<link, held, right, snap, tomb, stolen, attempt, steals>>

TakeRight(p) ==
  /\ pc[p] = "takeRight"
  /\ \/ /\ Publish(p, "steal")
        /\ right' = [right EXCEPT ![p] = NewFile(p)]
        /\ Goto(p, "inspect")
     \/ /\ link["steal"] # NoFile
        /\ Goto(p, "inspectRight")
        /\ UNCHANGED <<link, right>>
  /\ UNCHANGED <<held, snap, tomb, stolen, attempt, steals>>

(* A right that has vanished or whose owner lives: back off. *)
InspectRight(p) ==
  /\ pc[p] = "inspectRight"
  /\ \/ /\ link["steal"] # NoFile
        /\ snap' = [snap EXCEPT ![p] = link["steal"]]
        /\ Goto(p, "rightVerdict")
        /\ UNCHANGED <<attempt, steals>>
     \/ /\ link["steal"] = NoFile
        /\ StealReturns(p, FALSE)
        /\ UNCHANGED snap
  /\ UNCHANGED <<link, held, right, tomb, stolen>>

(* A right taken from any holder, and one taken from nobody. *)
RightVerdictAnyone(p) ==
  /\ pc[p] = "rightVerdict"
  /\ Goto(p, "rightLink")
  /\ UNCHANGED <<link, held, right, snap, tomb, stolen, attempt, steals>>

RightVerdictNobody(p) ==
  /\ pc[p] = "rightVerdict"
  /\ snap' = [snap EXCEPT ![p] = NoFile]
  /\ StealReturns(p, FALSE)
  /\ UNCHANGED <<link, held, right, tomb, stolen>>

RightVerdict(p) ==
  /\ pc[p] = "rightVerdict"
  /\ \/ /\ Dead(snap[p].owner)
        /\ Goto(p, "rightLink")
        /\ UNCHANGED <<snap, attempt, steals>>
     \/ /\ ~Dead(snap[p].owner)
        /\ snap' = [snap EXCEPT ![p] = NoFile]
        /\ StealReturns(p, FALSE)
  /\ UNCHANGED <<link, held, right, tomb, stolen>>

RightLink(p) ==
  LinkTombstone(p, "steal", "rightLink", "rightJudge", "retakeRight")
RightJudge(p) == Judge(p, "rightJudge", "rightUnlink", "retakeRight")
RightUnlink(p) == /\ Unlink(p, "steal", "rightUnlink", "retakeRight")
                  /\ UNCHANGED stolen

RetakeRight(p) ==
  /\ pc[p] = "retakeRight"
  /\ \/ /\ Publish(p, "steal")
        /\ right' = [right EXCEPT ![p] = NewFile(p)]
        /\ Goto(p, "inspect")
        /\ UNCHANGED <<attempt, steals>>
     \/ /\ link["steal"] # NoFile
        /\ StealReturns(p, FALSE)
        /\ UNCHANGED <<link, right>>
  /\ UNCHANGED <<held, snap, tomb, stolen>>

------------------------------------------------------------------------------
(* The steal callback, run with the right held. *)

InspectLock(p) == Inspect(p, "lock", "inspect", "verdict", "releaseRight")

(* An age arm in every caller, and no arm at all. *)
StaleByAge(file) == BOOLEAN
NeverStale(file) == {FALSE}

(* Verdicts open to a caller: death is proof; only withRetryLock also takes
   the age of the file, which any lock may reach while its owner lives. *)
StaleVerdicts(file) ==
  IF Dead(file.owner) THEN {TRUE}
  ELSE IF Caller = "withRetryLock" THEN BOOLEAN ELSE {FALSE}

LockVerdict(p) ==
  /\ pc[p] = "verdict"
  /\ \/ /\ TRUE \in StaleVerdicts(snap[p])
        /\ Goto(p, "link")
        /\ UNCHANGED snap
     \/ /\ FALSE \in StaleVerdicts(snap[p])
        /\ Goto(p, "releaseRight")
        /\ snap' = [snap EXCEPT ![p] = NoFile]
  /\ UNCHANGED <<link, held, right, tomb, stolen, attempt, steals>>

LockLink(p) == LinkTombstone(p, "lock", "link", "judge", "releaseRight")
LockJudge(p) == Judge(p, "judge", "unlink", "releaseRight")

(* The unlink fails, and the steal with it, when the path is already free. *)
LockUnlink(p) ==
  /\ Unlink(p, "lock", "unlink", "releaseRight")
  /\ stolen' = [stolen EXCEPT ![p] = (link["lock"] # NoFile)]

(* finally: releaseLockFile(<lock>.steal), inspection then unlink by name. *)
ReleaseRight(p) ==
  /\ pc[p] = "releaseRight"
  /\ IF link["steal"] # NoFile /\ SameLock(link["steal"], right[p])
       THEN Goto(p, "removeRight") /\ UNCHANGED <<right, stolen, attempt, steals>>
       ELSE /\ StealReturns(p, stolen[p])
            /\ right' = [right EXCEPT ![p] = NoFile]
            /\ stolen' = [stolen EXCEPT ![p] = FALSE]
  /\ UNCHANGED <<link, held, snap, tomb>>

RemoveRight(p) ==
  /\ pc[p] = "removeRight"
  /\ link' = [link EXCEPT !["steal"] = NoFile]
  /\ right' = [right EXCEPT ![p] = NoFile]
  /\ stolen' = [stolen EXCEPT ![p] = FALSE]
  /\ StealReturns(p, stolen[p])
  /\ UNCHANGED <<held, snap, tomb>>

------------------------------------------------------------------------------
(* A process is killed: its files stay, its memory goes. *)
Crash(p) ==
  /\ ~Dead(p)
  /\ CrashInSteal \/ pc[p] \notin Stealing
  /\ Cardinality({q \in Procs : Dead(q)}) < MaxCrashes
  /\ Goto(p, "dead")
  /\ held' = [held EXCEPT ![p] = NoFile]
  /\ right' = [right EXCEPT ![p] = NoFile]
  /\ snap' = [snap EXCEPT ![p] = NoFile]
  /\ tomb' = [tomb EXCEPT ![p] = NoFile]
  /\ stolen' = [stolen EXCEPT ![p] = FALSE]
  /\ UNCHANGED <<link, attempt, steals>>

Steal(p) ==
  \/ TakeRight(p) \/ InspectRight(p) \/ RightVerdict(p) \/ RightLink(p)
  \/ RightJudge(p) \/ RightUnlink(p) \/ RetakeRight(p)
  \/ InspectLock(p) \/ LockVerdict(p) \/ LockLink(p) \/ LockJudge(p)
  \/ LockUnlink(p) \/ ReleaseRight(p) \/ RemoveRight(p)

Step(p) == Acquire(p) \/ Release(p) \/ Remove(p) \/ Steal(p)

Next == \E p \in Procs : Call(p) \/ Step(p) \/ Crash(p)

Spec == Init /\ [][Next]_vars

(* A process in the middle of a call or of the body keeps running; nobody
   is obliged to call. *)
Fairness == \A p \in Procs : WF_vars(Step(p))
FairSpec == Spec /\ Fairness

------------------------------------------------------------------------------
(* Properties. *)

(* Two processes never run the body a lock protects at the same time: the
   guarantee StateManager.update and transaction write state.json under. *)
MutualExclusion ==
  \A p, q \in Procs : pc[p] \in Holding /\ pc[q] \in Holding => p = q

(* withStealRight: at most one process at a time is between the inspection
   of a lock and its removal. *)
RightExclusive ==
  \A p, q \in Procs : pc[p] \in Stealing /\ pc[q] \in Stealing => p = q

(* withStealRight, withRetryLock: the lock a stealer removes is the very
   acquisition it inspected and judged, not one published since. *)
RemovesWhatItInspected ==
  [][\A p \in Procs : pc[p] = "unlink" /\ pc'[p] = "releaseRight"
       => link["lock"] \in {snap[p], NoFile}]_vars

(* The lock file never stops naming a process that is alive except when that
   process itself is giving the lock up: nobody evicts a live holder. *)
LiveHolderKeepsLock ==
  [][\A p \in Procs : pc[p] \in Holding /\ pc'[p] \in Holding
       => link'["lock"] = held[p]]_vars

(* A process left alone with whatever the dead ones left behind, the lock
   and <lock>.steal included, obtains the lock on its next call, never a
   LockError: no crash wedges a lock. *)
StartsAlone(p) == /\ pc[p] = First /\ attempt[p] = 0 /\ steals[p] = 0
                  /\ \A q \in Procs \ {p} : Dead(q)
SurvivorAcquires ==
  \A p \in Procs : StartsAlone(p) ~> (pc[p] \in {"held", "dead"})

(* A lock whose owner died is freed as long as someone keeps calling for it,
   however the callers interleave. *)
Stranded(d) == link["lock"] # NoFile /\ link["lock"].owner = d /\ Dead(d)
StrandedLockIsFreed ==
  []<>(\E p \in Procs : pc[p] \in Waiting)
    => \A d \in Procs : Stranded(d) ~> ~Stranded(d)

(* Every call ends, in the lock or in a LockError: the steals that cost
   acquireLock no attempt do not add up to an endless loop. *)
CallsReturn ==
  \A p \in Procs : pc[p] \in Waiting ~> pc[p] \notin Waiting

------------------------------------------------------------------------------
(* Refinement of the abstract lock. *)
owner == IF link["lock"] = NoFile THEN NoFile ELSE link["lock"].owner
inside == {p \in Procs : pc[p] \in Holding}
dead == {p \in Procs : Dead(p)}

M == INSTANCE Mutex WITH Nobody <- NoFile
MutexSpec == M!Spec
==============================================================================

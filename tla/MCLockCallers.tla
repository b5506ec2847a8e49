---------------------------- MODULE MCLockCallers ----------------------------
(***************************************************************************)
(* The liveness of two retry loops over the same kind of lock file:        *)
(* StateManager, which tries, then steals (Procs, module LockFile as it    *)
(* is), and withRetryLock, which steals first (RetryProcs, the instance    *)
(* Retries).  The two never share a lock, so in every behaviour one family *)
(* is dead from the start.  The members of a family are interchangeable:   *)
(* what is promised to one, Anyone or AnyRetrier, is promised to each.     *)
(***************************************************************************)
EXTENDS LockFile

CONSTANTS RetryProcs, Anyone, AnyRetrier

ASSUME FamilyAssumption ==
    /\ Procs \cap RetryProcs = {}
    /\ Anyone \in Procs /\ AnyRetrier \in RetryProcs
    /\ MaxCrashes < Cardinality(Procs) /\ MaxCrashes < Cardinality(RetryProcs)

Retries == INSTANCE LockFile WITH
    Procs <- RetryProcs, Caller <- "withRetryLock", MaxLockRetries <- 0

Everybody == Procs \cup RetryProcs

FamilyInit ==
    /\ link = [path \in Paths |-> NoFile]
    /\ \E family \in {Procs, RetryProcs} :
         pc = [p \in Everybody |-> IF p \in family THEN "idle" ELSE "dead"]
    /\ held = [p \in Everybody |-> NoFile]
    /\ right = held /\ snap = held /\ tomb = held
    /\ stolen = [p \in Everybody |-> FALSE]
    /\ attempt = [p \in Everybody |-> 0] /\ steals = attempt

FamilySpec ==
    /\ FamilyInit /\ [][Next \/ Retries!Next]_vars
    /\ Fairness /\ Retries!Fairness

\* The family of this behaviour, of which one is always alive.
StateManagers == \E p \in Procs : ~Dead(p)
Me == IF StateManagers THEN Anyone ELSE AnyRetrier

\* See LockFile: no crash wedges a lock, for either loop.
EitherSurvivorAcquires ==
    (IF StateManagers THEN StartsAlone(Anyone) ELSE Retries!StartsAlone(AnyRetrier))
        ~> pc[Me] \in {"held", "dead"}

\* See LockFile: the lock of a dead StateManager is freed under contention.
AnyStrandedLockIsFreed ==
    []<>(\E p \in Procs : pc[p] \in Waiting) => (Stranded(Anyone) ~> ~Stranded(Anyone))

\* See LockFile: every call of either loop ends.
EitherCallReturns == pc[Me] \in Waiting ~> pc[Me] \notin Waiting
==============================================================================

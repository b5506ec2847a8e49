---------------------------- MODULE LockFileProofs ---------------------------
(***************************************************************************)
(* Proofs about LockFile, for every set of processes, every retry budget   *)
(* and any number of crashes.                                              *)
(***************************************************************************)
EXTENDS LockFile, TLAPS

(* acquireLock enters withStealRight only while its steals are below the
   limit, and stays below it until the steal returns. *)
StealBudget ==
  \A p \in Procs :
    Caller = "StateManager" /\ pc[p] \in Waiting \ {"acquire"}
      => steals[p] < MaxSteals

TypeInv == TypeOK /\ StealBudget

LEMMA NewFileIsFile ==
  ASSUME NEW p \in Procs, NEW path \in Paths, Publish(p, path)
  PROVE  /\ NewFile(p) \in Files
         /\ NewFile(p).owner = p
         /\ NewFile(p) # NoFile
BY NoFileAssumption DEF Publish, NewFile

LEMMA TypeInvInit == Init => TypeInv
BY LimitsAssumption
DEF Init, TypeInv, TypeOK, StealBudget, None, Zero, Labels, Waiting, Stealing,
    Holding, Callers

(* What StealReturns leaves: the one place where the budgets move. *)
LEMMA StealReturnsType ==
  ASSUME TypeInv, NEW p \in Procs, NEW success \in BOOLEAN,
         pc[p] \in Waiting \ {"acquire"}, StealReturns(p, success)
  PROVE  /\ pc' \in [Procs -> Labels]
         /\ attempt' \in [Procs -> 0..MaxLockRetries]
         /\ steals' \in [Procs -> 0..MaxSteals]
         /\ StealBudget'
<1> USE LimitsAssumption
    DEF TypeInv, TypeOK, StealBudget, Labels, Waiting, Stealing, Holding,
        Goto, First, Callers
<1>1. CASE Caller = "withRetryLock"
  BY <1>1 DEF StealReturns
<1>2. CASE Caller = "StateManager" /\ success
  BY <1>2 DEF StealReturns
<1>3. CASE Caller = "withLock" \/ (Caller = "StateManager" /\ ~success)
  <2>1. Backoff(p)
    BY <1>3 DEF StealReturns
  <2> QED BY <2>1, <1>3 DEF Backoff
<1> QED BY <1>1, <1>2, <1>3 DEF StealReturns

LEMMA TypeInvNext == TypeInv /\ [Next]_vars => TypeInv'
<1> SUFFICES ASSUME TypeInv, [Next]_vars
             PROVE  TypeInv'
  OBVIOUS
<1> USE LimitsAssumption, NoFileAssumption
<1>1. ASSUME NEW p \in Procs, Call(p)
      PROVE  TypeInv'
  BY <1>1 DEF Call, Goto, First, TypeInv, TypeOK, StealBudget, Labels, Waiting,
              Stealing, Holding, Callers
<1>2. ASSUME NEW p \in Procs, Acquire(p)
      PROVE  TypeInv'
  <2> USE DEF TypeInv, TypeOK, StealBudget, Labels, Waiting, Stealing, Holding,
              Goto, First, Callers, Paths
  <2>1. CASE Publish(p, "lock")
    BY <1>2, <2>1, NewFileIsFile DEF Acquire, Publish
  <2>2. CASE link["lock"] # NoFile
    BY <1>2, <2>2 DEF Acquire, Publish, Backoff
  <2> QED BY <1>2, <2>1, <2>2 DEF Acquire
<1>3. ASSUME NEW p \in Procs, Release(p) \/ Remove(p)
      PROVE  TypeInv'
  BY <1>3 DEF Release, Remove, Goto, TypeInv, TypeOK, StealBudget, Labels,
              Waiting, Stealing, Holding, Paths
<1>4. ASSUME NEW p \in Procs, TakeRight(p)
      PROVE  TypeInv'
  <2> USE DEF TypeInv, TypeOK, StealBudget, Labels, Waiting, Stealing, Holding,
              Goto, Paths
  <2>1. CASE Publish(p, "steal")
    BY <1>4, <2>1, NewFileIsFile DEF TakeRight, Publish
  <2>2. CASE link["steal"] # NoFile
    BY <1>4, <2>2 DEF TakeRight, Publish
  <2> QED BY <1>4, <2>1, <2>2 DEF TakeRight
<1>5. ASSUME NEW p \in Procs, InspectRight(p) \/ RightVerdict(p)
      PROVE  TypeInv'
  <2>1. CASE StealReturns(p, FALSE)
    <3>1. pc[p] \in Waiting \ {"acquire"}
      BY <1>5 DEF InspectRight, RightVerdict, Waiting, Stealing
    <3>2. /\ pc' \in [Procs -> Labels]
          /\ attempt' \in [Procs -> 0..MaxLockRetries]
          /\ steals' \in [Procs -> 0..MaxSteals]
          /\ StealBudget'
      BY <2>1, <3>1, StealReturnsType
    <3> QED BY <1>5, <3>2 DEF InspectRight, RightVerdict, TypeInv, TypeOK, Paths
  <2>2. CASE ~StealReturns(p, FALSE)
    BY <1>5, <2>2
    DEF InspectRight, RightVerdict, Goto, TypeInv, TypeOK, StealBudget, Labels,
        Waiting, Stealing, Holding, Paths
  <2> QED BY <1>5, <2>1, <2>2 DEF InspectRight, RightVerdict
<1>6. ASSUME NEW p \in Procs, RetakeRight(p)
      PROVE  TypeInv'
  <2>1. CASE ~(link["steal"] # NoFile)
    <3>1. Publish(p, "steal") /\ UNCHANGED <<attempt, steals>>
      BY <1>6, <2>1 DEF RetakeRight
    <3>2. NewFile(p) \in Files
      BY <3>1 DEF Publish
    <3> QED
      BY <1>6, <2>1, <3>1, <3>2
      DEF RetakeRight, Publish, Goto, TypeInv, TypeOK, StealBudget, Labels,
          Waiting, Stealing, Holding, Paths
  <2>2. CASE link["steal"] # NoFile
    <3>1. pc[p] \in Waiting \ {"acquire"}
      BY <1>6 DEF RetakeRight, Waiting, Stealing
    <3>2. /\ pc' \in [Procs -> Labels]
          /\ attempt' \in [Procs -> 0..MaxLockRetries]
          /\ steals' \in [Procs -> 0..MaxSteals]
          /\ StealBudget'
      BY <1>6, <2>2, <3>1, StealReturnsType DEF RetakeRight, Publish
    <3> QED BY <1>6, <2>2, <3>2 DEF RetakeRight, Publish, TypeInv, TypeOK, Paths
  <2> QED BY <1>6, <2>1, <2>2 DEF RetakeRight
<1>7. ASSUME NEW p \in Procs,
             \/ RightLink(p) \/ RightJudge(p) \/ RightUnlink(p)
             \/ InspectLock(p) \/ LockVerdict(p) \/ LockLink(p)
             \/ LockJudge(p) \/ LockUnlink(p)
      PROVE  TypeInv'
  <2>1. CASE RightLink(p) \/ LockLink(p)
    BY <2>1 DEF RightLink, LockLink, LinkTombstone, Goto, TypeInv, TypeOK,
        StealBudget, Labels, Waiting, Stealing, Holding, Paths
  <2>2. CASE RightJudge(p) \/ LockJudge(p)
    BY <2>2 DEF RightJudge, LockJudge, Judge, Goto, TypeInv, TypeOK,
        StealBudget, Labels, Waiting, Stealing, Holding, Paths
  <2>3. CASE RightUnlink(p)
    BY <2>3 DEF RightUnlink, Unlink, Goto, TypeInv, TypeOK, StealBudget, Labels,
        Waiting, Stealing, Holding, Paths
  <2>4. CASE LockUnlink(p)
    <3>1. (link["lock"] # NoFile) \in BOOLEAN
      OBVIOUS
    <3>2. stolen' \in [Procs -> BOOLEAN]
      BY <2>4, <3>1, Zenon DEF LockUnlink, TypeInv, TypeOK
    <3> QED
      BY <2>4, <3>2 DEF LockUnlink, Unlink, Goto, TypeInv, TypeOK, StealBudget,
          Labels, Waiting, Stealing, Holding, Paths
  <2>5. CASE InspectLock(p)
    BY <2>5 DEF InspectLock, Inspect, Goto, TypeInv, TypeOK, StealBudget, Labels,
        Waiting, Stealing, Holding, Paths
  <2>6. CASE LockVerdict(p)
    BY <2>6 DEF LockVerdict, Goto, TypeInv, TypeOK, StealBudget, Labels, Waiting,
        Stealing, Holding, Paths
  <2> QED BY <1>7, <2>1, <2>2, <2>3, <2>4, <2>5, <2>6
<1>8. ASSUME NEW p \in Procs, ReleaseRight(p) \/ RemoveRight(p)
      PROVE  TypeInv'
  <2>1. CASE StealReturns(p, stolen[p])
    <3>1. stolen[p] \in BOOLEAN
      BY DEF TypeInv, TypeOK
    <3>2. pc[p] \in Waiting \ {"acquire"}
      BY <1>8 DEF ReleaseRight, RemoveRight, Waiting, Stealing
    <3>3. /\ pc' \in [Procs -> Labels]
          /\ attempt' \in [Procs -> 0..MaxLockRetries]
          /\ steals' \in [Procs -> 0..MaxSteals]
          /\ StealBudget'
      BY <2>1, <3>1, <3>2, StealReturnsType
    <3> QED BY <1>8, <3>3
        DEF ReleaseRight, RemoveRight, TypeInv, TypeOK, Paths
  <2>2. CASE ~StealReturns(p, stolen[p])
    BY <1>8, <2>2
    DEF ReleaseRight, RemoveRight, Goto, TypeInv, TypeOK, StealBudget, Labels,
        Waiting, Stealing, Holding, Paths
  <2> QED BY <2>1, <2>2
<1>9. ASSUME NEW p \in Procs, Crash(p)
      PROVE  TypeInv'
  BY <1>9 DEF Crash, Goto, TypeInv, TypeOK, StealBudget, Labels, Waiting,
              Stealing, Holding
<1>10. CASE UNCHANGED vars
  BY <1>10 DEF vars, TypeInv, TypeOK, StealBudget
<1> QED
  BY <1>1, <1>2, <1>3, <1>4, <1>5, <1>6, <1>7, <1>8, <1>9, <1>10
  DEF Next, Step, Steal

(* The state stays well typed and the retry and steal budgets are kept. *)
THEOREM TypeCorrect == Spec => []TypeOK
<1>1. TypeInv => TypeOK
  BY DEF TypeInv
<1> QED BY <1>1, TypeInvInit, TypeInvNext, PTL DEF Spec

------------------------------------------------------------------------------
(***************************************************************************)
(* Safety, for the callers whose verdict is proof of death only, when no   *)
(* process dies inside withStealRight.  Neither hypothesis can be dropped: *)
(* an age arm takes locks from the living, and two deaths defeat the lock. *)
(*                                                                         *)
(* A holder's file is at the lock path, a stealer's at <lock>.steal, and   *)
(* the latter always names a live stealer.  A snapshot judged dead names a *)
(* process that publishes nothing any more, so a file that matched it at   *)
(* the lock path stays there until the stealer, alone, unlinks it; and a   *)
(* file found at <lock>.steal never matches one.                           *)
(***************************************************************************)
HolderInv ==
  \A p \in Procs : pc[p] \in Holding =>
    /\ held[p] \in Files
    /\ held[p].owner = p
    /\ link["lock"] = held[p]

RightInv ==
  /\ \A p \in Procs : pc[p] \in Stealing =>
       /\ right[p] \in Files
       /\ right[p].owner = p
       /\ link["steal"] = right[p]
  /\ link["steal"] # NoFile => pc[link["steal"].owner] \in Stealing

DeadRightInv ==
  \A p \in Procs :
    /\ pc[p] \in {"rightVerdict", "rightLink", "rightJudge"} => snap[p] \in Files
    /\ pc[p] \in {"rightLink", "rightJudge"} => Dead(snap[p].owner)
    /\ pc[p] = "rightJudge" => tomb[p] # snap[p]
    /\ pc[p] # "rightUnlink"

VerdictInv ==
  \A p \in Procs :
    /\ pc[p] \in {"verdict", "link", "judge", "unlink"} => snap[p] \in Files
    /\ pc[p] \in {"link", "judge", "unlink"} => Dead(snap[p].owner)
    /\ pc[p] = "judge" /\ tomb[p] = snap[p] => link["lock"] = snap[p]
    /\ pc[p] = "unlink" => link["lock"] = snap[p]

SafetyInv == TypeInv /\ HolderInv /\ RightInv /\ DeadRightInv /\ VerdictInv

ProofOfDeathOnly == Caller \in {"StateManager", "withLock"}
NoDeathInSteal == CrashInSteal = FALSE

LEMMA SafetyInit == Init => SafetyInv
BY TypeInvInit
DEF Init, SafetyInv, HolderInv, RightInv, DeadRightInv, VerdictInv, Holding,
    Stealing, Paths

(* Wherever a steal returns to, it is outside both critical sections. *)
LEMMA StealReturnsTo ==
  ASSUME NEW p \in Procs, NEW success \in BOOLEAN, StealReturns(p, success)
  PROVE  \E l \in {"acquire", "takeRight", "lockError"} :
            pc' = [pc EXCEPT ![p] = l]
BY DEF StealReturns, Backoff, Goto, First

LEMMA SafetyNext ==
  ASSUME ProofOfDeathOnly, NoDeathInSteal, SafetyInv, [Next]_vars
  PROVE  SafetyInv'
<1>t. TypeInv'
  BY TypeInvNext DEF SafetyInv
<1> SUFFICES /\ HolderInv'
             /\ RightInv'
             /\ DeadRightInv'
             /\ VerdictInv'
  BY <1>t DEF SafetyInv
<1>f. \A f \in Files : f.owner \in Procs
  BY DEF Files
<1> USE NoFileAssumption, <1>f
    DEF SafetyInv, TypeInv, TypeOK, Holding, Stealing, Dead, Paths
<1>1. ASSUME NEW p \in Procs, Call(p)
      PROVE  HolderInv' /\ RightInv' /\ DeadRightInv' /\ VerdictInv'
  <2>1. HolderInv'
    BY <1>1
    DEF Call, Goto, First, HolderInv, VerdictInv
  <2>2. RightInv'
    BY <1>1
    DEF Call, Goto, First, RightInv
  <2>3. DeadRightInv'
    BY <1>1
    DEF Call, Goto, First, DeadRightInv, RightInv
  <2>4. VerdictInv'
    BY <1>1
    DEF Call, Goto, First, VerdictInv, HolderInv, RightInv
  <2> QED BY <2>1, <2>2, <2>3, <2>4
<1>2. ASSUME NEW p \in Procs, Acquire(p)
      PROVE  HolderInv' /\ RightInv' /\ DeadRightInv' /\ VerdictInv'
  <2>f. NewFile(p).owner = p
    BY DEF NewFile
  <2>1. HolderInv'
    BY <1>2, <2>f
    DEF Acquire, Publish, Backoff, First, Goto, HolderInv, VerdictInv
  <2>2. RightInv'
    BY <1>2, <2>f
    DEF Acquire, Publish, Backoff, First, Goto, RightInv
  <2>3. DeadRightInv'
    BY <1>2, <2>f
    DEF Acquire, Publish, Backoff, First, Goto, DeadRightInv, RightInv
  <2>4. VerdictInv'
    BY <1>2, <2>f
    DEF Acquire, Publish, Backoff, First, Goto, VerdictInv, HolderInv, RightInv
  <2> QED BY <2>1, <2>2, <2>3, <2>4
<1>3. ASSUME NEW p \in Procs, Release(p)
      PROVE  HolderInv' /\ RightInv' /\ DeadRightInv' /\ VerdictInv'
  <2>1. HolderInv'
    BY <1>3
    DEF Release, Goto, HolderInv, VerdictInv
  <2>2. RightInv'
    BY <1>3
    DEF Release, Goto, RightInv
  <2>3. DeadRightInv'
    BY <1>3
    DEF Release, Goto, DeadRightInv, RightInv
  <2>4. VerdictInv'
    BY <1>3
    DEF Release, Goto, VerdictInv, HolderInv, RightInv
  <2> QED BY <2>1, <2>2, <2>3, <2>4
<1>4. ASSUME NEW p \in Procs, Remove(p)
      PROVE  HolderInv' /\ RightInv' /\ DeadRightInv' /\ VerdictInv'
  <2>1. HolderInv'
    BY <1>4
    DEF Remove, Goto, HolderInv, VerdictInv
  <2>2. RightInv'
    BY <1>4
    DEF Remove, Goto, RightInv
  <2>3. DeadRightInv'
    BY <1>4
    DEF Remove, Goto, DeadRightInv, RightInv
  <2>4. VerdictInv'
    BY <1>4
    DEF Remove, Goto, VerdictInv, HolderInv, RightInv
  <2> QED BY <2>1, <2>2, <2>3, <2>4
<1>5. ASSUME NEW p \in Procs, TakeRight(p)
      PROVE  HolderInv' /\ RightInv' /\ DeadRightInv' /\ VerdictInv'
  <2>f. NewFile(p).owner = p
    BY DEF NewFile
  <2>1. HolderInv'
    BY <1>5, <2>f
    DEF TakeRight, Publish, Goto, HolderInv, VerdictInv
  <2>2. RightInv'
    BY <1>5, <2>f
    DEF TakeRight, Publish, Goto, RightInv
  <2>3. DeadRightInv'
    BY <1>5, <2>f
    DEF TakeRight, Publish, Goto, DeadRightInv, RightInv
  <2>4. VerdictInv'
    BY <1>5, <2>f
    DEF TakeRight, Publish, Goto, VerdictInv, HolderInv, RightInv
  <2> QED BY <2>1, <2>2, <2>3, <2>4
<1>6. ASSUME NEW p \in Procs, InspectRight(p)
      PROVE  HolderInv' /\ RightInv' /\ DeadRightInv' /\ VerdictInv'
  <2>r. /\ pc[p] = "inspectRight"
        /\ UNCHANGED <<link, held, right, tomb>>
        /\ \/ /\ link["steal"] # NoFile
              /\ snap' = [snap EXCEPT ![p] = link["steal"]]
              /\ pc' = [pc EXCEPT ![p] = "rightVerdict"]
           \/ /\ snap' = snap
              /\ \E l \in {"acquire", "takeRight", "lockError"} :
                pc' = [pc EXCEPT ![p] = l]
    <3>1. CASE StealReturns(p, FALSE)
      BY <1>6, <3>1, StealReturnsTo DEF InspectRight, Goto
    <3>2. CASE ~StealReturns(p, FALSE)
      BY <1>6, <3>2 DEF InspectRight, Goto
    <3> QED BY <3>1, <3>2
  <2>1. HolderInv'
    BY <2>r
    DEF HolderInv, VerdictInv
  <2>2. RightInv'
    BY <2>r
    DEF RightInv
  <2>3. DeadRightInv'
    BY <2>r
    DEF DeadRightInv, RightInv
  <2>4. VerdictInv'
    BY <2>r
    DEF VerdictInv, HolderInv, RightInv
  <2> QED BY <2>1, <2>2, <2>3, <2>4
<1>7. ASSUME NEW p \in Procs, RightVerdict(p)
      PROVE  HolderInv' /\ RightInv' /\ DeadRightInv' /\ VerdictInv'
  <2>r. /\ pc[p] = "rightVerdict"
        /\ UNCHANGED <<link, held, right, tomb>>
        /\ \/ /\ Dead(snap[p].owner)
              /\ pc' = [pc EXCEPT ![p] = "rightLink"]
              /\ UNCHANGED snap
           \/ /\ snap' = [snap EXCEPT ![p] = NoFile]
              /\ \E l \in {"acquire", "takeRight", "lockError"} :
                pc' = [pc EXCEPT ![p] = l]
    <3>1. CASE StealReturns(p, FALSE)
      BY <1>7, <3>1, StealReturnsTo DEF RightVerdict, Goto
    <3>2. CASE ~StealReturns(p, FALSE)
      BY <1>7, <3>2 DEF RightVerdict, Goto
    <3> QED BY <3>1, <3>2
  <2>1. HolderInv'
    BY <2>r
    DEF HolderInv, VerdictInv
  <2>2. RightInv'
    BY <2>r
    DEF RightInv
  <2>3. DeadRightInv'
    BY <2>r
    DEF DeadRightInv, RightInv
  <2>4. VerdictInv'
    BY <2>r
    DEF VerdictInv, HolderInv, RightInv
  <2> QED BY <2>1, <2>2, <2>3, <2>4
<1>8. ASSUME NEW p \in Procs, RightLink(p)
      PROVE  HolderInv' /\ RightInv' /\ DeadRightInv' /\ VerdictInv'
  <2>1. HolderInv'
    BY <1>8
    DEF RightLink, LinkTombstone, Goto, HolderInv, VerdictInv
  <2>2. RightInv'
    BY <1>8
    DEF RightLink, LinkTombstone, Goto, RightInv
  <2>3. DeadRightInv'
    BY <1>8
    DEF RightLink, LinkTombstone, Goto, DeadRightInv, RightInv
  <2>4. VerdictInv'
    BY <1>8
    DEF RightLink, LinkTombstone, Goto, VerdictInv, HolderInv, RightInv
  <2> QED BY <2>1, <2>2, <2>3, <2>4
<1>9. ASSUME NEW p \in Procs, RightJudge(p)
      PROVE  HolderInv' /\ RightInv' /\ DeadRightInv' /\ VerdictInv'
  <2>1. HolderInv'
    BY <1>9
    DEF RightJudge, Judge, SameLock, Goto, HolderInv, VerdictInv
  <2>2. RightInv'
    BY <1>9
    DEF RightJudge, Judge, SameLock, Goto, RightInv
  <2>3. DeadRightInv'
    BY <1>9
    DEF RightJudge, Judge, SameLock, Goto, DeadRightInv, RightInv
  <2>4. VerdictInv'
    BY <1>9
    DEF RightJudge, Judge, SameLock, Goto, VerdictInv, HolderInv, RightInv
  <2> QED BY <2>1, <2>2, <2>3, <2>4
<1>10. ASSUME NEW p \in Procs, RightUnlink(p)
      PROVE  HolderInv' /\ RightInv' /\ DeadRightInv' /\ VerdictInv'
  BY <1>10 DEF RightUnlink, Unlink, DeadRightInv
<1>11. ASSUME NEW p \in Procs, RetakeRight(p)
      PROVE  HolderInv' /\ RightInv' /\ DeadRightInv' /\ VerdictInv'
  <2>f. NewFile(p).owner = p
    BY DEF NewFile
  <2>r. /\ pc[p] = "retakeRight"
        /\ UNCHANGED <<held, snap, tomb>>
        /\ \/ /\ link["steal"] = NoFile /\ NewFile(p) \in Files
              /\ link' = [link EXCEPT !["steal"] = NewFile(p)]
              /\ right' = [right EXCEPT ![p] = NewFile(p)]
              /\ pc' = [pc EXCEPT ![p] = "inspect"]
           \/ /\ UNCHANGED <<link, right>>
              /\ \E l \in {"acquire", "takeRight", "lockError"} :
                pc' = [pc EXCEPT ![p] = l]
    <3>1. CASE StealReturns(p, FALSE)
      BY <1>11, <3>1, StealReturnsTo DEF RetakeRight, Goto, Publish
    <3>2. CASE ~StealReturns(p, FALSE)
      BY <1>11, <3>2 DEF RetakeRight, Goto, Publish
    <3> QED BY <3>1, <3>2
  <2>1. HolderInv'
    BY <2>r, <2>f
    DEF HolderInv, VerdictInv
  <2>2. RightInv'
    BY <2>r, <2>f
    DEF RightInv
  <2>3. DeadRightInv'
    BY <2>r, <2>f
    DEF DeadRightInv, RightInv
  <2>4. VerdictInv'
    BY <2>r, <2>f
    DEF VerdictInv, HolderInv, RightInv
  <2> QED BY <2>1, <2>2, <2>3, <2>4
<1>12. ASSUME NEW p \in Procs, InspectLock(p)
      PROVE  HolderInv' /\ RightInv' /\ DeadRightInv' /\ VerdictInv'
  <2>1. HolderInv'
    BY <1>12
    DEF InspectLock, Inspect, Goto, HolderInv, VerdictInv
  <2>2. RightInv'
    BY <1>12
    DEF InspectLock, Inspect, Goto, RightInv
  <2>3. DeadRightInv'
    BY <1>12
    DEF InspectLock, Inspect, Goto, DeadRightInv, RightInv
  <2>4. VerdictInv'
    BY <1>12
    DEF InspectLock, Inspect, Goto, VerdictInv, HolderInv, RightInv
  <2> QED BY <2>1, <2>2, <2>3, <2>4
<1>13. ASSUME NEW p \in Procs, LockVerdict(p)
      PROVE  HolderInv' /\ RightInv' /\ DeadRightInv' /\ VerdictInv'
  <2>v. /\ pc[p] = "verdict"
        /\ \/ /\ Dead(snap[p].owner)
              /\ pc' = [pc EXCEPT ![p] = "link"]
              /\ snap' = snap
           \/ /\ pc' = [pc EXCEPT ![p] = "releaseRight"]
              /\ snap' = [snap EXCEPT ![p] = NoFile]
        /\ UNCHANGED <<link, held, right, tomb, stolen, attempt, steals>>
    BY <1>13, ProofOfDeathOnly
    DEF LockVerdict, StaleVerdicts, ProofOfDeathOnly, Goto
  <2>1. HolderInv'
    BY <2>v
    DEF HolderInv, VerdictInv
  <2>2. RightInv'
    BY <2>v
    DEF RightInv
  <2>3. DeadRightInv'
    BY <2>v
    DEF DeadRightInv, RightInv
  <2>4. VerdictInv'
    BY <2>v
    DEF VerdictInv, HolderInv, RightInv
  <2> QED BY <2>1, <2>2, <2>3, <2>4
<1>14. ASSUME NEW p \in Procs, LockLink(p)
      PROVE  HolderInv' /\ RightInv' /\ DeadRightInv' /\ VerdictInv'
  <2>1. HolderInv'
    BY <1>14
    DEF LockLink, LinkTombstone, Goto, HolderInv, VerdictInv
  <2>2. RightInv'
    BY <1>14
    DEF LockLink, LinkTombstone, Goto, RightInv
  <2>3. DeadRightInv'
    BY <1>14
    DEF LockLink, LinkTombstone, Goto, DeadRightInv, RightInv
  <2>4. VerdictInv'
    BY <1>14
    DEF LockLink, LinkTombstone, Goto, VerdictInv, HolderInv, RightInv
  <2> QED BY <2>1, <2>2, <2>3, <2>4
<1>15. ASSUME NEW p \in Procs, LockJudge(p)
      PROVE  HolderInv' /\ RightInv' /\ DeadRightInv' /\ VerdictInv'
  <2>1. HolderInv'
    BY <1>15
    DEF LockJudge, Judge, SameLock, Goto, HolderInv, VerdictInv
  <2>2. RightInv'
    BY <1>15
    DEF LockJudge, Judge, SameLock, Goto, RightInv
  <2>3. DeadRightInv'
    BY <1>15
    DEF LockJudge, Judge, SameLock, Goto, DeadRightInv, RightInv
  <2>4. VerdictInv'
    BY <1>15
    DEF LockJudge, Judge, SameLock, Goto, VerdictInv, HolderInv, RightInv
  <2> QED BY <2>1, <2>2, <2>3, <2>4
<1>16. ASSUME NEW p \in Procs, LockUnlink(p)
      PROVE  HolderInv' /\ RightInv' /\ DeadRightInv' /\ VerdictInv'
  <2>1. HolderInv'
    BY <1>16
    DEF LockUnlink, Unlink, Goto, HolderInv, VerdictInv
  <2>2. RightInv'
    BY <1>16
    DEF LockUnlink, Unlink, Goto, RightInv
  <2>3. DeadRightInv'
    BY <1>16
    DEF LockUnlink, Unlink, Goto, DeadRightInv, RightInv
  <2>4. VerdictInv'
    BY <1>16
    DEF LockUnlink, Unlink, Goto, VerdictInv, HolderInv, RightInv
  <2> QED BY <2>1, <2>2, <2>3, <2>4
<1>17. ASSUME NEW p \in Procs, ReleaseRight(p)
      PROVE  HolderInv' /\ RightInv' /\ DeadRightInv' /\ VerdictInv'
  <2>b. stolen[p] \in BOOLEAN
    OBVIOUS
  <2>r. StealReturns(p, stolen[p]) => \E l \in {"acquire", "takeRight", "lockError"} :
          pc' = [pc EXCEPT ![p] = l]
    BY StealReturnsTo, <2>b
  <2>1. HolderInv'
    BY <1>17, <2>b, <2>r
    DEF ReleaseRight, SameLock, Goto, HolderInv, VerdictInv
  <2>2. RightInv'
    BY <1>17, <2>b, <2>r
    DEF ReleaseRight, SameLock, Goto, RightInv
  <2>3. DeadRightInv'
    BY <1>17, <2>b, <2>r
    DEF ReleaseRight, SameLock, Goto, DeadRightInv, RightInv
  <2>4. VerdictInv'
    BY <1>17, <2>b, <2>r
    DEF ReleaseRight, SameLock, Goto, VerdictInv, HolderInv, RightInv
  <2> QED BY <2>1, <2>2, <2>3, <2>4
<1>18. ASSUME NEW p \in Procs, RemoveRight(p)
      PROVE  HolderInv' /\ RightInv' /\ DeadRightInv' /\ VerdictInv'
  <2>b. stolen[p] \in BOOLEAN
    OBVIOUS
  <2>r. StealReturns(p, stolen[p]) => \E l \in {"acquire", "takeRight", "lockError"} :
          pc' = [pc EXCEPT ![p] = l]
    BY StealReturnsTo, <2>b
  <2>1. HolderInv'
    BY <1>18, <2>b, <2>r
    DEF RemoveRight, Goto, HolderInv, VerdictInv
  <2>2. RightInv'
    BY <1>18, <2>b, <2>r
    DEF RemoveRight, Goto, RightInv
  <2>3. DeadRightInv'
    BY <1>18, <2>b, <2>r
    DEF RemoveRight, Goto, DeadRightInv, RightInv
  <2>4. VerdictInv'
    BY <1>18, <2>b, <2>r
    DEF RemoveRight, Goto, VerdictInv, HolderInv, RightInv
  <2> QED BY <2>1, <2>2, <2>3, <2>4
<1>19. ASSUME NEW p \in Procs, Crash(p)
      PROVE  HolderInv' /\ RightInv' /\ DeadRightInv' /\ VerdictInv'
  <2>1. HolderInv'
    BY <1>19, NoDeathInSteal
    DEF Crash, NoDeathInSteal, Goto, HolderInv, VerdictInv
  <2>2. RightInv'
    BY <1>19, NoDeathInSteal
    DEF Crash, NoDeathInSteal, Goto, RightInv
  <2>3. DeadRightInv'
    BY <1>19, NoDeathInSteal
    DEF Crash, NoDeathInSteal, Goto, DeadRightInv, RightInv
  <2>4. VerdictInv'
    BY <1>19, NoDeathInSteal
    DEF Crash, NoDeathInSteal, Goto, VerdictInv, HolderInv, RightInv
  <2> QED BY <2>1, <2>2, <2>3, <2>4
<1>20. CASE UNCHANGED vars
  BY <1>20 DEF vars, HolderInv, RightInv, DeadRightInv, VerdictInv
<1> QED
  BY <1>1, <1>2, <1>3, <1>4, <1>5, <1>6, <1>7, <1>8, <1>9, <1>10, <1>11, <1>12, <1>13, <1>14, <1>15, <1>16, <1>17, <1>18, <1>19, <1>20
  DEF Next, Step, Steal

LEMMA SafetyInvariant ==
  ASSUME ProofOfDeathOnly, NoDeathInSteal
  PROVE  Spec => []SafetyInv
<1>1. SafetyInv /\ [Next]_vars => SafetyInv'
  BY SafetyNext
<1> QED BY SafetyInit, <1>1, PTL DEF Spec

(* The body a lock protects never runs in two processes at once. *)
THEOREM Exclusion ==
  ASSUME ProofOfDeathOnly, NoDeathInSteal
  PROVE  Spec => []MutualExclusion
<1>1. SafetyInv => MutualExclusion
  BY DEF SafetyInv, HolderInv, MutualExclusion
<1> QED BY <1>1, SafetyInvariant, PTL

(* Nor does the steal callback: the right to remove a lock is exclusive. *)
THEOREM RightExclusion ==
  ASSUME ProofOfDeathOnly, NoDeathInSteal
  PROVE  Spec => []RightExclusive
<1>1. SafetyInv => RightExclusive
  BY DEF SafetyInv, RightInv, RightExclusive
<1> QED BY <1>1, SafetyInvariant, PTL

(* The lock a stealer removes is the acquisition it inspected. *)
THEOREM StealRemovesInspected ==
  ASSUME ProofOfDeathOnly, NoDeathInSteal
  PROVE  Spec => RemovesWhatItInspected
<1>1. SafetyInv /\ [Next]_vars =>
        [\A p \in Procs : pc[p] = "unlink" /\ pc'[p] = "releaseRight"
           => link["lock"] \in {snap[p], NoFile}]_vars
  BY DEF SafetyInv, VerdictInv
<1> QED BY <1>1, SafetyInvariant, PTL DEF Spec, RemovesWhatItInspected

(* A live holder is never evicted. *)
THEOREM HolderIsNeverEvicted ==
  ASSUME ProofOfDeathOnly, NoDeathInSteal
  PROVE  Spec => LiveHolderKeepsLock
<1>1. SafetyInv /\ SafetyInv' /\ [Next]_vars =>
        [\A p \in Procs : pc[p] \in Holding /\ pc'[p] \in Holding
           => link'["lock"] = held[p]]_vars
  <2> SUFFICES ASSUME SafetyInv, SafetyInv', [Next]_vars,
                      NEW p \in Procs, pc[p] \in Holding, pc'[p] \in Holding
               PROVE  link'["lock"] = held[p]
    OBVIOUS
  <2>1. link'["lock"] = held'[p]
    BY DEF SafetyInv, HolderInv
  <2>2. held'[p] = held[p]
    <3> USE DEF SafetyInv, TypeInv, TypeOK, Holding, Goto
    <3>1. ASSUME NEW q \in Procs, Call(q) \/ Acquire(q) \/ Release(q) \/ Remove(q)
          PROVE  held'[p] = held[p]
      BY <3>1 DEF Call, Acquire, Release, Remove
    <3>2. ASSUME NEW q \in Procs, Steal(q)
          PROVE  held' = held
      BY <3>2
      DEF Steal, TakeRight, InspectRight, RightVerdict, RightLink, RightJudge,
          RightUnlink, RetakeRight, InspectLock, LockVerdict, LockLink,
          LockJudge, LockUnlink, ReleaseRight, RemoveRight, Inspect,
          LinkTombstone, Judge, Unlink
    <3>3. ASSUME NEW q \in Procs, Crash(q)
          PROVE  held'[p] = held[p]
      BY <3>3 DEF Crash
    <3>4. CASE UNCHANGED vars
      BY <3>4 DEF vars
    <3> QED BY <3>1, <3>2, <3>3, <3>4 DEF Next, Step
  <2> QED BY <2>1, <2>2
<1> QED BY <1>1, SafetyInvariant, PTL DEF Spec, LiveHolderKeepsLock

------------------------------------------------------------------------------
(* The protocol implements the abstract lock. *)
LEMMA MutexInit == Init => M!Init
BY DEF Init, M!Init, owner, inside, dead, Dead, Holding, Paths

(* A step that leaves the lock path alone and does not move its process in
   or out of the body or kill it is no step of the abstract lock. *)
LEMMA Stutter ==
  ASSUME TypeOK, link'["lock"] = link["lock"],
         \A q \in Procs : /\ (pc'[q] \in Holding) = (pc[q] \in Holding)
                          /\ (pc'[q] = "dead") = (pc[q] = "dead")
  PROVE  UNCHANGED M!vars
BY DEF M!vars, owner, inside, dead, Dead

(* withStealRight only moves its process between labels outside the body. *)
LEMMA StealStutters ==
  ASSUME TypeOK, NEW p \in Procs, Steal(p), link'["lock"] = link["lock"]
  PROVE  UNCHANGED M!vars
<1> USE DEF TypeOK, Holding, Waiting, Stealing, Dead
<1>1. pc[p] \in Waiting \ {"acquire"}
  BY DEF Steal, TakeRight, InspectRight, RightVerdict, RightLink, RightJudge,
         RightUnlink, RetakeRight, InspectLock, LockVerdict, LockLink, LockJudge,
         LockUnlink, ReleaseRight, RemoveRight, Inspect, LinkTombstone, Judge,
         Unlink
<1>2. \E l \in Waiting \union {"lockError"} : pc' = [pc EXCEPT ![p] = l]
  <2>1. ASSUME NEW success \in BOOLEAN, StealReturns(p, success)
        PROVE  \E l \in Waiting \union {"lockError"} : pc' = [pc EXCEPT ![p] = l]
    BY <2>1, StealReturnsTo
  <2>2. CASE InspectRight(p) \/ RightVerdict(p) \/ RetakeRight(p)
    <3>1. CASE StealReturns(p, FALSE)
      BY <2>1, <3>1
    <3>2. CASE ~StealReturns(p, FALSE)
      BY <2>2, <3>2 DEF InspectRight, RightVerdict, RetakeRight, Goto
    <3> QED BY <3>1, <3>2
  <2>3. CASE ReleaseRight(p) \/ RemoveRight(p)
    <3>1. stolen[p] \in BOOLEAN
      OBVIOUS
    <3>2. CASE StealReturns(p, stolen[p])
      BY <2>1, <3>1, <3>2
    <3>3. CASE ~StealReturns(p, stolen[p])
      BY <2>3, <3>3 DEF ReleaseRight, RemoveRight, Goto
    <3> QED BY <3>2, <3>3
  <2>4. CASE TakeRight(p)
    BY <2>4 DEF TakeRight, Goto
  <2>5. CASE RightLink(p) \/ RightJudge(p) \/ RightUnlink(p)
    BY <2>5 DEF RightLink, RightJudge, RightUnlink, LinkTombstone, Judge, Unlink,
        Goto
  <2>6. CASE InspectLock(p) \/ LockVerdict(p)
    BY <2>6 DEF InspectLock, Inspect, LockVerdict, Goto
  <2>7. CASE LockLink(p) \/ LockJudge(p) \/ LockUnlink(p)
    BY <2>7 DEF LockLink, LockJudge, LockUnlink, LinkTombstone, Judge, Unlink, Goto
  <2> QED BY <2>2, <2>3, <2>4, <2>5, <2>6, <2>7 DEF Steal
<1>3. \A q \in Procs : /\ (pc'[q] \in Holding) = (pc[q] \in Holding)
                        /\ (pc'[q] = "dead") = (pc[q] = "dead")
  BY <1>1, <1>2
<1> QED BY <1>3, Stutter

LEMMA MutexStep ==
  ASSUME ProofOfDeathOnly, NoDeathInSteal, SafetyInv, [Next]_vars
  PROVE  [M!Next]_(M!vars)
<1> USE NoFileAssumption
    DEF SafetyInv, TypeInv, TypeOK, Holding, Dead, Paths, Goto
<1>1. ASSUME NEW p \in Procs, Call(p)
      PROVE  UNCHANGED M!vars
  BY <1>1, Stutter DEF Call, First
<1>2. ASSUME NEW p \in Procs, Acquire(p)
      PROVE  [M!Next]_(M!vars)
  <2>1. CASE Publish(p, "lock")
    <3>1. /\ link["lock"] = NoFile
          /\ link' = [link EXCEPT !["lock"] = NewFile(p)]
          /\ pc[p] = "acquire"
          /\ pc' = [pc EXCEPT ![p] = "held"]
      BY <1>2, <2>1 DEF Acquire, Publish
    <3>2. NewFile(p) # NoFile /\ NewFile(p).owner = p
      BY <2>1, NewFileIsFile
    <3>3. M!Enter(p)
      BY <3>1, <3>2 DEF M!Enter, owner, inside, dead
    <3> QED BY <3>3 DEF M!Next
  <2>2. CASE ~Publish(p, "lock")
    BY <1>2, <2>2, Stutter DEF Acquire, Backoff, First
  <2> QED BY <2>1, <2>2
<1>3. ASSUME NEW p \in Procs, Release(p)
      PROVE  UNCHANGED M!vars
  BY <1>3, Stutter DEF Release, HolderInv, SameLock
<1>4. ASSUME NEW p \in Procs, Remove(p)
      PROVE  M!Leave(p)
  BY <1>4 DEF Remove, HolderInv, M!Leave, owner, inside, dead
<1>5. ASSUME NEW p \in Procs, LockUnlink(p)
      PROVE  M!Reclaim
  <2>1. /\ snap[p] \in Files
        /\ link["lock"] = snap[p]
        /\ snap[p].owner \in Procs
        /\ Dead(snap[p].owner)
    BY <1>5 DEF LockUnlink, Unlink, VerdictInv, Files
  <2> QED
    BY <1>5, <2>1 DEF LockUnlink, Unlink, M!Reclaim, owner, inside, dead
<1>6. ASSUME NEW p \in Procs, Steal(p), ~LockUnlink(p)
      PROVE  UNCHANGED M!vars
  <2>1. link'["lock"] = link["lock"]
    BY <1>6
    DEF Steal, TakeRight, InspectRight, RightVerdict, RightLink, RightJudge,
        RightUnlink, RetakeRight, InspectLock, LockVerdict, LockLink, LockJudge,
        ReleaseRight, RemoveRight, Inspect, LinkTombstone, Judge, Unlink, Publish
  <2> QED BY <1>6, <2>1, StealStutters
<1>7. ASSUME NEW p \in Procs, Crash(p)
      PROVE  M!Die(p)
  BY <1>7 DEF Crash, M!Die, owner, inside, dead
<1>8. CASE UNCHANGED vars
  BY <1>8 DEF vars, M!vars, owner, inside, dead
<1> QED
  BY <1>1, <1>2, <1>3, <1>4, <1>5, <1>6, <1>7, <1>8
  DEF Next, Step, M!Next

(* Every behaviour of the lock-file protocol is one of the abstract lock:
   its owner changes hands only by Enter, Leave and, for a dead owner,
   Reclaim. *)
THEOREM ImplementsMutex ==
  ASSUME ProofOfDeathOnly, NoDeathInSteal
  PROVE  Spec => MutexSpec
<1>1. SafetyInv /\ [Next]_vars => [M!Next]_(M!vars)
  BY MutexStep
<1> QED
  BY <1>1, MutexInit, SafetyInvariant, PTL DEF Spec, MutexSpec, M!Spec
==============================================================================

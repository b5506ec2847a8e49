------------------------ MODULE CircuitBreakerProofs ------------------------
(***************************************************************************)
(* That runaway sessions are stopped, for any tickets, budgets, settings   *)
(* and contents of the repository, with failing writes and measurements.   *)
(*                                                                         *)
(* StuckIsStopped speaks of ghosts, of what the iterations really left.    *)
(* The inductive invariant ties them to what the breaker remembers: its    *)
(* baseline is what the last recorded iteration left, its counter is no    *)
(* smaller than the number of iterations that left the same clean tree,    *)
(* and it is open once the counter has reached the budget.  ErrorInv does  *)
(* the same for repeated errors.  FreshInv is for the other side, that     *)
(* nothing is stopped early: the counter starts anew whenever the world    *)
(* does.  AuditInv keeps the history in memory ahead of the one on disk.   *)
(***************************************************************************)
EXTENDS CircuitBreaker, TLAPS

\* The breaker compares with what the last recorded iteration left.
BaselineInv == \A left \in Snapshots : seen = {left} =>
    /\ cb.head # NoCommit /\ cb.head.tree = left.tree
    /\ cb.step = left.step /\ cb.ticket = left.ticket

\* Its counter misses no iteration that left a clean tree as it was.
CounterInv ==
    /\ seen = {} => same = 0
    /\ \A left \in Snapshots :
           seen = {left} /\ left.work = Clean => same <= cb.noProgress

\* Once the counter has reached the budget the breaker is open.
BudgetInv == \A left \in Snapshots :
    seen = {left} => cb.circuit = "OPEN" \/ cb.noProgress < Budget(left.ticket)

\* An open breaker stops at the gate; a second timeout is the last one; and
\* nothing is in memory while the runner is down.
GateInv ==
    /\ pc \in {"work", "timeout", "record"} => cb.circuit # "OPEN"
    /\ pc # "exit" => timeouts.count < 2
    /\ pc = "down" => seen = {}

IInv == TypeOK /\ BaselineInv /\ CounterInv /\ BudgetInv /\ GateInv

\* The breaker's last error is the ghost's, counted no less often, and it is
\* open once that was too often.
ErrorInv ==
    /\ cb.error = repeated.error
    /\ repeated.error # NoError => repeated.times <= cb.sameError
    /\ cb.circuit = "OPEN" \/ cb.sameError < SameErrorThreshold
    /\ pc = "down" => repeated = NotRepeated

\* The name of the commit in the baseline is that of no other commit at HEAD,
\* and the counter starts anew with a breaker and with uncommitted work.
FreshInv ==
    /\ cb.head.sha = repo.head.sha => cb.head = repo.head
    /\ seen = {} => cb.head = NoCommit /\ cb.noProgress = 0
    /\ \A left \in Snapshots : seen = {left} /\ left.work # Clean => cb.noProgress = 0

\* The history in memory is not behind the one on disk.
AuditInv ==
    pc \notin {"down", "exit"} => disk.entries <= cb.entries \/ disk.entries >= HistoryCap

-----------------------------------------------------------------------------
\* A transition leaves the counters alone, and the history no shorter.
Kept(c, after) ==
    /\ after.noProgress = c.noProgress /\ after.sameError = c.sameError
    /\ after.error = c.error /\ after.entries >= c.entries

LEMMA TransitionType ==
    ASSUME NEW c \in Breakers, NEW to \in {"CLOSED", "HALF_OPEN", "OPEN"}
    PROVE  /\ Transition(c, to) \in Breakers
           /\ Transition(c, to).circuit = to
           /\ Kept(c, Transition(c, to))
  <1> DEFINE entries == IF c.entries >= HistoryCap THEN c.entries ELSE c.entries + 1
  <1>1. entries \in 0..HistoryCap
    BY SettingAssumption DEF Breakers
  <1> HIDE DEF entries
  <1>2. /\ [c EXCEPT !.circuit = to, !.entries = entries] \in Breakers
        /\ [c EXCEPT !.circuit = to, !.entries = entries].circuit = to
        /\ Kept(c, [c EXCEPT !.circuit = to, !.entries = entries])
    <2>1. entries >= c.entries /\ entries \in Nat /\ c.entries \in Nat
      BY SettingAssumption DEF entries, Breakers
    <2> QED
      BY <1>1, <2>1 DEF Breakers, Kept
  <1>3. Kept(c, c)
    BY SettingAssumption DEF Kept, Breakers
  <1> QED
    BY <1>2, <1>3 DEF Transition, entries

\* The counter of errors after an iteration that ended in the error.
Repetitions(c, error) ==
    IF error = NoError THEN 0 ELSE IF error = c.error THEN c.sameError + 1 ELSE 1

LEMMA CountedType ==
    ASSUME NEW c \in Breakers, NEW progress \in BOOLEAN, NEW error \in Errors \cup {NoError}
    PROVE  LET after == Counted(c, progress, error)
           IN  /\ after \in Breakers
               /\ after.noProgress = IF progress THEN 0 ELSE c.noProgress + 1
               /\ after.error = error /\ after.sameError = Repetitions(c, error)
               /\ after.entries >= c.entries
  <1> DEFINE tracked == TrackError(c, error)
             cleared == [tracked EXCEPT !.noProgress = 0]
             missed == [tracked EXCEPT !.noProgress = @ + 1]
  <1> USE SettingAssumption
  <1>1. /\ tracked \in Breakers /\ tracked.noProgress = c.noProgress
        /\ tracked.error = error /\ tracked.sameError = Repetitions(c, error)
        /\ tracked.entries >= c.entries
    <2>1. Repetitions(c, error) \in Nat
      BY DEF Breakers, Repetitions
    <2>2. tracked = [c EXCEPT !.error = error, !.sameError = Repetitions(c, error)]
      BY DEF TrackError, Repetitions
    <2> HIDE DEF tracked
    <2>3. c.entries \in Nat /\ c.entries >= c.entries
      BY DEF Breakers
    <2> QED
      BY <2>1, <2>2, <2>3 DEF Breakers
  <1> HIDE DEF tracked
  <1>2. /\ cleared \in Breakers /\ cleared.noProgress = 0
        /\ cleared.error = error /\ cleared.sameError = Repetitions(c, error)
        /\ cleared.entries >= c.entries
    BY <1>1 DEF Breakers
  <1>3. /\ missed \in Breakers /\ missed.noProgress = c.noProgress + 1
        /\ missed.error = error /\ missed.sameError = Repetitions(c, error)
        /\ missed.entries >= c.entries
    BY <1>1 DEF Breakers
  <1> HIDE DEF cleared, missed
  <1>4. CASE progress
    <2>1. Transition(cleared, "CLOSED") \in Breakers /\ Kept(cleared, Transition(cleared, "CLOSED"))
      BY <1>2, TransitionType
    <2>2. Transition(cleared, "CLOSED").entries >= c.entries
      BY <1>2, <2>1 DEF Kept, Breakers
    <2>3. Counted(c, progress, error) \in {cleared, Transition(cleared, "CLOSED")}
      BY <1>4 DEF Counted, cleared, tracked
    <2> QED
      BY <1>2, <1>4, <2>1, <2>2, <2>3 DEF Kept
  <1>5. CASE ~progress
    <2>1. Counted(c, progress, error) = missed
      BY <1>5 DEF Counted, missed, tracked
    <2> QED
      BY <1>3, <1>5, <2>1
  <1> QED
    BY <1>4, <1>5

LEMMA JudgedType ==
    ASSUME NEW c \in Breakers, NEW ticket \in Tickets \cup {NoTicket}
    PROVE  LET after == Judged(c, Settings(ticket))
           IN  /\ after \in Breakers /\ Kept(c, after)
               /\ after.circuit = "OPEN" \/ c.noProgress < Budget(ticket)
               /\ after.circuit = "OPEN" \/ c.sameError < SameErrorThreshold
  <1>1. Settings(ticket).open = Budget(ticket) /\ Budget(ticket) \in Nat
    BY BudgetAssumption DEF Settings, Budget
  <1>2. SameErrorThreshold \in Nat
    BY SettingAssumption DEF SameErrorThreshold, Larger
  <1>3. /\ c.noProgress \in Nat /\ c.sameError \in Nat
        /\ Kept(c, c)
    BY SettingAssumption DEF Breakers, Kept
  <1> QED
    BY <1>1, <1>2, <1>3, TransitionType DEF Judged

\* The HEAD the breaker remembers after an answer.
Remembered(answer) == IF answer = "none" THEN NoCommit ELSE repo.head

\* What one pass of the mutator leaves: the baseline, counters that are below
\* their limits unless the breaker is open, and a history no shorter.
LEMMA RecordedType ==
    ASSUME TypeOK, NEW c \in Breakers, NEW error \in Errors \cup {NoError},
           NEW answer \in Answers
    PROVE  LET after == Recorded(c, state, error, answer)
           IN  /\ after \in Breakers
               /\ after.head = Remembered(answer) /\ (answer # "none" => after.head # NoCommit)
               /\ after.step = state.step /\ after.ticket = state.ticket
               /\ after.circuit = "OPEN" \/ after.noProgress < Budget(state.ticket)
               /\ after.circuit = "OPEN" \/ after.sameError < SameErrorThreshold
               /\ after.noProgress = IF HasProgress(c, state, answer) THEN 0
                                     ELSE c.noProgress + 1
               /\ after.error = error /\ after.sameError = Repetitions(c, error)
               /\ after.entries >= c.entries
  <1> DEFINE progress == HasProgress(c, state, answer)
             counted == Counted(c, progress, error)
             judged == Judged(counted, Settings(state.ticket))
  <1>1. state.ticket \in Tickets \cup {NoTicket} /\ state.step \in Steps
        /\ Remembered(answer) \in Heads /\ (answer # "none" => Remembered(answer) # NoCommit)
    BY RepoAssumption, NullAssumption DEF TypeOK, Heads, NoCommit, Remembered
  <1>2. progress \in BOOLEAN
    BY DEF HasProgress
  <1>3. Recorded(c, state, error, answer)
          = [judged EXCEPT !.head = Remembered(answer), !.step = state.step, !.ticket = state.ticket]
    BY DEF Recorded, Remembered
  <1> HIDE DEF progress
  <1>4. /\ counted \in Breakers
        /\ counted.noProgress = IF progress THEN 0 ELSE c.noProgress + 1
        /\ counted.error = error /\ counted.sameError = Repetitions(c, error)
        /\ counted.entries >= c.entries
    BY <1>2, CountedType
  <1> HIDE DEF counted
  <1>5. /\ judged \in Breakers /\ Kept(counted, judged)
        /\ judged.circuit = "OPEN" \/ counted.noProgress < Budget(state.ticket)
        /\ judged.circuit = "OPEN" \/ counted.sameError < SameErrorThreshold
    BY <1>1, <1>4, JudgedType
  <1> HIDE DEF judged
  <1>6. judged.entries >= c.entries
    BY <1>4, <1>5, SettingAssumption DEF Kept, Breakers
  <1>7. /\ judged.noProgress = IF progress THEN 0 ELSE c.noProgress + 1
        /\ judged.error = error /\ judged.sameError = Repetitions(c, error)
        /\ judged.circuit = "OPEN" \/ judged.noProgress < Budget(state.ticket)
        /\ judged.circuit = "OPEN" \/ judged.sameError < SameErrorThreshold
    BY <1>4, <1>5 DEF Kept
  <1> DEFINE after == [judged EXCEPT !.head = Remembered(answer), !.step = state.step,
                                     !.ticket = state.ticket]
  <1>8. /\ after \in Breakers
        /\ after.head = Remembered(answer) /\ after.step = state.step /\ after.ticket = state.ticket
        /\ after.circuit = judged.circuit /\ after.noProgress = judged.noProgress
        /\ after.error = judged.error /\ after.sameError = judged.sameError
        /\ after.entries = judged.entries
    BY <1>1, <1>5 DEF Breakers
  <1> HIDE DEF after
  <1>9. Recorded(c, state, error, answer) = after
    BY <1>3 DEF after
  <1> QED
    BY <1>1, <1>6, <1>7, <1>8, <1>9 DEF progress

\* An iteration that left a clean tree as the baseline has it is counted.
LEMMA RecordedCounts ==
    ASSUME TypeOK, NEW c \in Breakers, NEW error \in Errors \cup {NoError}, "all" \in Answers,
           repo.work = Clean, c.head # NoCommit, c.head.tree = repo.head.tree,
           c.step = state.step, c.ticket = state.ticket
    PROVE  Recorded(c, state, error, "all").noProgress = c.noProgress + 1
  <1>1. ~HasProgress(c, state, "all")
    BY DEF HasProgress, HeadChanged, StepChanged, TicketChanged
  <1> QED
    BY <1>1, RecordedType

\* A record is one pass, or, when the write of state.json fails, a second one
\* over the first.
Pass(c, answer) == Recorded(c, state, outcome.error, answer)

LEMMA RecordIs ==
    ASSUME Record
    PROVE  \E answer, last \in Answers :
             /\ Observe(answer, last)
             /\ \/ /\ last = answer /\ cb' = Pass(cb, answer) /\ UNCHANGED failed
                   /\ pc' \in Destinations(cb, cb')
                \/ /\ failed < MaxFaults /\ failed' = failed + 1
                   /\ cb' = Pass(Pass(cb, answer), last)
                   /\ pc' \in Destinations(Pass(cb, answer), cb')
  BY DEF Record, Pass

-----------------------------------------------------------------------------
LEMMA InitIInv == Init => IInv
  <1> SUFFICES ASSUME Init PROVE IInv
    OBVIOUS
  <1>1. FreshWith(0) \in Breakers
    BY SettingAssumption DEF FreshWith, Breakers, Heads
  <1>2. FirstOutcome \in Outcomes
    BY DEF FirstOutcome, Outcomes, Completions, Unrecorded
  <1>3. TypeOK
    BY <1>1, <1>2, SettingAssumption, SwitchAssumption
       DEF Init, TypeOK, NoFile, NoTimeouts, NotRepeated
  <1>4. GateInv
    BY DEF Init, GateInv, NoTimeouts
  <1>5. BaselineInv /\ CounterInv /\ BudgetInv
    BY DEF Init, BaselineInv, CounterInv, BudgetInv
  <1> QED
    BY <1>3, <1>4, <1>5 DEF IInv

LEMMA SnapshotType == TypeOK => Snapshot \in Snapshots
  BY DEF TypeOK, Snapshot, Snapshots

\* Starting: a breaker without a baseline, with the history of the file.
LEMMA StartStep == IInv /\ Start => IInv'
  <1> SUFFICES ASSUME IInv, Start PROVE IInv'
    OBVIOUS
  <1> USE DEF IInv
  <1>1. disk.entries \in Nat
    BY DEF TypeOK
  <1>2. (IF disk = NoFile THEN 0 ELSE Smaller(disk.entries + 1, HistoryCap)) \in 0..HistoryCap
    BY <1>1, SettingAssumption DEF Smaller
  <1>3. cb' \in Breakers
    BY <1>2 DEF Start, StartFresh, FreshWith, Breakers, Heads
  <1>4. TypeOK'
    BY <1>3 DEF Start, TypeOK
  <1>5. seen = {} /\ seen' = {} /\ same' = same
    BY DEF Start, GateInv
  <1>6. GateInv'
    BY DEF Start, GateInv
  <1> QED
    BY <1>4, <1>5, <1>6 DEF BaselineInv, CounterInv, BudgetInv

\* The steps that touch neither the breaker nor the ghosts.
LEMMA OtherStep ==
    ASSUME IInv, TypeOK', GateInv', UNCHANGED <<cb, seen, same>>
    PROVE  IInv'
  BY DEF IInv, BaselineInv, CounterInv, BudgetInv

LEMMA HeadStep == IInv /\ Head => IInv'
  <1> SUFFICES ASSUME IInv, Head PROVE IInv'
    OBVIOUS
  <1>1. TypeOK' /\ GateInv'
    BY DEF IInv, Head, TypeOK, GateInv
  <1> QED
    BY <1>1, OtherStep DEF Head

LEMMA WorkStep == IInv /\ Work => IInv'
  <1> SUFFICES ASSUME IInv, Work PROVE IInv'
    OBVIOUS
  <1>1. repo' \in [head : [sha : Shas, tree : Trees], work : Edits \cup {Clean}]
    BY DEF IInv, TypeOK, Work, LeaveAlone, Edit, Commit
  <1>2. state' \in [step : Steps, ticket : Pickable, relaunches : 0..RelaunchCap]
    BY DEF IInv, TypeOK, Work
  <1>3. TypeOK' /\ GateInv'
    BY <1>1, <1>2 DEF IInv, Work, TypeOK, GateInv
  <1> QED
    BY <1>3, OtherStep DEF Work

LEMMA ResetType ==
    TypeOK => Reset(disk) \in [circuit : {"NONE", "CLOSED", "HALF_OPEN", "OPEN"}, entries : Nat]
  BY DEF TypeOK, Reset

LEMMA CountTimeoutStep == IInv /\ CountTimeout => IInv'
  <1> SUFFICES ASSUME IInv, CountTimeout PROVE IInv'
    OBVIOUS
  <1> USE DEF IInv
  <1>1. /\ Advanced \in [count : 0..2, ticket : Tickets \cup {NoTicket}]
        /\ ~HaltsOn(Advanced) => Advanced.count < 2
    <2>1. timeouts.count \in {0, 1} /\ state.ticket \in Tickets \cup {NoTicket}
      BY RepoAssumption DEF TypeOK, GateInv, CountTimeout
    <2> QED
      BY <2>1 DEF Advanced, HaltsOn, NoTimeouts, TypeOK
  <1>2. CASE ~HaltsOn(Advanced)
    <2>1. TypeOK' /\ GateInv'
      BY <1>1, <1>2 DEF CountTimeout, TypeOK, GateInv
    <2> QED
      BY <2>1, OtherStep DEF CountTimeout
  <1>3. CASE HaltsOn(Advanced)
    <2>1. CASE /\ timeouts' = [Advanced EXCEPT !.count = 1]
               /\ pc' = "record" /\ UNCHANGED <<state, disk>>
      <3>1. TypeOK' /\ GateInv'
        BY <1>1, <2>1 DEF CountTimeout, TypeOK, GateInv
      <3> QED
        BY <3>1, OtherStep DEF CountTimeout
    <2>2. CASE /\ \E ticket \in Pickable \ {state.ticket} :
                      state' = [state EXCEPT !.ticket = ticket]
               /\ timeouts' = NoTimeouts
               /\ pc' = "head" /\ UNCHANGED disk
      <3>1. state' \in [step : Steps, ticket : Pickable, relaunches : 0..RelaunchCap]
        BY <2>2 DEF TypeOK
      <3>2. TypeOK' /\ GateInv'
        BY <2>2, <3>1 DEF CountTimeout, TypeOK, GateInv, NoTimeouts
      <3> QED
        BY <3>2, OtherStep DEF CountTimeout
    <2>3. CASE /\ disk' = Reset(disk)
               /\ timeouts' = Advanced
               /\ pc' = "exit" /\ UNCHANGED state
      <3>1. TypeOK' /\ GateInv'
        BY <1>1, <2>3, ResetType DEF CountTimeout, TypeOK, GateInv
      <3> QED
        BY <3>1, OtherStep DEF CountTimeout
    <2> QED
      BY <1>3, <2>1, <2>2, <2>3 DEF CountTimeout
  <1> QED
    BY <1>2, <1>3

LEMMA RelaunchStep == IInv /\ Relaunch => IInv'
  <1> SUFFICES ASSUME IInv, Relaunch PROVE IInv'
    OBVIOUS
  <1> USE DEF IInv
  <1>1. /\ state' \in [step : Steps, ticket : Pickable, relaunches : 0..RelaunchCap]
        /\ failed' \in 0..MaxFaults
    BY SettingAssumption, SwitchAssumption DEF Relaunch, TypeOK
  <1>2. FirstOutcome \in Outcomes
    BY DEF FirstOutcome, Outcomes, Completions, Unrecorded
  <1>3. TypeOK' /\ GateInv'
    BY <1>1, <1>2 DEF Relaunch, TypeOK, GateInv
  <1> QED
    BY <1>3, OtherStep DEF Relaunch

LEMMA OperatorStep == IInv /\ OperatorReset => IInv'
  <1> SUFFICES ASSUME IInv, OperatorReset PROVE IInv'
    OBVIOUS
  <1>1. TypeOK' /\ GateInv'
    BY ResetType DEF IInv, OperatorReset, TypeOK, GateInv
  <1> QED
    BY <1>1, OtherStep DEF OperatorReset

LEMMA GoneStep == IInv /\ Gone => IInv'
  <1> SUFFICES ASSUME IInv, Gone PROVE IInv'
    OBVIOUS
  <1>1. FreshWith(0) \in Breakers
    BY SettingAssumption DEF FreshWith, Breakers, Heads
  <1>2. FirstOutcome \in Outcomes
    BY DEF FirstOutcome, Outcomes, Completions, Unrecorded
  <1>3. TypeOK'
    BY <1>1, <1>2, SettingAssumption, SwitchAssumption
       DEF IInv, Gone, TypeOK, NoTimeouts, NotRepeated
  <1>4. GateInv' /\ seen' = {} /\ same' = 0
    BY DEF Gone, GateInv, NoTimeouts
  <1> QED
    BY <1>3, <1>4 DEF IInv, BaselineInv, CounterInv, BudgetInv

\* Recording, once or twice.  The new baseline is the snapshot the ghosts take;
\* if that is a clean tree left as it was, every pass has counted it.
LEMMA RecordStep == IInv /\ Record => IInv'
  <1> SUFFICES ASSUME IInv, Record PROVE IInv'
    OBVIOUS
  <1> USE DEF IInv
  <1>1. PICK answer, last \in Answers :
          /\ Observe(answer, last)
          /\ \/ /\ last = answer /\ cb' = Pass(cb, answer) /\ UNCHANGED failed
                /\ pc' \in Destinations(cb, cb')
             \/ /\ failed < MaxFaults /\ failed' = failed + 1
                /\ cb' = Pass(Pass(cb, answer), last)
                /\ pc' \in Destinations(Pass(cb, answer), cb')
    BY RecordIs
  <1> DEFINE first == Pass(cb, answer)
             again == Pass(first, last)
  <1>2. outcome.error \in Errors \cup {NoError} /\ cb \in Breakers
    BY DEF TypeOK, Outcomes
  <1>3. /\ first \in Breakers
        /\ first.head = Remembered(answer) /\ (answer # "none" => first.head # NoCommit)
        /\ first.step = state.step /\ first.ticket = state.ticket
        /\ first.circuit = "OPEN" \/ first.noProgress < Budget(state.ticket)
    BY <1>2, RecordedType DEF Pass
  <1> HIDE DEF first
  <1>4. /\ again \in Breakers
        /\ again.head = Remembered(last) /\ (last # "none" => again.head # NoCommit)
        /\ again.step = state.step /\ again.ticket = state.ticket
        /\ again.circuit = "OPEN" \/ again.noProgress < Budget(state.ticket)
    BY <1>2, <1>3, RecordedType DEF Pass
  <1> HIDE DEF again
  <1>5. (cb' = first /\ last = answer) \/ cb' = again
    BY <1>1 DEF first, again
  <1>6. /\ cb' \in Breakers
        /\ cb'.head = Remembered(last) /\ (last # "none" => cb'.head # NoCommit)
        /\ cb'.step = state.step /\ cb'.ticket = state.ticket
        /\ cb'.circuit = "OPEN" \/ cb'.noProgress < Budget(state.ticket)
    BY <1>3, <1>4, <1>5
  <1>7. Observe(answer, last) /\ Snapshot \in Snapshots /\ Snapshot' = Snapshot
    BY <1>1, SnapshotType DEF Record, Snapshot
  <1>8. TypeOK'
    <2>1. same' \in 0..CountBound
      BY <1>7, SettingAssumption DEF Observe, Bump, TypeOK
    <2>2. repeated' \in [error : Errors \cup {NoError}, times : 0..CountBound]
      <3> DEFINE times == IF outcome.error = repeated.error THEN Bump(repeated.times) ELSE 1
      <3>1. times \in 0..CountBound
        BY SettingAssumption DEF Bump, TypeOK
      <3> HIDE DEF times
      <3>2. repeated' = [error |-> outcome.error, times |-> times]
        BY <1>7 DEF Observe, times
      <3> QED
        BY <1>2, <3>1, <3>2
    <2>3. disk' \in [circuit : {"NONE", "CLOSED", "HALF_OPEN", "OPEN"}, entries : Nat]
      <3>1. disk' = [circuit |-> cb'.circuit, entries |-> cb'.entries]
        BY DEF Record, Written
      <3> QED
        BY <1>6, <3>1, SettingAssumption DEF Breakers
    <2>4. FirstOutcome \in Outcomes
      BY DEF FirstOutcome, Outcomes, Completions, Unrecorded
    <2>5. pc' \in {"head", "exit"} /\ failed' \in 0..MaxFaults
      BY <1>1, SwitchAssumption DEF Destinations, Onwards, TypeOK
    <2>6. seen' = {} \/ \E left \in Snapshots : seen' = {left}
      BY <1>7 DEF Observe
    <2> QED
      BY <1>6, <2>1, <2>2, <2>3, <2>4, <2>5, <2>6 DEF TypeOK, Record
  <1>9. GateInv'
    <2>1. pc' \in {"head", "exit"}
      BY <1>1 DEF Destinations, Onwards
    <2> QED
      BY <2>1 DEF GateInv, Record
  <1>10. ASSUME NEW left \in Snapshots, seen' = {left} PROVE left = Snapshot /\ last # "none"
    BY <1>7, <1>10 DEF Observe
  <1>11. BaselineInv' /\ BudgetInv'
    <2>1. Snapshot.tree = repo.head.tree /\ Snapshot.step = state.step
          /\ Snapshot.ticket = state.ticket
      BY DEF Snapshot
    <2>2. last # "none" => cb'.head = repo.head
      BY <1>6 DEF Remembered
    <2> QED
      BY <1>6, <1>10, <2>1, <2>2 DEF BaselineInv, BudgetInv
  <1>12. CounterInv'
    <2>1. (seen' = {} => same' = 0) /\ Snapshot.work = repo.work
      BY <1>7 DEF Observe, Snapshot
    <2>2. SUFFICES ASSUME repo.work = Clean
                   PROVE  same' <= cb'.noProgress
      BY <1>10, <2>1 DEF CounterInv
    <2>3. cb.noProgress \in Nat /\ cb'.noProgress \in Nat /\ same \in Nat
      BY <1>2, <1>6, SettingAssumption DEF Breakers, TypeOK
    <2>4. CASE answer = "all" /\ last = "all" /\ (Unchanged \/ Discarded)
      <3>1. PICK left \in Snapshots :
              /\ seen = {left} /\ left.tree = repo.head.tree
              /\ left.step = state.step /\ left.ticket = state.ticket
              /\ Unchanged => left.work = Clean
        BY <1>7, <2>2, <2>4, SnapshotType
           DEF Unchanged, Discarded, Snapshot, Snapshots
      <3>2. /\ cb.head # NoCommit /\ cb.head.tree = repo.head.tree
            /\ cb.step = state.step /\ cb.ticket = state.ticket
        BY <3>1 DEF BaselineInv
      <3>3. first.noProgress = cb.noProgress + 1
        BY <1>2, <2>2, <2>4, <3>2, RecordedCounts DEF first, Pass
      <3>4. again.noProgress = first.noProgress + 1
        <4>1. first.head = repo.head /\ first.head # NoCommit
          BY <1>3, <2>4 DEF Remembered
        <4> QED
          BY <1>2, <1>3, <2>2, <2>4, <4>1, RecordedCounts DEF again, Pass
      <3>5. cb'.noProgress >= cb.noProgress + 1
        BY <1>5, <2>3, <3>3, <3>4
      <3>6. Unchanged => same <= cb.noProgress
        BY <3>1 DEF CounterInv
      <3> QED
        BY <1>7, <2>3, <2>4, <3>5, <3>6 DEF Observe, Bump
    <2>5. CASE ~(answer = "all" /\ last = "all" /\ (Unchanged \/ Discarded))
      BY <1>7, <2>3, <2>5 DEF Observe
    <2> QED
      BY <2>4, <2>5
  <1> QED
    BY <1>8, <1>9, <1>11, <1>12

LEMMA StutterStep == IInv /\ UNCHANGED vars => IInv'
  BY DEF IInv, vars, TypeOK, BaselineInv, CounterInv, BudgetInv, GateInv

LEMMA NextStep == IInv /\ [Next]_vars => IInv'
  BY StartStep, HeadStep, WorkStep, CountTimeoutStep, RecordStep, RelaunchStep,
     GoneStep, OperatorStep, StutterStep
  DEF Next, Runner, Exit, Kill

-----------------------------------------------------------------------------
LEMMA IInvImplies == IInv => StuckIsStopped /\ NeverRunsOpen
  <1> SUFFICES ASSUME IInv, pc = "work"
               PROVE  /\ cb.circuit # "OPEN"
                      /\ Unchanged /\ repo.work = Clean => same < Budget(state.ticket)
    BY DEF StuckIsStopped, NeverRunsOpen
  <1>1. cb.circuit # "OPEN"
    BY DEF IInv, GateInv
  <1>2. ASSUME Unchanged, repo.work = Clean PROVE same < Budget(state.ticket)
    <2>1. Snapshot \in Snapshots /\ seen = {Snapshot}
          /\ Snapshot.work = Clean /\ Snapshot.ticket = state.ticket
      BY <1>2, SnapshotType DEF IInv, Unchanged, Snapshot
    <2>2. same <= cb.noProgress /\ cb.noProgress < Budget(state.ticket)
      BY <1>1, <2>1 DEF IInv, CounterInv, BudgetInv
    <2>3. same \in Int /\ cb.noProgress \in Int /\ Budget(state.ticket) \in Int
      BY BudgetAssumption, RepoAssumption DEF IInv, TypeOK, Breakers, Budget
    <2> QED
      BY <2>2, <2>3
  <1> QED
    BY <1>1, <1>2

-----------------------------------------------------------------------------
(* The errors.                                                              *)

LEMMA ErrorInit == Init => ErrorInv
  <1>1. SameErrorThreshold \in Nat /\ SameErrorThreshold > 0
    BY SettingAssumption DEF SameErrorThreshold, Larger
  <1> QED
    BY <1>1 DEF Init, ErrorInv, FreshWith, NotRepeated

\* A breaker made afresh, while nothing has been seen.
LEMMA ErrorFresh ==
    ASSUME NEW entries, cb' = FreshWith(entries), repeated' = NotRepeated
    PROVE  ErrorInv'
  <1>1. SameErrorThreshold \in Nat /\ SameErrorThreshold > 0
    BY SettingAssumption DEF SameErrorThreshold, Larger
  <1> QED
    BY <1>1 DEF ErrorInv, FreshWith, NotRepeated

\* Every pass of the mutator counts the error the iteration ended in.
LEMMA ErrorRecord == IInv /\ ErrorInv /\ Record => ErrorInv'
  <1> SUFFICES ASSUME IInv, ErrorInv, Record PROVE ErrorInv'
    OBVIOUS
  <1>1. PICK answer, last \in Answers :
          cb' \in {Pass(cb, answer), Pass(Pass(cb, answer), last)} /\ Observe(answer, last)
    BY RecordIs
  <1> DEFINE error == outcome.error
             first == Pass(cb, answer)
             again == Pass(first, last)
  <1>2. error \in Errors \cup {NoError} /\ cb \in Breakers /\ TypeOK
    BY DEF IInv, TypeOK, Outcomes
  <1>3. /\ first \in Breakers
        /\ first.circuit = "OPEN" \/ first.sameError < SameErrorThreshold
        /\ first.error = error /\ first.sameError = Repetitions(cb, error)
    BY <1>2, RecordedType DEF Pass
  <1>4. cb' \in {first, again}
    BY <1>1
  <1> HIDE DEF first
  <1>5. /\ again.circuit = "OPEN" \/ again.sameError < SameErrorThreshold
        /\ again.error = error /\ again.sameError = Repetitions(first, error)
    BY <1>2, <1>3, RecordedType DEF Pass
  <1> HIDE DEF again
  <1>6. repeated'.error = error
        /\ repeated'.times = IF error = repeated.error THEN Bump(repeated.times) ELSE 1
    BY <1>1 DEF Observe
  <1>7. ASSUME error # NoError PROVE repeated'.times <= cb'.sameError
    <2>1. cb.sameError \in Nat /\ first.sameError \in Nat /\ repeated.times \in Nat
      BY <1>2, <1>3, SettingAssumption DEF Breakers, TypeOK
    <2>2. repeated'.times <= first.sameError
      BY <1>3, <1>6, <1>7, <2>1, SettingAssumption DEF Repetitions, Bump, ErrorInv
    <2>3. again.sameError = first.sameError + 1
      BY <1>3, <1>5, <1>7 DEF Repetitions
    <2>4. repeated'.times \in Int
      BY <1>6, <2>1, SettingAssumption DEF Bump
    <2> QED
      BY <1>4, <2>1, <2>2, <2>3, <2>4
  <1>8. pc' # "down"
    BY DEF Record, Destinations, Onwards
  <1> QED
    BY <1>3, <1>4, <1>5, <1>6, <1>7, <1>8 DEF ErrorInv

LEMMA ErrorStep == IInv /\ ErrorInv /\ [Next]_vars => ErrorInv'
  <1> SUFFICES ASSUME IInv, ErrorInv, [Next]_vars PROVE ErrorInv'
    OBVIOUS
  <1>1. CASE Start
    BY <1>1, ErrorFresh DEF Start, StartFresh, ErrorInv
  <1>2. CASE Gone
    BY <1>2, ErrorFresh DEF Gone
  <1>3. CASE Record
    BY <1>3, ErrorRecord
  <1>4. ASSUME UNCHANGED <<cb, repeated>>, pc' = pc \/ pc' # "down"
        PROVE  ErrorInv'
    BY <1>4 DEF ErrorInv
  <1>5. CASE Head \/ Work \/ CountTimeout \/ Relaunch \/ OperatorReset \/ UNCHANGED vars
    <2>1. UNCHANGED <<cb, repeated>>
      BY <1>5 DEF Head, Work, CountTimeout, Relaunch, OperatorReset, vars
    <2>2. pc' = pc \/ pc' # "down"
      BY <1>5 DEF Head, Work, CountTimeout, Relaunch, OperatorReset, vars
    <2> QED
      BY <1>4, <2>1, <2>2
  <1> QED
    BY <1>1, <1>2, <1>3, <1>5 DEF Next, Runner, Exit, Kill

\* The same error is not met more often than its threshold, whatever progress
\* the iterations make: no agent is spawned once it has been.
THEOREM RepeatedErrorsAreStopped == Spec => []ErrorsAreStopped
  <1>1. IInv /\ ErrorInv => ErrorsAreStopped
    <2> SUFFICES ASSUME IInv, ErrorInv, pc = "work", repeated.error # NoError
                 PROVE  repeated.times < SameErrorThreshold
      BY DEF ErrorsAreStopped
    <2>1. repeated.times <= cb.sameError /\ cb.sameError < SameErrorThreshold
      BY DEF IInv, GateInv, ErrorInv
    <2>2. /\ repeated.times \in Int /\ cb.sameError \in Int
          /\ SameErrorThreshold \in Int
      BY SettingAssumption DEF IInv, TypeOK, Breakers, SameErrorThreshold, Larger
    <2> QED
      BY <2>1, <2>2
  <1> QED
    BY <1>1, InitIInv, NextStep, ErrorInit, ErrorStep, PTL DEF Spec

-----------------------------------------------------------------------------
(* The counter of stuck iterations is no larger than it should be.          *)

LEMMA FreshInit == Init => FreshInv /\ NeverTripsEarly
  BY ShaAssumption, NullAssumption DEF Init, FreshInv, FreshWith, NoCommit, NeverTripsEarly

\* The steps that do not touch the breaker: a commit they make has a name that
\* neither HEAD nor the baseline has.
LEMMA FreshOther ==
    ASSUME FreshInv, NeverTripsEarly, IInv, failed' \in Nat, failed' >= failed,
           UNCHANGED <<cb, seen, same>>,
           repo'.head = repo.head \/ repo'.head.sha # cb.head.sha
    PROVE  FreshInv' /\ NeverTripsEarly'
  <1>1. cb.noProgress \in Nat /\ same \in Nat /\ failed \in Nat
    BY SettingAssumption, SwitchAssumption DEF IInv, TypeOK, Breakers
  <1> QED
    BY <1>1 DEF FreshInv, NeverTripsEarly

\* An iteration that made no progress left what the one before it left, or only
\* threw uncommitted work away.
LEMMA NoProgressIsSeen ==
    ASSUME IInv, FreshInv, NoTicket \notin Pickable, NEW answer,
           ~HasProgress(cb, state, answer)
    PROVE  /\ answer = "all" /\ repo.work = Clean
           /\ \/ Unchanged
              \/ Discarded /\ cb.noProgress = 0
           /\ \E left \in Snapshots : seen = {left} /\ left.ticket = state.ticket
  <1>1. /\ answer = "all" /\ repo.work = Clean /\ cb.head # NoCommit
        /\ ~HeadChanged(cb) /\ ~StepChanged(cb, state) /\ ~TicketChanged(cb, state)
    BY DEF HasProgress
  <1>2. PICK left \in Snapshots : seen = {left}
    BY <1>1 DEF FreshInv, IInv, TypeOK
  <1>3. /\ cb.head.tree = left.tree /\ cb.step = left.step /\ cb.ticket = left.ticket
    BY <1>2 DEF IInv, BaselineInv
  <1>4. repo.head.tree = left.tree
    BY <1>1, <1>3 DEF HeadChanged, FreshInv
  <1>5. left.step = state.step
    BY <1>1, <1>3, NullAssumption DEF StepChanged, Snapshots
  <1>6. left.ticket = state.ticket
    BY <1>1, <1>3 DEF TicketChanged, Snapshots
  <1>7. CASE left.work = Clean
    <2>1. left = Snapshot
      BY <1>1, <1>4, <1>5, <1>6, <1>7 DEF Snapshots, Snapshot
    <2> QED
      BY <1>1, <1>2, <1>6, <2>1 DEF Unchanged
  <1>8. CASE left.work # Clean
    <2>1. left.work \in Edits
      BY <1>8 DEF Snapshots
    <2>2. left = [Snapshot EXCEPT !.work = left.work]
      BY <1>4, <1>5, <1>6 DEF Snapshots, Snapshot
    <2>3. Discarded
      BY <1>1, <1>2, <2>1, <2>2 DEF Discarded
    <2> QED
      BY <1>1, <1>2, <1>6, <1>8, <2>3 DEF FreshInv
  <1> QED
    BY <1>7, <1>8

LEMMA SumIsNat == \A m, n \in Nat : 0 <= m + n
  OBVIOUS

\* Recording, once or twice: the second pass, after a write that failed, counts
\* one more at most.
LEMMA FreshRecord ==
    ASSUME NoTicket \notin Pickable, IInv, FreshInv, NeverTripsEarly, Record
    PROVE  FreshInv' /\ NeverTripsEarly'
  <1>1. PICK answer, last \in Answers :
          /\ \/ last = answer /\ cb' = Pass(cb, answer) /\ UNCHANGED failed
             \/ cb' = Pass(Pass(cb, answer), last) /\ failed' = failed + 1
          /\ Observe(answer, last)
    BY RecordIs
  <1> DEFINE first == Pass(cb, answer)
             again == Pass(first, last)
  <1>2. outcome.error \in Errors \cup {NoError} /\ cb \in Breakers /\ TypeOK
    BY DEF IInv, TypeOK, Outcomes
  <1>3. /\ first \in Breakers /\ first.head = Remembered(answer)
        /\ first.noProgress = IF HasProgress(cb, state, answer) THEN 0 ELSE cb.noProgress + 1
    BY <1>2, RecordedType DEF Pass
  <1>4. \/ cb' = first /\ last = answer /\ UNCHANGED failed
        \/ cb' = again /\ failed' = failed + 1
    BY <1>1
  <1> HIDE DEF first
  <1>5. /\ again.head = Remembered(last)
        /\ again.noProgress = IF HasProgress(first, state, last) THEN 0
                              ELSE first.noProgress + 1
    BY <1>2, <1>3, RecordedType DEF Pass
  <1> HIDE DEF again
  <1>6. /\ first.noProgress \in Nat /\ cb.noProgress \in Nat /\ failed \in Nat /\ same \in Nat
        /\ CountBound \in Nat
    BY <1>2, <1>3, SettingAssumption, SwitchAssumption DEF Breakers, TypeOK
  <1>7. /\ seen' = IF last = "none" THEN {} ELSE {Snapshot}
        /\ Snapshot.work = repo.work /\ repo' = repo
    BY <1>1 DEF Observe, Snapshot, Record
  <1>8. FreshInv'
    <2>1. repo.work # Clean \/ last = "none" => cb'.noProgress = 0
      BY <1>3, <1>4, <1>5 DEF HasProgress
    <2>2. cb'.head = Remembered(last)
      BY <1>3, <1>4, <1>5
    <2>3. NoCommit.sha # repo.head.sha
      BY <1>2, NullAssumption DEF TypeOK, NoCommit
    <2> QED
      BY <1>7, <2>1, <2>2, <2>3 DEF FreshInv, Remembered
  <1>9. ASSUME last = "all" PROVE first.noProgress <= same' + failed
    <2>1. CASE HasProgress(cb, state, answer)
      <3>1. same' \in Nat
        BY <1>1, <1>6 DEF Observe, Bump
      <3>2. first.noProgress = 0
        BY <1>3, <2>1
      <3> QED
        BY <1>6, <3>1, <3>2, SumIsNat
    <2>2. CASE ~HasProgress(cb, state, answer)
      <3>1. /\ answer = "all" /\ (Unchanged \/ (Discarded /\ cb.noProgress = 0))
            /\ \E left \in Snapshots : seen = {left} /\ left.ticket = state.ticket
        BY <1>2, <2>2, NoProgressIsSeen
      <3>2. cb.noProgress < Budget(state.ticket)
        BY <3>1 DEF IInv, BudgetInv, GateInv, Record
      <3>3. Budget(state.ticket) <= CountBound /\ Budget(state.ticket) \in Nat
        BY <1>2, CountAssumption, BudgetAssumption, RepoAssumption DEF TypeOK, Budget
      <3>4. first.noProgress = cb.noProgress + 1
        BY <1>3, <2>2
      <3>5. CASE Unchanged
        <4>1. same' = Bump(same)
          BY <1>1, <1>9, <3>1, <3>5 DEF Observe
        <4> QED
          BY <1>6, <3>2, <3>3, <3>4, <4>1 DEF Bump, NeverTripsEarly
      <3>6. CASE ~Unchanged
        <4>1. same' = 1 /\ cb.noProgress = 0
          BY <1>1, <1>9, <3>1, <3>6 DEF Observe
        <4> QED
          BY <1>6, <3>4, <4>1
      <3> QED
        BY <3>5, <3>6
    <2> QED
      BY <2>1, <2>2
  <1>10. same' \in Nat
    BY <1>1, <1>6 DEF Observe, Bump
  <1>11. CASE last = "all"
    <2>1. again.noProgress = 0 \/ again.noProgress = first.noProgress + 1
      BY <1>5
    <2>2. CASE cb' = first /\ UNCHANGED failed
      BY <1>8, <1>9, <1>11, <2>2 DEF NeverTripsEarly
    <2>3. CASE cb' = again /\ failed' = failed + 1
      <3>1. first.noProgress <= same' + failed
        BY <1>9, <1>11
      <3>2. again.noProgress <= same' + (failed + 1)
        BY <1>6, <1>10, <2>1, <3>1
      <3> QED
        BY <1>8, <2>3, <3>2 DEF NeverTripsEarly
    <2> QED
      BY <1>4, <2>2, <2>3
  <1>12. CASE last # "all"
    <2>1. cb'.noProgress = 0
      BY <1>3, <1>4, <1>5, <1>12 DEF HasProgress
    <2>2. failed' \in Nat
      BY <1>4, <1>6
    <2>3. 0 <= same' + failed'
      BY <1>10, <2>2, SumIsNat
    <2> QED
      BY <1>8, <2>1, <2>3 DEF NeverTripsEarly
  <1> QED
    BY <1>11, <1>12

LEMMA FreshStep ==
    ASSUME NoTicket \notin Pickable, IInv, FreshInv, NeverTripsEarly, [Next]_vars
    PROVE  FreshInv' /\ NeverTripsEarly'
  <1>1. failed \in Nat /\ NoHead \notin Shas /\ repo.head.sha \in Shas
    BY SwitchAssumption, NullAssumption DEF IInv, TypeOK
  <1>2. CASE Start
    <2>1. /\ cb'.head = NoCommit /\ cb'.noProgress = 0 /\ UNCHANGED <<repo, seen, same, failed>>
          /\ seen = {} /\ same \in Nat
      BY <1>2, SettingAssumption DEF Start, StartFresh, FreshWith, IInv, GateInv, TypeOK
    <2> QED
      BY <1>1, <2>1 DEF FreshInv, NeverTripsEarly, NoCommit
  <1>3. CASE Gone
    BY <1>1, <1>3 DEF Gone, FreshWith, FreshInv, NeverTripsEarly, NoCommit
  <1>4. CASE Work
    <2>1. repo'.head = repo.head \/ repo'.head.sha # cb.head.sha
      BY <1>4 DEF Work, LeaveAlone, Edit, Commit, IInv, TypeOK
    <2> QED
      BY <1>1, <1>4, <2>1, FreshOther DEF Work
  <1>5. CASE Relaunch
    <2>1. failed' \in Nat /\ failed' >= failed
      BY <1>1, <1>5 DEF Relaunch
    <2> QED
      BY <1>5, <2>1, FreshOther DEF Relaunch
  <1>6. CASE Head \/ CountTimeout \/ OperatorReset \/ UNCHANGED vars
    <2>1. UNCHANGED <<repo, cb, seen, same, failed>>
      BY <1>6 DEF Head, CountTimeout, OperatorReset, vars
    <2> QED
      BY <1>1, <2>1, FreshOther
  <1> QED
    BY <1>2, <1>3, <1>4, <1>5, <1>6, FreshRecord DEF Next, Runner, Exit, Kill

\* While there is always a current ticket, no session is stopped early: the
\* counter is at most the number of iterations in a row that left the same, and
\* one for every update of state.json that failed.
THEOREM NothingIsStoppedEarly ==
    ASSUME NoTicket \notin Pickable
    PROVE  Spec => []NeverTripsEarly
  <1>1. IInv /\ FreshInv /\ NeverTripsEarly /\ [Next]_vars => (FreshInv /\ NeverTripsEarly)'
    BY FreshStep
  <1> QED
    BY <1>1, InitIInv, NextStep, FreshInit, PTL DEF Spec

-----------------------------------------------------------------------------
(* The audit history.                                                       *)

\* The step that changes the file leaves it no shorter history, and the runner
\* is not behind it.
LEMMA AuditStep ==
    ASSUME PatientOperator
    PROVE  IInv /\ AuditInv /\ [Next]_vars
             => AuditInv' /\ (disk'.entries >= disk.entries \/ disk.entries >= HistoryCap)
  <1> SUFFICES ASSUME IInv, AuditInv, [Next]_vars
               PROVE  AuditInv' /\ (disk'.entries >= disk.entries \/ disk.entries >= HistoryCap)
    OBVIOUS
  <1>1. disk.entries \in Nat /\ HistoryCap \in Nat /\ cb \in Breakers /\ cb.entries \in Nat
        /\ disk \in [circuit : {"NONE", "CLOSED", "HALF_OPEN", "OPEN"}, entries : Nat]
    BY SettingAssumption DEF IInv, TypeOK, Breakers
  <1>2. Reset(disk).entries >= disk.entries
    BY <1>1 DEF Reset
  <1>3. CASE Start
    <2>1. disk' = disk
      BY <1>3 DEF Start
    <2>2. cb'.entries = IF disk = NoFile THEN 0 ELSE Smaller(disk.entries + 1, HistoryCap)
      BY <1>3 DEF Start, StartFresh, FreshWith
    <2>3. disk = NoFile => disk.entries = 0
      BY DEF NoFile
    <2> QED
      BY <1>1, <2>1, <2>2, <2>3 DEF AuditInv, Smaller
  <1>4. CASE Record
    <2>1. PICK answer, last \in Answers : cb' \in {Pass(cb, answer), Pass(Pass(cb, answer), last)}
      BY <1>4, RecordIs
    <2> DEFINE first == Pass(cb, answer)
               again == Pass(first, last)
    <2>2. outcome.error \in Errors \cup {NoError} /\ TypeOK
      BY DEF IInv, TypeOK, Outcomes
    <2>3. first \in Breakers /\ first.entries >= cb.entries
      BY <1>1, <2>2, RecordedType DEF Pass
    <2>4. cb' \in {first, again}
      BY <2>1
    <2> HIDE DEF first
    <2>5. again \in Breakers /\ again.entries >= first.entries
      BY <2>2, <2>3, RecordedType DEF Pass
    <2> HIDE DEF again
    <2>6. first.entries \in Nat /\ again.entries \in Nat
      BY <1>1, <2>3, <2>5 DEF Breakers
    <2>7. cb'.entries >= cb.entries /\ cb'.entries \in Nat
      BY <1>1, <2>3, <2>4, <2>5, <2>6
    <2>8. disk'.entries = cb'.entries
      BY <1>4 DEF Record, Written
    <2>9. pc = "record"
      BY <1>4 DEF Record
    <2> QED
      BY <1>1, <2>7, <2>8, <2>9 DEF AuditInv
  <1>5. CASE Head \/ Work \/ Relaunch \/ UNCHANGED vars
    <2>1. UNCHANGED <<cb, disk>> /\ (pc' = pc \/ pc \notin {"down", "exit"})
      BY <1>5 DEF Head, Work, Relaunch, vars
    <2> QED
      BY <1>1, <2>1 DEF AuditInv
  <1>6. CASE CountTimeout
    <2>1. cb' = cb /\ pc = "timeout" /\ (disk' = disk \/ (disk' = Reset(disk) /\ pc' = "exit"))
      BY <1>6 DEF CountTimeout
    <2> QED
      BY <1>1, <1>2, <2>1 DEF AuditInv
  <1>7. CASE OperatorReset
    BY <1>2, <1>7 DEF OperatorReset, AuditInv
  <1>8. CASE Gone
    BY <1>1, <1>8 DEF Gone, AuditInv
  <1> QED
    BY <1>3, <1>4, <1>5, <1>6, <1>7, <1>8 DEF Next, Runner, Exit, Kill

\* While resets wait for the runner to end, as the tool's last line asks for, no
\* restart, reset or kill shortens the audit history before it reaches its cap.
THEOREM AuditIsKept ==
    ASSUME PatientOperator
    PROVE  Spec => AuditNeverShrinks
  <1>1. Init => AuditInv
    BY DEF Init, AuditInv
  <1>2. IInv /\ AuditInv /\ [Next]_vars => AuditInv'
    BY AuditStep
  <1>3. IInv /\ AuditInv /\ [Next]_vars
          => [disk'.entries >= disk.entries \/ disk.entries >= HistoryCap]_disk
    BY AuditStep
  <1> QED
    BY <1>1, <1>2, <1>3, InitIInv, NextStep, PTL DEF Spec, AuditNeverShrinks

-----------------------------------------------------------------------------
\* Every variable has its type: the history, the timeouts and the relaunches
\* stay within their caps, in any run of the program.
THEOREM TypeCorrect == Spec => []TypeOK
  <1>1. IInv => TypeOK
    BY DEF IInv
  <1> QED
    BY <1>1, InitIInv, NextStep, PTL DEF Spec

\* Runaway sessions are stopped: a clean tree, a step and a ticket that stay the
\* same over as many recorded iterations as the ticket's budget let no agent be
\* spawned again, whatever fails.
THEOREM StuckSessionsAreStopped == Spec => []StuckIsStopped
  BY InitIInv, NextStep, IInvImplies, PTL DEF Spec

\* No agent is spawned by a runner whose breaker is open.
THEOREM OpenBreakerStops == Spec => []NeverRunsOpen
  BY InitIInv, NextStep, IInvImplies, PTL DEF Spec
=============================================================================

--------------------------- MODULE CircuitBreaker ---------------------------
(***************************************************************************)
(* The guards that end a stuck session: the circuit breaker of             *)
(* services/circuit-breaker.ts as the main loop of bin/mux-runner.ts uses  *)
(* it, the counter of repeated timeouts and the cap on relaunches.         *)
(*                                                                         *)
(* An iteration spawns an agent, which works on the repository and on      *)
(* state.json, and ends with an outcome.  The loop is one synchronous      *)
(* process that anyone may kill; an operator may run circuit-reset beside  *)
(* it.  The contents of the repository are values to be compared: a commit *)
(* is the pair of its name and its tree, and the uncommitted changes are   *)
(* Clean or one of Edits.                                                  *)
(***************************************************************************)
EXTENDS Integers, FiniteSets

CONSTANTS
    Tickets, NoTicket,       \* state.current_ticket, and its null
    Steps, NoStep,           \* state.step, and the null of an unknown one
    Trees, Shas, NoHead,     \* trees and names of commits, and no commit known
    Edits, Clean,            \* what may be left uncommitted, and nothing
    Errors, NoError,         \* normalised error signatures, and none
    TierBudget,              \* the no-progress budget of a ticket's tier
    MediumBudget,            \* the one of a session without a ticket
    NoProgressSetting, SameErrorSetting, HalfOpenSetting,  \* pickle_settings.json
    RelaunchCap,             \* how often a manager may be relaunched
    HistoryCap,              \* 1000 in the code
    Pickable,                \* what an agent may set the current ticket to
    MaxFaults,               \* bound on the updates of state.json that fail
    Answers,                 \* what git may tell of the repository: "all" of it,
                             \* its "head" without the changes or trees, or "none"
    PatientOperator,         \* whether circuit-reset waits for the runner to end
    CountBound               \* bound on the ghost counters

ASSUME NullAssumption ==
    /\ NoTicket \notin Tickets /\ NoStep \notin Steps /\ NoHead \notin Shas
    /\ Clean \notin Edits /\ NoError \notin Errors
ASSUME RepoAssumption == Trees # {} /\ Steps # {} /\ Pickable # {}
    /\ Pickable \subseteq Tickets \cup {NoTicket}
ASSUME ShaAssumption ==
    \A a \in Shas, b \in Shas \cup {NoHead} : Shas \ {a, b} # {}
ASSUME BudgetAssumption ==
    TierBudget \in [Tickets -> Nat \ {0}] /\ MediumBudget \in Nat \ {0}
ASSUME SettingAssumption ==
    /\ NoProgressSetting \in Nat \ {0} /\ SameErrorSetting \in Nat \ {0}
    /\ HalfOpenSetting \in Nat \ {0} /\ RelaunchCap \in Nat
    /\ HistoryCap \in Nat \ {0} /\ CountBound \in Nat \ {0}
ASSUME SwitchAssumption ==
    /\ MaxFaults \in Nat /\ PatientOperator \in BOOLEAN
    /\ Answers \subseteq {"all", "head", "none"}

VARIABLES
    repo,      \* the working directory: the commit at HEAD and the changes on it
    state,     \* state.json
    disk,      \* circuit_breaker.json
    cb,        \* the breaker in the runner's memory
    timeouts,  \* the timeouts of a ticket, in memory as well
    pc,        \* where the runner is, "down" between two runs
    outcome,   \* how the last iteration ended
    failed,    \* how many updates of state.json have failed in this run
    seen,      \* ghost: {what the last recorded iteration left}, or {} when git
               \* has told nothing of it
    same,      \* ghost: recorded iterations in a row that left the same, as far
               \* as git told all of each
    repeated   \* ghost: recorded iterations in a row that ended alike

vars == <<repo, state, disk, cb, timeouts, pc, outcome, failed, seen, same, repeated>>

-----------------------------------------------------------------------------
(* Settings.                                                               *)

Larger(a, b) == IF a > b THEN a ELSE b
Smaller(a, b) == IF a < b THEN a ELSE b

\* loadSettings: thresholds of at least two, half open before open.
NoProgressThreshold == Larger(2, NoProgressSetting)
SameErrorThreshold == Larger(2, SameErrorSetting)
HalfOpenAfter == IF HalfOpenSetting >= NoProgressThreshold
                 THEN Larger(1, NoProgressThreshold - 1) ELSE HalfOpenSetting

\* getCircuitBreakerBudget.  Whoever moves current_ticket clears the copy
\* cached in state.json, so the budget is the current ticket's.
Budget(ticket) == IF ticket = NoTicket THEN MediumBudget ELSE TierBudget[ticket]

\* The ghost counters count as far as any budget goes.
ASSUME CountAssumption == \A ticket \in Pickable : Budget(ticket) <= CountBound

\* settingsWithCircuitBreakerBudget: the tier's budget replaces the threshold.
Settings(ticket) ==
    [open |-> Budget(ticket),
     half |-> Smaller(HalfOpenAfter, Larger(1, Budget(ticket) - 1))]

-----------------------------------------------------------------------------
(* The breaker, as functions of its record.                                *)

NoCommit == [sha |-> NoHead, tree |-> NoHead]

FreshWith(entries) ==
    [circuit |-> "CLOSED", noProgress |-> 0, sameError |-> 0, error |-> NoError,
     head |-> NoCommit, step |-> NoStep, ticket |-> NoTicket, entries |-> entries]

NoFile == [circuit |-> "NONE", entries |-> 0]
Written(c) == [circuit |-> c.circuit, entries |-> c.entries]

\* Mutant: a fresh start that drops the history.
StartAnew(file) == FreshWith(0)

\* startFreshCircuitBreaker: nothing survives a process but the audit history,
\* to which one entry is added.
StartFresh(file) ==
    FreshWith(IF file = NoFile THEN 0 ELSE Smaller(file.entries + 1, HistoryCap))

\* resetCircuitBreaker, on the file: nothing to do when there is none or it is
\* CLOSED.  The entry it adds is not counted against the cap.
Reset(file) ==
    IF file.circuit \in {"NONE", "CLOSED"} THEN file
    ELSE [circuit |-> "CLOSED", entries |-> file.entries + 1]

\* Mutant: a history without a cap.
TransitionUncapped(c, to) ==
    IF c.circuit = to THEN c ELSE [c EXCEPT !.circuit = to, !.entries = @ + 1]

Transition(c, to) ==
    IF c.circuit = to THEN c
    ELSE [c EXCEPT !.circuit = to,
                   !.entries = IF @ >= HistoryCap THEN @ ELSE @ + 1]

\* Mutant: any commit is progress.
HeadMoved(c) == repo.head.sha # c.head.sha

\* A commit that leaves the tree as it was is no progress.
HeadChanged(c) == repo.head.sha # c.head.sha /\ repo.head.tree # c.head.tree

StepChanged(c, s) == c.step # NoStep /\ c.step # s.step
TicketChanged(c, s) == c.ticket # NoTicket /\ c.ticket # s.ticket

\* Mutant: uncommitted work is not looked at.
HasCommittedProgress(c, s, answer) ==
    \/ answer # "all"
    \/ c.head = NoCommit
    \/ HeadChanged(c)
    \/ StepChanged(c, s)
    \/ TicketChanged(c, s)

\* detectProgress: without a baseline, or when git does not tell all, progress is
\* assumed.
HasProgress(c, s, answer) ==
    \/ answer # "all"
    \/ c.head = NoCommit
    \/ repo.work # Clean
    \/ HeadChanged(c)
    \/ StepChanged(c, s)
    \/ TicketChanged(c, s)

\* Mutant: the first error of a kind is not counted.
TrackRepetition(c, error) ==
    [c EXCEPT !.error = error,
              !.sameError = IF error # NoError /\ error = c.error THEN @ + 1 ELSE 0]

\* updateErrorTracking.
TrackError(c, error) ==
    [c EXCEPT !.error = error,
              !.sameError = IF error = NoError THEN 0
                            ELSE IF error = c.error THEN @ + 1 ELSE 1]

\* recordIterationResult: the counters ...
Counted(c, progress, error) ==
    LET tracked == TrackError(c, error)
    IN  IF ~progress THEN [tracked EXCEPT !.noProgress = @ + 1]
        ELSE LET cleared == [tracked EXCEPT !.noProgress = 0]
             IN  IF c.circuit = "HALF_OPEN" THEN Transition(cleared, "CLOSED") ELSE cleared

\* ... and the transition, errors first.
Judged(c, settings) ==
    IF c.sameError >= SameErrorThreshold THEN Transition(c, "OPEN")
    ELSE IF c.noProgress >= settings.open THEN Transition(c, "OPEN")
    ELSE IF c.noProgress >= settings.half /\ c.circuit = "CLOSED"
         THEN Transition(c, "HALF_OPEN")
    ELSE c

\* One pass of the mutator of recordCircuitBreakerIteration.  A git that tells
\* nothing leaves no HEAD to compare the next iteration with.
Recorded(c, s, error, answer) ==
    [Judged(Counted(c, HasProgress(c, s, answer), error), Settings(s.ticket))
        EXCEPT !.head = IF answer = "none" THEN NoCommit ELSE repo.head,
               !.step = s.step, !.ticket = s.ticket]

-----------------------------------------------------------------------------
(* The loop.                                                               *)

NoTimeouts == [count |-> 0, ticket |-> NoTicket]

\* What an agent can be asked to end with: task_completed, another promise or
\* none, and the ends that the breaker does not record.
Completions == {"completed", "continue", "error", "inactive"}
Unrecorded == {"error", "inactive"}

Outcomes ==
    {o \in [kind : Completions, error : Errors \cup {NoError}, timedOut : BOOLEAN] :
        o.kind \in Unrecorded => o.error = NoError}
NotRepeated == [error |-> NoError, times |-> 0]
FirstOutcome == [kind |-> "continue", error |-> NoError, timedOut |-> FALSE]

Snapshot == [tree |-> repo.head.tree, work |-> repo.work,
             step |-> state.step, ticket |-> state.ticket]

Init ==
    /\ \E sha \in Shas, tree \in Trees, work \in Edits \cup {Clean} :
           repo = [head |-> [sha |-> sha, tree |-> tree], work |-> work]
    /\ \E step \in Steps, ticket \in Pickable :
           state = [step |-> step, ticket |-> ticket, relaunches |-> 0]
    /\ disk = NoFile
    /\ cb = FreshWith(0)
    /\ timeouts = NoTimeouts
    /\ pc = "down"
    /\ outcome = FirstOutcome /\ failed = 0
    /\ seen = {} /\ same = 0 /\ repeated = NotRepeated

\* The start of a mux-runner process: the first run, a resume, or a relaunch
\* by the shell around it.
Start ==
    /\ pc = "down"
    /\ cb' = StartFresh(disk)
    /\ pc' = "head"
    /\ UNCHANGED <<repo, state, disk, timeouts, outcome, failed, seen, same, repeated>>

\* Mutant: the loop trusts the record to have ended the run.
HeadUngated ==
    /\ pc = "head"
    /\ pc' = "work"
    /\ UNCHANGED <<repo, state, disk, cb, timeouts, outcome, failed, seen, same, repeated>>

\* The gate at the head of a pass; the spawn follows.
Head ==
    /\ pc = "head"
    /\ pc' = IF cb.circuit = "OPEN" THEN "exit" ELSE "work"
    /\ UNCHANGED <<repo, state, disk, cb, timeouts, outcome, failed, seen, same, repeated>>

\* What the agents of one iteration do to the repository.  The name of a commit
\* can be used again once nothing remembers it.
LeaveAlone == repo' = repo
Edit == \E work \in Edits \cup {Clean} : repo' = [repo EXCEPT !.work = work]
Commit == \E sha \in Shas \ {repo.head.sha, cb.head.sha}, tree \in Trees :
    repo' = [head |-> [sha |-> sha, tree |-> tree], work |-> Clean]

\* The agents work, move on in state.json or not, and end one way or another.
\* Only one of the ends that matter here carries an error signature.
Work ==
    /\ pc = "work"
    /\ LeaveAlone \/ Edit \/ Commit
    /\ \E step \in Steps, ticket \in Pickable :
           state' = [state EXCEPT !.step = step, !.ticket = ticket]
    /\ outcome' \in Outcomes
    /\ pc' = "timeout"
    /\ UNCHANGED <<disk, cb, timeouts, failed, seen, same, repeated>>

\* applyTimeoutCounter.
Advanced ==
    IF outcome.timedOut
    THEN [ticket |-> state.ticket,
          count |-> IF state.ticket # NoTicket /\ state.ticket = timeouts.ticket
                    THEN timeouts.count + 1 ELSE 1]
    ELSE IF outcome.kind = "completed" THEN NoTimeouts ELSE timeouts

HaltsOn(counter) == outcome.timedOut /\ counter.count >= 2

\* The counter of timeouts, before the breaker: the second one on a ticket ends
\* the run, unless its artifacts have grown (the count starts again at one) or
\* the recovery ladder can move the queue on (nothing is recorded then).
CountTimeout ==
    /\ pc = "timeout"
    /\ IF ~HaltsOn(Advanced)
       THEN timeouts' = Advanced /\ pc' = "record" /\ UNCHANGED <<state, disk>>
       ELSE \/ /\ timeouts' = [Advanced EXCEPT !.count = 1]
               /\ pc' = "record" /\ UNCHANGED <<state, disk>>
            \/ /\ \E ticket \in Pickable \ {state.ticket} :
                      state' = [state EXCEPT !.ticket = ticket]
               /\ timeouts' = NoTimeouts
               /\ pc' = "head" /\ UNCHANGED disk
            \/ /\ disk' = Reset(disk)
               /\ timeouts' = Advanced
               /\ pc' = "exit" /\ UNCHANGED state
    /\ UNCHANGED <<repo, cb, outcome, failed, seen, same, repeated>>

Bump(count) == IF count < CountBound THEN count + 1 ELSE count

\* What the last recorded iteration left is what there is now, or this one has
\* only thrown uncommitted work away.
Unchanged == seen = {Snapshot}
Discarded == repo.work = Clean
             /\ \E work \in Edits : seen = {[Snapshot EXCEPT !.work = work]}

\* The ghosts: what really happened, from what the iterations have left, as far
\* as git told of it, the first and the last time it was asked.
Observe(first, last) ==
    /\ seen' = IF last = "none" THEN {} ELSE {Snapshot}
    /\ same' = IF {first, last} # {"all"} THEN 0
               ELSE IF Unchanged THEN Bump(same)
               ELSE IF Discarded THEN 1 ELSE 0
    /\ repeated' = [error |-> outcome.error,
                    times |-> IF outcome.error = repeated.error THEN Bump(repeated.times)
                              ELSE 1]

\* The loop goes on after it has recorded an iteration; a claim of completion
\* that the finaliser believes ends the run.
Onwards == IF outcome.kind = "completed" THEN {"head", "exit"} ELSE {"head"}

\* Where the loop goes when the breaker was before and is after the iteration.
Destinations(before, after) ==
    IF before.circuit # "OPEN" /\ after.circuit = "OPEN" THEN {"exit"} ELSE Onwards

\* recordCircuitBreakerIteration.  When the write of state.json fails after the
\* mutator has run, the fallback asks git again and records the iteration again, on
\* the breaker the mutator has left; a breaker that was open then does not end the run.
Record ==
    /\ pc = "record" /\ outcome.kind \notin Unrecorded
    /\ \E answer \in Answers :
        LET first == Recorded(cb, state, outcome.error, answer)
        IN  \/ /\ cb' = first /\ pc' \in Destinations(cb, first)
               /\ Observe(answer, answer)
               /\ UNCHANGED failed
            \/ /\ failed < MaxFaults /\ failed' = failed + 1
               /\ \E second \in Answers :
                   /\ cb' = Recorded(first, state, outcome.error, second)
                   /\ Observe(answer, second)
               /\ pc' \in Destinations(first, cb')
    /\ disk' = Written(cb')
    /\ outcome' = FirstOutcome
    /\ UNCHANGED <<repo, state, timeouts>>

\* Mutant: relaunches are not counted.
RelaunchUncounted ==
    /\ pc = "record" /\ outcome.kind \in Unrecorded
    /\ \/ cb.circuit # "OPEN" /\ state.relaunches < RelaunchCap /\ pc' = "head"
       \/ pc' = "exit"
    /\ outcome' = FirstOutcome
    /\ UNCHANGED <<repo, state, disk, cb, timeouts, failed, seen, same, repeated>>

\* The ends that are not recorded: the manager is relaunched while the cap
\* allows it and there is work left, else the run ends.  That the count is
\* not persisted is only logged.  The recovery ladder and the bounded escape
\* give up the current ticket and go on with another, uncounted.
Relaunch ==
    /\ pc = "record" /\ outcome.kind \in Unrecorded
    /\ \/ /\ cb.circuit # "OPEN" /\ state.relaunches < RelaunchCap
          /\ \/ /\ state' = [state EXCEPT !.relaunches = @ + 1]
                /\ UNCHANGED failed
             \/ /\ failed < MaxFaults /\ failed' = failed + 1
                /\ UNCHANGED state
             \/ /\ \E ticket \in Pickable \ {state.ticket} :
                       state' = [state EXCEPT !.ticket = ticket]
                /\ UNCHANGED failed
          /\ pc' = "head"
       \/ pc' = "exit" /\ UNCHANGED <<state, failed>>
    /\ outcome' = FirstOutcome
    /\ UNCHANGED <<repo, disk, cb, timeouts, seen, same, repeated>>

\* circuit-reset, by hand.
OperatorReset ==
    /\ PatientOperator => pc = "down"
    /\ disk' = Reset(disk)
    /\ UNCHANGED <<repo, state, cb, timeouts, pc, outcome, failed, seen, same, repeated>>

\* The process is gone, with what it had in memory.
Gone ==
    /\ pc' = "down"
    /\ cb' = FreshWith(0) /\ timeouts' = NoTimeouts /\ outcome' = FirstOutcome
    /\ failed' = 0
    /\ seen' = {} /\ same' = 0 /\ repeated' = NotRepeated
    /\ UNCHANGED <<repo, state, disk>>

Exit == pc = "exit" /\ Gone

\* A user cancels, the system kills the process or the fallback cannot write.
Kill == pc # "down" /\ Gone

Runner == Head \/ Work \/ CountTimeout \/ Record \/ Relaunch \/ Exit

Next == Start \/ Runner \/ OperatorReset \/ Kill

Spec == Init /\ [][Next]_vars

\* A process that has started keeps running; the guards on hung agents make
\* every iteration end.
FairSpec == Spec /\ WF_vars(Runner)

-----------------------------------------------------------------------------
(* Properties.                                                             *)

Heads == [sha : Shas, tree : Trees] \cup {NoCommit}

Breakers ==
    [circuit : {"CLOSED", "HALF_OPEN", "OPEN"}, noProgress : Nat, sameError : Nat,
     error : Errors \cup {NoError}, head : Heads, step : Steps \cup {NoStep},
     ticket : Tickets \cup {NoTicket}, entries : 0..HistoryCap]

Snapshots == [tree : Trees, work : Edits \cup {Clean}, step : Steps, ticket : Pickable]

\* Every variable has its type: the history is never longer than its cap, no
\* ticket times out a third time, and the relaunches stay within theirs.
TypeOK ==
    /\ repo \in [head : [sha : Shas, tree : Trees], work : Edits \cup {Clean}]
    /\ state \in [step : Steps, ticket : Pickable, relaunches : 0..RelaunchCap]
    /\ disk \in [circuit : {"NONE", "CLOSED", "HALF_OPEN", "OPEN"}, entries : Nat]
    /\ cb \in Breakers
    /\ timeouts \in [count : 0..2, ticket : Tickets \cup {NoTicket}]
    /\ pc \in {"down", "head", "work", "timeout", "record", "exit"}
    /\ outcome \in Outcomes
    /\ failed \in 0..MaxFaults
    /\ same \in 0..CountBound
    /\ repeated \in [error : Errors \cup {NoError}, times : 0..CountBound]
    /\ seen = {} \/ \E left \in Snapshots : seen = {left}

\* Runaway sessions are stopped: no agent is spawned once as many recorded
\* iterations in a row as the budget of the ticket's tier have left a clean tree,
\* the step and the ticket exactly as the one before them did, whatever empty
\* commits they made and whichever writes failed.  An iteration of which git did
\* not tell all starts the row anew.
StuckIsStopped ==
    pc = "work" /\ Unchanged /\ repo.work = Clean => same < Budget(state.ticket)

\* The breaker counts no iteration that changed something, and none twice: no
\* session is stopped early for lack of progress.  A failed update of state.json
\* brings the end one iteration nearer, and no more.
NeverTripsEarly == cb.noProgress <= same + failed

\* The same error is not met more often than the threshold allows, whatever
\* progress the iterations that end in it make.
ErrorsAreStopped ==
    pc = "work" /\ repeated.error # NoError => repeated.times < SameErrorThreshold

\* A breaker that is open never lets an agent be spawned, not even when the
\* record that opened it was made by an update that failed.
NeverRunsOpen == pc = "work" => cb.circuit # "OPEN"

\* The audit history of the file never gets shorter while it is below its cap,
\* over restarts, resets and kills.
AuditNeverShrinks ==
    [][disk'.entries >= disk.entries \/ disk.entries >= HistoryCap]_disk

\* A session that is stuck in a clean tree is ended in the end: by the breaker,
\* by the second timeout, or by the cap on relaunches.
StuckSessionEnds ==
    (pc # "down") ~> (pc = "down" \/ repo.work # Clean \/ (seen # {} /\ ~Unchanged))
=============================================================================

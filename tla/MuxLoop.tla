------------------------------- MODULE MuxLoop -------------------------------
(***************************************************************************)
(* The main loop of bin/mux-runner.ts: it picks a ticket, spawns an agent  *)
(* on it, judges what the agent left, and goes on until the tickets are    *)
(* finished or one of its bounds ends the run.                             *)
(*                                                                         *)
(* A pass of the loop is one synchronous process, in actions that follow   *)
(* its stages; agents write the ticket files and state.json while the      *)
(* runner waits for them.  An operator may retry a ticket, cancel the      *)
(* session, kill the runner and start it again, whatever the stage.        *)
(***************************************************************************)
EXTENDS Integers

CONSTANTS
    NumTickets,     \* the tickets are 1..NumTickets, in the order of their work
    SkipK,          \* PICKLE_WMW_SKIP_K: spawns without progress before a flip
    SuppressionCap, \* failed_flip_suppression_cap: how often a flip is held off
    FalseEpics,     \* FALSE_EPIC_THRESHOLD: false claims of completion
    EscapeCap,      \* bounded_terminal_escape_cap: sterile relaunches of a ticket
    RelaunchCap,    \* how often a manager may be relaunched
    TicketCap,      \* current_ticket_max_iterations of the ticket's tier
    BreakerBudget,  \* iterations without progress that open the breaker
    Bounds          \* the bounds of a session: the acts of its agents and the
                    \* successes of the ladder and of the acceptance gate, the
                    \* retries of its operator, and its runners

ASSUME LoopAssumption ==
    /\ NumTickets \in Nat \ {0} /\ SkipK \in Nat \ {0} /\ FalseEpics \in Nat
    /\ SuppressionCap \in Nat /\ EscapeCap \in Nat \ {0} /\ RelaunchCap \in Nat
    /\ TicketCap \in Nat \ {0} /\ BreakerBudget \in Nat \ {0}
    /\ Bounds \subseteq [work : Nat, retries : Nat, runs : Nat]

VARIABLES
    status,    \* the status in the frontmatter of each ticket
    commits,   \* the tickets that a commit of this session is attributed to
    state,     \* what state.json says of the session
    memory,    \* the loop's variables, lost with the process
    pc,        \* the stage of the pass, "down" between two runs
    spawn,     \* the last iteration: what its head has read, its ticket, what came
               \* of it, what was claimed; and, of its history, whether an operator
               \* has moved the pointer after the head had set it
    verdict,   \* the exit reason the last run ended with
    retry,     \* the ticket retry-ticket has reset and not yet made current,
               \* and those it has reset since the runner was started
    left       \* what is left of the bounds

vars == <<status, commits, state, memory, pc, spawn, verdict, retry, left>>

-----------------------------------------------------------------------------
(* Tickets.  "Stalled" is the status Failed with a reason of no progress,  *)
(* "Failed" the same status with another reason or none.                   *)

None == 0
Tickets == 1..NumTickets
Statuses == {"Todo", "In Progress", "Done", "Skipped", "Failed", "Stalled"}
Terminal == {"Done", "Skipped"}

First(set) == IF set = {} THEN None ELSE CHOOSE t \in set : \A u \in set : t <= u

\* readActiveFailedFlipHolds: a flip to Failed was suppressed, and the operator
\* has not reset the ticket since.
Held(st, s, t) == s.holds[t] > 0 /\ st[t] # "Todo"

\* findNextPendingTicketId.
NextPending(st, s) ==
    First({t \in Tickets : st[t] \notin Terminal \cup {"Stalled"} /\ ~Held(st, s, t)})

\* isResumedDoneWithDurableCommit.
Finished(st, t) == st[t] \in Terminal /\ t \in commits

\* isPendingForAdvance: a failed ticket does not count when nothing was
\* committed for it and the tree is clean.
Blocking(clean) ==
    {t \in Tickets : /\ status[t] \notin Terminal
                     /\ status[t] \in {"Failed", "Stalled"} => t \in commits \/ ~clean}

\* noRunnableTicketsRemain.
NoneRunnable(st) == \A t \in Tickets : st[t] \in Terminal \cup {"Stalled"}

-----------------------------------------------------------------------------
(* state.json and the memory of the loop.                                  *)

Unset == -1

\* moveCurrentTicket: the cached budget of the ticket goes with it.
MoveTo(s, t) ==
    IF s.current = t THEN s ELSE [s EXCEPT !.current = t, !.spent = Unset]

\* finalizeTerminalState.
Closed(s) == [s EXCEPT !.active = FALSE, !.current = None, !.spent = Unset]
Deactivated(s) == [s EXCEPT !.active = FALSE]

FreshMemory == [previous |-> None, baselined |-> {}, idle |-> Unset, last |-> None]
NoSpawn == [ticket |-> None, chosen |-> None, working |-> {}, over |-> {},
            pointed |-> FALSE, trace |-> "nothing", claim |-> "none"]

Init ==
    /\ status = [t \in Tickets |-> "Todo"]
    /\ commits = {}
    /\ state = [active |-> FALSE, current |-> None, spent |-> Unset, relaunches |-> 0,
                falseCount |-> 0, falseTicket |-> None,
                zero |-> [t \in Tickets |-> Unset], holds |-> [t \in Tickets |-> 0],
                charges |-> [t \in Tickets |-> 0]]
    /\ memory = FreshMemory
    /\ pc = "down" /\ spawn = NoSpawn /\ verdict = "none"
    /\ retry = [ticket |-> None, activated |-> FALSE, reset |-> {}]
    /\ left \in Bounds

\* The run ends with an exit reason; what the process had in memory is gone.
Leave(reason) ==
    /\ pc' = "down" /\ verdict' = reason
    /\ memory' = FreshMemory /\ spawn' = NoSpawn

\* The next pass of the same run.
Continue == pc' = "head" /\ spawn' = NoSpawn /\ UNCHANGED verdict

\* A first start, auto-resume.sh or an operator: the runner takes ownership of
\* the session whatever state.json says.
Start ==
    /\ pc = "down" /\ left.runs > 0
    /\ left' = [left EXCEPT !.runs = @ - 1]
    /\ state' = [state EXCEPT !.active = TRUE]
    /\ retry' = [retry EXCEPT !.reset = {}]
    /\ pc' = "head" /\ verdict' = "none"
    /\ UNCHANGED <<status, commits, memory, spawn>>

-----------------------------------------------------------------------------
(* The head of a pass.  It reads and writes state.json and the ticket      *)
(* files one after another, and holds no lock over them: the acts of an    *)
(* operator may fall between any two of its actions.                       *)

\* readIterationStartState: the iterations charged to the current ticket.  A
\* cache that is missing is filled from the ticket's tier and counts the last
\* iteration; that of a finished ticket is dropped.
Spent ==
    IF state.current = None \/ Finished(status, state.current) THEN Unset
    ELSE IF state.spent = Unset THEN 1 ELSE state.spent
Normalised == [state EXCEPT !.spent = Spent]
Filled == IF state.spent = Unset THEN {state.current} \ {None} ELSE {}

\* Mutant: a session that is inactive is tried again, like one whose state.json
\* cannot be read.
HeadRetries ==
    /\ pc = "head" /\ ~state.active
    /\ Continue
    /\ UNCHANGED <<status, commits, state, memory, retry, left>>

HeadCancelled ==
    /\ pc = "head" /\ ~state.active
    /\ Leave("cancelled")
    /\ UNCHANGED <<status, commits, state, retry, left>>

\* evaluateIterationCapExit, the cap of the ticket.
HeadCapped ==
    /\ pc = "head" /\ state.active /\ Spent >= TicketCap
    /\ state' = Deactivated(Normalised)
    /\ Leave("iteration_cap_exhausted")
    /\ UNCHANGED <<status, commits, retry, left>>

HeadReads ==
    /\ pc = "head" /\ state.active /\ Spent < TicketCap
    /\ state' = Normalised
    /\ memory' = [memory EXCEPT !.baselined = @ \cup Filled]
    /\ spawn' = [NoSpawn EXCEPT !.ticket = state.current]
    /\ pc' = "choose"
    /\ UNCHANGED <<status, commits, verdict, retry, left>>

\* correctPhantomDoneTickets.
CorrectPhantomDone ==
    [t \in Tickets |-> IF status[t] = "Done" /\ t \notin commits THEN "Todo" ELSE status[t]]

\* Mutant: a current ticket that was failed is taken up again.
ResolveCurrent(st, current) ==
    IF /\ current # None
       /\ ~Held(st, state, current)
       /\ ~Finished(st, current)
    THEN current ELSE NextPending(st, state)

\* resolvePreTicket, of the current ticket that the head has read.
ResolvePreTicket(st, current) ==
    IF /\ current # None
       /\ st[current] # "Stalled"
       /\ ~Held(st, state, current)
       /\ ~Finished(st, current)
    THEN current ELSE NextPending(st, state)

HeadChooses ==
    /\ pc = "choose"
    /\ status' = CorrectPhantomDone
    /\ spawn' = LET chosen == ResolvePreTicket(status', spawn.ticket)
                IN  [spawn EXCEPT !.ticket = chosen, !.chosen = chosen]
    /\ pc' = "point"
    /\ UNCHANGED <<commits, state, memory, verdict, retry, left>>

\* refundRecoveryBudgetOnReset: an operator's reset to Todo clears the ledger of
\* the ticket.
Refunded(t) ==
    IF t # None /\ status[t] = "Todo"
    THEN [state EXCEPT !.charges[t] = 0, !.holds[t] = 0] ELSE state

\* updateMuxLifecycleState, with the number of the iteration: it is charged to a
\* ticket that stays current.
Advanced(s, t) ==
    IF s.current = t /\ s.spent # Unset THEN [s EXCEPT !.spent = @ + 1] ELSE MoveTo(s, t)

HeadPoints ==
    /\ pc = "point"
    /\ state' = Advanced(Refunded(spawn.chosen), spawn.chosen)
    /\ pc' = "survey"
    /\ UNCHANGED <<status, commits, memory, spawn, verdict, retry, left>>

\* reconcileTicketStateDesync reads the status of every ticket, ...
HeadSurveys ==
    /\ pc = "survey"
    /\ spawn' = [spawn EXCEPT
                    !.working = {t \in Tickets : status[t] = "In Progress"},
                    !.over = {t \in Tickets : status[t] \notin {"Todo", "In Progress"}}]
    /\ pc' = "sync"
    /\ UNCHANGED <<status, commits, state, memory, verdict, retry, left>>

\* ... then the pointer, which a ticket in progress wins over; the current ticket
\* wins when none is, unless it is over.
DesyncWinner ==
    LET t == state.current
    IN  IF t \in spawn.working THEN t ELSE IF spawn.working # {} THEN First(spawn.working)
        ELSE IF t \notin spawn.over THEN t ELSE None

\* alreadyInSync, or nothing to bring into line.
InSync == DesyncWinner = None \/ spawn.working = {state.current}

\* applyTicketDesyncWrites.
Synced(winner) ==
    [t \in Tickets |-> IF t = winner /\ t \notin spawn.working THEN "In Progress"
                       ELSE IF t \in spawn.working \ {winner} THEN "Todo" ELSE status[t]]

HeadSyncs ==
    /\ pc = "sync"
    /\ LET settled == [spawn EXCEPT !.working = {}, !.over = {}]
       IN  IF InSync
           THEN status' = status /\ spawn' = settled /\ pc' = "budget"
           ELSE /\ status' = Synced(DesyncWinner)
                /\ spawn' = [settled EXCEPT !.ticket = DesyncWinner]
                /\ pc' = IF DesyncWinner = spawn.chosen THEN "budget" ELSE "stamp"
    /\ UNCHANGED <<commits, state, memory, verdict, retry, left>>

\* The winner becomes the current ticket.
HeadStamps ==
    /\ pc = "stamp"
    /\ state' = MoveTo(state, spawn.ticket)
    /\ spawn' = [spawn EXCEPT !.pointed = FALSE]
    /\ pc' = "budget"
    /\ UNCHANGED <<status, commits, memory, verdict, retry, left>>

\* applyTicketTierBudget.  A ticket this process has not had before starts anew.
Charged ==
    IF state.current = None THEN Unset
    ELSE IF state.spent = Unset \/ state.current \notin memory.baselined THEN 1
    ELSE state.spent

HeadBudgets ==
    /\ pc = "budget"
    /\ state' = [state EXCEPT !.spent = Charged]
    /\ memory' = [memory EXCEPT !.baselined = @ \cup ({state.current} \ {None})]
    /\ pc' = "open"
    /\ UNCHANGED <<status, commits, spawn, verdict, retry, left>>

\* resolveCloserTerminalStep reads state.json once more: the ticket it names now
\* is that of the pass.  seedPreviousTicket.
HeadOpens ==
    /\ pc = "open"
    /\ spawn' = [spawn EXCEPT !.ticket = state.current]
    /\ memory' = [memory EXCEPT !.previous = IF @ = None THEN state.current ELSE @]
    /\ pc' = "roster"
    /\ UNCHANGED <<status, commits, state, verdict, retry, left>>

-----------------------------------------------------------------------------
(* The roster, and the end of a finished session.                          *)

\* applyAllTicketsDoneCompletion, up to its measurement of the last tier.
RosterDone ==
    /\ pc = "roster" /\ Blocking(TRUE) = {}
    /\ pc' = "tier" /\ spawn' = NoSpawn
    /\ UNCHANGED <<status, commits, state, memory, verdict, retry, left>>

\* exitOnFinishedRoster, when the head chose no ticket and all that is left has
\* been failed.
Exhausted == spawn.chosen = None /\ NoneRunnable(status)

RosterExhausted ==
    /\ pc = "roster" /\ Blocking(FALSE) # {} /\ Exhausted
    /\ state' = Deactivated(state)
    /\ Leave("recovery_exhausted")
    /\ UNCHANGED <<status, commits, retry, left>>

\* readPreskipAdvance: a finished ticket is passed without an agent.
Finishes(t) == t # None /\ status[t] \in Terminal

RosterPreskips ==
    /\ pc = "roster" /\ Blocking(FALSE) # {} /\ ~Exhausted /\ Finishes(spawn.ticket)
    /\ state' = MoveTo(state, NextPending(status, state))
    /\ Continue
    /\ UNCHANGED <<status, commits, memory, retry, left>>

RosterSpawns ==
    /\ pc = "roster" /\ Blocking(FALSE) # {} /\ ~Exhausted /\ ~Finishes(spawn.ticket)
    /\ spawn' = [spawn EXCEPT !.chosen = None, !.pointed = FALSE]
    /\ pc' = "work"
    /\ UNCHANGED <<status, commits, state, memory, verdict, retry, left>>

\* Mutant: whoever claims completion is believed.
ScanBelieves(clean) == TRUE

\* finalizeIfTrulyComplete scans the tickets, and writes in a later update.
ScanFinds(clean) == Blocking(clean) = {}

Scanned == ScanFinds(TRUE)
Refused == ~ScanFinds(FALSE)

\* The tier has been measured.  A refusal leaves the session as it is, but the
\* run ends with "success" all the same.
TierRefused ==
    /\ pc = "tier" /\ Refused
    /\ Leave("success")
    /\ UNCHANGED <<status, commits, state, retry, left>>

TierScanned ==
    /\ pc = "tier" /\ Scanned
    /\ pc' = "closing"
    /\ UNCHANGED <<status, commits, state, memory, spawn, verdict, retry, left>>

CloseSession ==
    /\ pc = "closing"
    /\ state' = Closed(state)
    /\ Leave("success")
    /\ UNCHANGED <<status, commits, retry, left>>

-----------------------------------------------------------------------------
(* The agents.  They may commit, write notes, mark a ticket and move the   *)
(* pointer to the current one, in any order and for any ticket; a ticket   *)
(* that is finished, or failed by the runner, they leave alone.            *)

\* A commit, which may be attributed to a ticket.
AgentCommits(t) ==
    /\ commits' = commits \cup ({t} \ {None})
    /\ spawn' = [spawn EXCEPT !.trace = "work"]
    /\ UNCHANGED <<status, state>>

\* An artifact of an early phase: evidence, but no progress.
AgentNotes ==
    /\ spawn.trace = "nothing"
    /\ spawn' = [spawn EXCEPT !.trace = "notes"]
    /\ UNCHANGED <<status, commits, state>>

AgentMarks(t, s) ==
    /\ status[t] \notin Terminal \cup {"Stalled", s}
    /\ status' = [status EXCEPT ![t] = s]
    /\ UNCHANGED <<commits, state, spawn>>

AgentMoves(t) ==
    /\ state.current # t
    /\ state' = MoveTo(state, t)
    /\ UNCHANGED <<status, commits, spawn>>

AgentActs ==
    /\ pc = "work" /\ left.work > 0
    /\ left' = [left EXCEPT !.work = @ - 1]
    /\ \/ \E t \in Tickets \cup {None} : AgentCommits(t)
       \/ AgentNotes
       \/ \E t \in Tickets, s \in {"Done", "In Progress", "Failed"} : AgentMarks(t, s)
       \/ \E t \in Tickets : AgentMoves(t)
    /\ UNCHANGED <<memory, pc, verdict, retry>>

\* Whether it goes on, makes a claim, has nothing to say or has crashed is first
\* looked at when the iteration is closed.
AgentEnds ==
    /\ pc = "work"
    /\ pc' = "settle"
    /\ UNCHANGED <<status, commits, state, memory, spawn, verdict, retry, left>>

-----------------------------------------------------------------------------
(* What the iteration came to, for the ticket it was spawned for.  Each of *)
(* these outcomes but SettleOn starts the next pass at once: the loop has  *)
(* not looked at the change of tickets, nor has the breaker.               *)

Worked == spawn.ticket

\* Mutant: a finished ticket is charged like any other.
NoGuard == FALSE

DoneGuard == Worked # None /\ status[Worked] = "Done" /\ Worked \in commits

\* persistArtifactProgressEntry; only whether the count reaches SkipK matters.
\* The first spawn of a ticket is progress: its source signature is new.
ZeroProgress ==
    IF Worked = None \/ spawn.trace = "work" \/ state.zero[Worked] = Unset THEN 0
    ELSE IF state.zero[Worked] >= SkipK THEN SkipK ELSE state.zero[Worked] + 1

Charge(s, n) == IF Worked = None THEN s ELSE [s EXCEPT !.zero[Worked] = n]

SettleDone ==
    /\ pc = "settle" /\ DoneGuard
    /\ state' = MoveTo(Charge(state, 0), None)
    /\ Continue
    /\ UNCHANGED <<status, commits, memory, retry, left>>

SettleOn ==
    /\ pc = "settle" /\ ~DoneGuard /\ ZeroProgress < SkipK
    /\ state' = Charge(state, ZeroProgress)
    /\ pc' = "turn"
    /\ UNCHANGED <<status, commits, memory, spawn, verdict, retry, left>>

Stuck == pc = "settle" /\ ~DoneGuard /\ ZeroProgress >= SkipK

\* routeWmwRecoveryLadder: a rung commits the ticket and marks it Done, or has
\* its plan executed.  A rung that has succeeded is not tried again.
LadderAdvances ==
    /\ Stuck /\ left.work > 0
    /\ left' = [left EXCEPT !.work = @ - 1]
    /\ \/ /\ status' = [status EXCEPT ![Worked] = "Done"]
          /\ commits' = commits \cup {Worked}
       \/ UNCHANGED <<status, commits>>
    /\ state' = Charge(state, 0)
    /\ Continue
    /\ UNCHANGED <<memory, retry>>

\* markTicketFailed with a reason of no progress, and the pointer cleared.
Flip ==
    /\ status' = [status EXCEPT ![Worked] = "Stalled"]
    /\ state' = MoveTo(Charge(state, ZeroProgress), None)

\* advanceOrExitOnLadderExhaustion.
GiveUp ==
    /\ status' = [status EXCEPT ![Worked] = "Stalled"]
    /\ LET moved == MoveTo(Charge(state, ZeroProgress), None)
       IN  IF NoneRunnable(status')
           THEN state' = Deactivated(moved) /\ Leave("recovery_exhausted")
           ELSE state' = moved /\ Continue /\ UNCHANGED memory

LadderExhausted ==
    /\ Stuck
    /\ GiveUp
    /\ UNCHANGED <<commits, retry, left>>

\* The ladder falls through when no work is there.  An artifact written during
\* the iteration is evidence all the same: the flip is held off, up to a cap.
FallsThrough == Stuck /\ Worked \notin commits

FlipSuppressed ==
    /\ FallsThrough /\ spawn.trace = "notes" /\ state.holds[Worked] < SuppressionCap
    /\ state' = [MoveTo(Charge(state, ZeroProgress), None) EXCEPT !.holds[Worked] = @ + 1]
    /\ Continue
    /\ UNCHANGED <<status, commits, memory, retry, left>>

FlipEscalates ==
    /\ FallsThrough /\ spawn.trace = "notes" /\ state.holds[Worked] >= SuppressionCap
    /\ GiveUp
    /\ UNCHANGED <<commits, retry, left>>

FlipFails ==
    /\ FallsThrough /\ spawn.trace = "nothing"
    /\ Flip
    /\ Continue
    /\ UNCHANGED <<commits, memory, retry, left>>

-----------------------------------------------------------------------------
(* resolveTicketTransition: the ticket the loop remembers is judged when   *)
(* state.json names another one.                                           *)

Previous == memory.previous
Moved == Previous # None /\ state.current # Previous
Attested == Moved /\ status[Previous] = "Done"
Judged == Moved /\ status[Previous] \notin Terminal

\* completeTicketTransition: the loop remembers what state.json names now.
Remembers ==
    /\ memory' = [memory EXCEPT !.previous = state.current]
    /\ pc' = "close"
    /\ UNCHANGED <<commits, state, spawn, verdict, retry>>

\* Nothing to judge, or the verdict is to leave the ticket: it is finished, has
\* no criteria, or its assertions refuse it.
TurnLeaves ==
    /\ pc = "turn"
    /\ Attested => Previous \in commits
    /\ Remembers
    /\ UNCHANGED <<status, left>>

\* A ticket marked Done without its commit is parked, and so is one that the
\* completion guard refuses.
TurnParks ==
    /\ pc = "turn"
    /\ \/ Attested /\ Previous \notin commits /\ UNCHANGED left
       \/ /\ Attested \/ Judged
          /\ Previous \in commits /\ left.work > 0
          /\ left' = [left EXCEPT !.work = @ - 1]
    /\ Continue
    /\ UNCHANGED <<status, commits, state, memory, retry>>

\* Its criteria are unchecked, or no commit refers to it.
TurnSkips ==
    /\ pc = "turn" /\ Judged
    /\ status' = [status EXCEPT ![Previous] = "Skipped"]
    /\ Remembers
    /\ UNCHANGED left

TurnFinishes ==
    /\ pc = "turn" /\ Judged /\ Previous \in commits
    /\ status' = [status EXCEPT ![Previous] = "Done"]
    /\ Remembers
    /\ UNCHANGED left

-----------------------------------------------------------------------------
(* The end of the iteration.                                               *)

\* What an agent that goes on, or has finished, may claim.
Claimed == {"none", "completed", "reviewed"}

\* recordIterationResult, without the tiers of module CircuitBreaker.
Idle(progress) ==
    IF memory.idle = Unset \/ progress \/ memory.last \notin {None, state.current}
    THEN 0 ELSE memory.idle + 1

\* An artifact is progress when it takes the ticket to its next phase.
Progress == IF spawn.trace = "work" THEN {TRUE}
            ELSE IF spawn.trace = "notes" THEN BOOLEAN ELSE {FALSE}

BreakerOpens ==
    /\ pc = "close"
    /\ \E progress \in Progress : Idle(progress) >= BreakerBudget
    /\ state' = Deactivated(state)
    /\ Leave("circuit_open")
    /\ UNCHANGED <<status, commits, retry, left>>

BreakerRecords ==
    /\ pc = "close"
    /\ \E progress \in Progress :
          /\ Idle(progress) < BreakerBudget
          /\ memory' = [memory EXCEPT !.idle = Idle(progress), !.last = state.current]
    /\ \/ Continue
       \/ \E claim \in Claimed \ {"none"} :
             pc' = "claim" /\ spawn' = [spawn EXCEPT !.claim = claim] /\ UNCHANGED verdict
    /\ UNCHANGED <<status, commits, state, retry, left>>

(* The claims of completion: EPIC_COMPLETED, and a clean review.           *)

Claims(claim) == pc = "claim" /\ spawn.claim = claim
Current == state.current
CurrentDone == Current # None /\ status[Current] = "Done"

\* evaluateEpicCompletion.
Genuine(clean) == Blocking(clean) \ {Current} = {} /\ (Current = None \/ CurrentDone)
Committed == Current = None \/ Current \in commits

\* persistFalseEpicRecoveryState.
FalseCount ==
    IF Current # None /\ state.falseTicket = Current THEN state.falseCount + 1 ELSE 1
Persisted(next) ==
    [MoveTo(state, next) EXCEPT !.falseCount = FalseCount, !.falseTicket = Current]

ClaimHallucinated ==
    /\ Claims("completed") /\ ~Genuine(FALSE)
    /\ Current # None /\ FalseCount > FalseEpics
    /\ state' = Deactivated(state)
    /\ Leave("manager_persistent_hallucination")
    /\ UNCHANGED <<status, commits, retry, left>>

ClaimRetries ==
    /\ Claims("completed") /\ ~Genuine(FALSE) /\ ~CurrentDone
    /\ Current # None => FalseCount <= FalseEpics
    /\ state' = Persisted(Current)
    /\ Continue
    /\ UNCHANGED <<status, commits, memory, retry, left>>

ClaimAdvances ==
    /\ Claims("completed") /\ ~Genuine(FALSE) /\ CurrentDone
    /\ FalseCount <= FalseEpics /\ Committed
    /\ state' = Persisted(NextPending(status, state))
    /\ Continue
    /\ UNCHANGED <<status, commits, memory, retry, left>>

\* guardCompletionCommitBeforeDone refuses a current ticket without a commit, or
\* one that its acceptance assertions refuse.
ClaimParks ==
    /\ Claims("completed") /\ CurrentDone
    /\ \/ ~Committed /\ UNCHANGED left
       \/ Committed /\ left.work > 0 /\ left' = [left EXCEPT !.work = @ - 1]
    /\ \/ /\ Genuine(TRUE)
          /\ state' = [state EXCEPT !.falseCount = 0, !.falseTicket = None]
       \/ ~Genuine(FALSE) /\ FalseCount <= FalseEpics /\ UNCHANGED state
    /\ Continue
    /\ UNCHANGED <<status, commits, memory, retry>>

\* The last ticket is Done; then the tickets are scanned again.
ClaimAccepted ==
    /\ Claims("completed") /\ Genuine(TRUE) /\ Committed
    /\ state' = [state EXCEPT !.falseCount = 0, !.falseTicket = None]
    /\ \/ Scanned /\ pc' = "closing" /\ spawn' = NoSpawn /\ UNCHANGED verdict
       \/ Refused /\ Continue
    /\ UNCHANGED <<status, commits, memory, retry, left>>

\* resolveReviewCleanClaim: below min_iterations the claim is of no effect.
ReviewGoesOn ==
    /\ Claims("reviewed")
    /\ Continue
    /\ UNCHANGED <<status, commits, state, memory, retry, left>>

ReviewAccepted ==
    /\ Claims("reviewed") /\ Scanned
    /\ pc' = "closing" /\ spawn' = NoSpawn
    /\ UNCHANGED <<status, commits, state, memory, verdict, retry, left>>

(* The exits of a manager that made no claim.                              *)

Pending == {t \in Tickets : status[t] \notin Terminal}
Exits == pc = "close"

\* handleInactiveIterationResult: the agent was stopped from outside, or ended
\* its turns with nothing left to do.
ManagerLeaves ==
    /\ Exits /\ (Pending = {} \/ ~state.active)
    /\ Leave("cancelled")
    /\ UNCHANGED <<status, commits, state, retry, left>>

\* evaluateManagerRelaunch: the cap.
ManagerWornOut ==
    /\ Exits /\ Pending # {} /\ state.relaunches >= RelaunchCap
    /\ state' = Deactivated(state)
    /\ Leave("idle_stall_unrecoverable")
    /\ UNCHANGED <<status, commits, retry, left>>

\* evaluateBoundedEscape: relaunched over and over without an end to the ticket.
Escapes ==
    Current # None /\ status[Current] = "In Progress" /\ state.charges[Current] >= EscapeCap

MayRelaunch == Exits /\ Pending # {} /\ state.relaunches < RelaunchCap

\* executeBoundedEscape.
ManagerEscapes ==
    /\ MayRelaunch /\ Escapes
    /\ status' = [status EXCEPT ![Current] = "Skipped"]
    /\ Continue
    /\ UNCHANGED <<commits, state, memory, retry, left>>

\* recordBoundedEscapeAttempt, and recordManagerRelaunch: work during the
\* iteration clears the charges of the ticket.
Attempts == IF spawn.trace # "nothing" THEN 0 ELSE state.charges[Current] + 1

ManagerRelaunched ==
    /\ MayRelaunch /\ ~Escapes
    /\ state' = LET counted == [state EXCEPT !.relaunches = @ + 1]
                IN  IF Current = None THEN counted
                    ELSE [counted EXCEPT !.charges[Current] = Attempts]
    /\ Continue
    /\ UNCHANGED <<status, commits, memory, retry, left>>

\* handleErrorIterationResult: an agent that crashed is not relaunched.
ManagerFails ==
    /\ Exits
    /\ state' = Deactivated(state)
    /\ Leave("error")
    /\ UNCHANGED <<status, commits, retry, left>>

\* Mutant: the count is not compared with the cap.
ErrorUncapped ==
    /\ Exits /\ Pending # {} /\ state.relaunches <= RelaunchCap
    /\ state' = [state EXCEPT !.relaunches = @ + 1]
    /\ Continue
    /\ UNCHANGED <<status, commits, memory, retry, left>>

ErrorRelaunched ==
    /\ MayRelaunch
    /\ state' = [state EXCEPT !.relaunches = @ + 1]
    /\ Continue
    /\ UNCHANGED <<status, commits, memory, retry, left>>

-----------------------------------------------------------------------------
(* The operator, and faults.                                               *)

\* retry-ticket, of a ticket that has been taken up: the ticket file first, then
\* the session, then the pointer to the ticket.
RetryReset(t) ==
    /\ left.retries > 0 /\ retry.ticket = None /\ status[t] # "Todo"
    /\ left' = [left EXCEPT !.retries = @ - 1]
    /\ status' = [status EXCEPT ![t] = "Todo"]
    /\ retry' = [ticket |-> t, activated |-> FALSE, reset |-> retry.reset \cup {t}]
    /\ UNCHANGED <<commits, state, memory, pc, spawn, verdict>>

RetryActivates ==
    /\ retry.ticket # None /\ ~retry.activated
    /\ state' = [state EXCEPT !.active = TRUE]
    /\ retry' = [retry EXCEPT !.activated = TRUE]
    /\ UNCHANGED <<status, commits, memory, pc, spawn, verdict, left>>

\* The stages of the head between its write of the pointer and its last read.
Pointing == {"survey", "sync", "budget", "open"}

\* updateState drops the budget cached for the ticket.
RetryPoints ==
    /\ retry.ticket # None /\ retry.activated
    /\ spawn' = [spawn EXCEPT !.pointed = @ \/ pc \in Pointing]
    /\ state' = [state EXCEPT !.current = retry.ticket, !.spent = Unset]
    /\ retry' = [retry EXCEPT !.ticket = None, !.activated = FALSE]
    /\ UNCHANGED <<status, commits, memory, pc, verdict, left>>

Cancel ==
    /\ pc # "down" /\ state.active
    /\ state' = Deactivated(state)
    /\ UNCHANGED <<status, commits, memory, pc, spawn, verdict, retry, left>>

\* The runner dies, and the agent with it.
Kill ==
    /\ pc # "down"
    /\ Leave("killed")
    /\ UNCHANGED <<status, commits, state, retry, left>>

Runner ==
    \/ HeadCancelled \/ HeadCapped \/ HeadReads \/ HeadChooses \/ HeadPoints
    \/ HeadSurveys \/ HeadSyncs \/ HeadStamps \/ HeadBudgets \/ HeadOpens
    \/ RosterDone \/ RosterExhausted \/ RosterPreskips \/ RosterSpawns
    \/ TierRefused \/ TierScanned \/ CloseSession
    \/ SettleDone \/ SettleOn \/ LadderAdvances \/ LadderExhausted
    \/ FlipSuppressed \/ FlipEscalates \/ FlipFails
    \/ TurnLeaves \/ TurnParks \/ TurnSkips \/ TurnFinishes
    \/ BreakerOpens \/ BreakerRecords
    \/ ClaimHallucinated \/ ClaimRetries \/ ClaimAdvances \/ ClaimParks
    \/ ClaimAccepted \/ ReviewGoesOn \/ ReviewAccepted
    \/ ManagerLeaves \/ ManagerWornOut \/ ManagerEscapes \/ ManagerRelaunched
    \/ ManagerFails \/ ErrorRelaunched

Environment ==
    \/ Start \/ AgentActs \/ RetryActivates \/ RetryPoints \/ Cancel \/ Kill
    \/ \E t \in Tickets : RetryReset(t)

Next == Runner \/ AgentEnds \/ Environment

Spec == Init /\ [][Next]_vars

\* The runner goes on by itself, and an agent's time is limited by the hang
\* guard and the worker timeout.
FairSpec == Spec /\ WF_vars(Runner \/ AgentEnds)

-----------------------------------------------------------------------------
(* Properties.                                                             *)

StateFile ==
    [active : BOOLEAN, current : Tickets \cup {None}, spent : {Unset} \cup 1..TicketCap,
     relaunches : 0..RelaunchCap, falseCount : 0..(FalseEpics + 1),
     falseTicket : Tickets \cup {None}, zero : [Tickets -> {Unset} \cup 0..SkipK],
     holds : [Tickets -> 0..SuppressionCap], charges : [Tickets -> Nat]]
Memory ==
    [previous : Tickets \cup {None}, baselined : SUBSET Tickets,
     idle : {Unset} \cup 0..BreakerBudget, last : Tickets \cup {None}]
Spawns ==
    [ticket : Tickets \cup {None}, chosen : Tickets \cup {None},
     working : SUBSET Tickets, over : SUBSET Tickets, pointed : BOOLEAN,
     trace : {"nothing", "notes", "work"}, claim : Claimed]
Stages ==
    {"down", "head", "choose", "point", "survey", "sync", "stamp", "budget", "open",
     "roster", "tier", "work", "settle", "turn", "close", "claim", "closing"}

\* The type of the variables; the counts kept in state.json, which outlive the
\* process, stay within their caps whatever follows what.
TypeOK ==
    /\ status \in [Tickets -> Statuses]
    /\ commits \subseteq Tickets
    /\ state \in StateFile /\ memory \in Memory /\ spawn \in Spawns
    /\ pc \in Stages
    /\ retry \in [ticket : Tickets \cup {None}, activated : BOOLEAN, reset : SUBSET Tickets]
    /\ left \in [work : Nat, retries : Nat, runs : Nat]

\* Work that is finished stays finished: a ticket that is Done with a commit of
\* its own is not marked otherwise by any of the paths that charge, skip, fail
\* or resynchronise tickets, only by an operator who retries it.
DoneStays ==
    [][\A t \in Tickets : status[t] = "Done" /\ t \in commits =>
          status'[t] = "Done" \/ retry'.ticket = t]_vars

\* No agent is spawned for a ticket that is finished, nor for one that the
\* runner has failed, whichever of state.json, the ticket files and the desync
\* rule chose it and whatever an operator did between these reads:
\* findNextPendingTicketId, resolvePreTicket, reconcileTicketStateDesync and the
\* preskip agree.  But when retry-ticket moves the pointer after the head has set
\* it, the runner takes the ticket, be it one failed again since its reset.
SpawnsWorkable ==
    [][pc = "roster" /\ pc' = "work" /\ spawn.ticket # None =>
          /\ status[spawn.ticket] \notin Terminal
          /\ status[spawn.ticket] = "Stalled" => spawn.pointed]_vars

\* A session that is closed with success has no ticket left to do, unless an
\* operator has retried one meanwhile: a claim of completion or of a clean
\* review, and the measurement between two scans, never close it over one.
SuccessIsHonest ==
    [][pc = "closing" /\ pc' = "down" /\ verdict' = "success" =>
          Blocking(TRUE) \subseteq retry.reset]_vars

\* A run ends, whatever the agents claim: every way to go on without an end of
\* the ticket is charged against some bound.
RunEnds == pc # "down" ~> pc = "down"

\* findNextPendingTicketId says of a ticket failed for no progress: "It stays
\* Failed and visible; the operator re-queues by setting `status: Todo`".
NoProgressFailedStays ==
    [][\A t \in Tickets : status[t] = "Stalled" =>
          status'[t] = "Stalled" \/ retry'.ticket = t]_vars
==============================================================================

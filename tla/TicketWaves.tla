----------------------------- MODULE TicketWaves -----------------------------
(***************************************************************************)
(* The waves of bin/pipeline-runner.ts, services/ticket-waves.ts and       *)
(* services/anatomy-lanes.ts: the tickets of a session are built in        *)
(* parallel, each by a unit, which is a session of its own in a worktree   *)
(* and on a branch of its own.  A wave waits for its units, picks the      *)
(* commits of those that are Done onto the working branch, and writes what *)
(* became of each ticket back to the session.                              *)
(*                                                                         *)
(* The lanes of the anatomy phase share the branches, the recovery and the *)
(* integration: there the tickets are the lanes of the roster, each worked *)
(* by a runner of its own, as many at once as the settings allow.          *)
(*                                                                         *)
(* The pipeline runner is one process that may be killed at any time; the  *)
(* unit runners are detached and survive it.  What a unit runner does is   *)
(* module MuxLoop; here a runner commits, leaves a status and ends.        *)
(***************************************************************************)
EXTENDS Integers, Sequences, FiniteSets

CONSTANTS
    NumTickets,      \* the tickets, or lanes, are 1..NumTickets, in roster order
    MaxParallel,     \* max_parallel_tickets, anatomy_max_parallel_lanes
    Sessions         \* the rosters, and what may happen with each: how many
                     \* pipeline runners there are, git commands and writes that
                     \* fail, commits that others add to the working branch, and
                     \* commits on the branch of a unit

Tickets == 1..NumTickets

ASSUME WavesAssumption ==
    /\ NumTickets \in Nat \ {0} /\ MaxParallel \in Nat \ {0, 1}
    /\ \A s \in Sessions :
         /\ s.roster \in [deps : [Tickets -> SUBSET Tickets], over : SUBSET Tickets,
                          clash : SUBSET (SUBSET Tickets), safe : SUBSET Tickets, lanes : BOOLEAN]
         /\ \A t \in Tickets : \A d \in s.roster.deps[t] : d < t
         \* Lanes depend on nothing and declare no files.
         /\ s.roster.lanes => s.roster.clash = {} /\ \A t \in Tickets : s.roster.deps[t] = {}
         /\ s.bounds \in [lives : Nat \ {0}, faults : Nat, foreign : Nat, commits : Nat]

VARIABLES
    roster,    \* the tickets' depends_on, the pairs whose declared files overlap,
               \* those marked parallel_safe, those skipped earlier, and
               \* whether they are lanes
    status,    \* the status of each ticket in the session
    evidence,  \* completion_commit: a position on the working branch, or None
    main,      \* the commits the working branch has gained
    branches,  \* the unit branch of each ticket
    picks,     \* the integration branch
    aside,     \* the branches that recovery has renamed, by their commits
    trees,     \* the tickets whose worktree is there
    owner,     \* the unit runner that the state of each unit names while it is
               \* active: the pipeline's life in which it was spawned, or None
    runners,   \* the unit runners that are alive, each with the life of the
               \* pipeline runner that spawned it
    booted,    \* those that have taken the ownership of their unit
    missed,    \* ghost: all that were alive at a phase entry whose listing could
               \* not have found them
    made,      \* how many commits the units of a ticket have made
    pc,        \* the stage of the pipeline runner
    wave,      \* the wave in progress, and whether the run is cancelled
    requeued,  \* the tickets that have had their second chance
    session,   \* whether the session is active, and the pipeline runner it is in
    left       \* what is left of the bounds

tickets == <<roster, status, evidence>>
repository == <<main, branches, picks, aside, trees>>
processes == <<owner, runners, booted, missed, made>>
vars == <<tickets, repository, processes, pc, wave, requeued, session, left>>

-----------------------------------------------------------------------------
None == 0
NoBranch == [there |-> FALSE, base |-> 0, commits |-> <<>>]
Branch(base, commits) == [there |-> TRUE, base |-> base, commits |-> commits]
Foreign == [ticket |-> None, n |-> 1]
Elements(s) == {s[i] : i \in DOMAIN s}
Least(set) == CHOOSE x \in set : \A y \in set : x <= y

\* isTerminalTicketStatus: a ticket that failed is still pending.
Pending == {t \in Tickets : status[t] \notin {"Done", "Skipped"}}

Over == {"down", "success", "incomplete", "serial"}

NoWave(cancelled) ==
    [members |-> {}, base |-> 0, prior |-> [t \in Tickets |-> "Todo"], ran |-> {},
     ends |-> [t \in Tickets |-> "None"],
     commits |-> [t \in Tickets |-> <<>>],
     outcome |-> [t \in Tickets |-> "not_done"], sha |-> [t \in Tickets |-> None],
     wanted |-> [t \in Tickets |-> "Todo"], left |-> {}, cited |-> FALSE, unread |-> {},
     unwritten |-> {}, live |-> {}, cancelled |-> cancelled]

Init ==
    /\ \E s \in Sessions : roster = s.roster /\ left = s.bounds
    /\ status = [t \in Tickets |-> IF t \in roster.over THEN "Skipped" ELSE "Todo"]
    /\ evidence = [t \in Tickets |-> None]
    /\ main = <<>> /\ branches = [t \in Tickets |-> NoBranch]
    /\ picks = NoBranch /\ aside = {} /\ trees = {}
    /\ owner = [t \in Tickets |-> None]
    /\ runners = {} /\ booted = {} /\ missed = {} /\ made = [t \in Tickets |-> 0]
    /\ pc = "entry" /\ wave = NoWave(FALSE) /\ requeued = {}
    /\ session = [active |-> TRUE, life |-> 1]

\* A git command or a write goes wrong, or does not.
Faulty == left.faults > 0 /\ left' = [left EXCEPT !.faults = @ - 1]
Fine == UNCHANGED left

-----------------------------------------------------------------------------
(* Phase entry: what an earlier pipeline runner has left.                  *)

\* Mutant: nobody is looked for.
NobodyLives == {}

\* liveUnitRunners: a runner is known by the pid it has put into the state of
\* its unit, and only while that state is active.
LiveUnits == {r \in runners : owner[r.ticket] = r.life}

\* deactivateLaneState.
Disowned(set) == [t \in Tickets |-> IF t \in set THEN None ELSE owner[t]]

\* reapPriorUnitRunners, first half: list, deactivate, SIGTERM.
Reap ==
    /\ pc = "entry" /\ ~roster.lanes /\ pc' = "reaping"
    /\ wave' = [NoWave(FALSE) EXCEPT !.live = LiveUnits]
    /\ owner' = Disowned({r.ticket : r \in LiveUnits})
    /\ missed' = missed \cup {r \in runners : owner[r.ticket] # r.life}
    /\ UNCHANGED <<tickets, repository, runners, booted, made, requeued, session, left>>

\* git branch -d succeeds on a unit branch without commits of its own, and on an
\* integration branch that has been merged; a pick is another commit than the
\* one it copies.
Merged(b) ==
    /\ b.base + Len(b.commits) <= Len(main)
    /\ SubSeq(main, b.base + 1, b.base + Len(b.commits)) = b.commits
Unreached ==
    {branches[t].commits : t \in Tickets} \cup (IF Merged(picks) THEN {} ELSE {picks.commits})

\* Mutant: deleted with -D.
Forced == aside

\* recoverLaneBranches: the worktrees go, and every branch that the working
\* branch does not reach is renamed aside.
Kept == aside \cup (Unreached \ {<<>>})
Recover ==
    /\ trees' = {} /\ branches' = [t \in Tickets |-> NoBranch] /\ picks' = NoBranch
    /\ aside' = Kept

\* reapPriorUnitRunners, second half: SIGKILL what is left, then recover.
ReapKill ==
    /\ pc = "reaping" /\ pc' = "head"
    /\ runners' = runners \ wave.live /\ booted' = booted \ wave.live
    /\ wave' = NoWave(FALSE) /\ Recover
    /\ UNCHANGED <<tickets, main, owner, missed, made, requeued, session, left>>

\* runAnatomyLanes: only the branches and worktrees are recovered, no runner is
\* looked for.
EnterLanes ==
    /\ pc = "entry" /\ roster.lanes /\ pc' = "wait"
    /\ wave' = [NoWave(FALSE) EXCEPT !.members = Pending, !.left = Pending, !.base = Len(main)]
    /\ missed' = missed \cup runners /\ Recover
    /\ UNCHANGED <<tickets, main, owner, runners, booted, made, requeued, session, left>>

-----------------------------------------------------------------------------
(* A wave is planned and started.                                          *)

Clash(t, u) == {t, u} \in roster.clash

\* Mutant: the dependencies are left to the order of the tickets.
SafeByMark(t) == t \in roster.safe /\ t \notin requeued

\* pendingWaveCandidates and planPickleWave.
Waits(t) == roster.deps[t] \cap Pending # {}
ParallelSafe(t) == t \in roster.safe /\ ~Waits(t) /\ t \notin requeued

\* Mutant: the cap of the settings is forgotten.
Unlimited(set) ==
    /\ \A t \in set : ParallelSafe(t)
    /\ \A t, u \in set : t # u => ~Clash(t, u)

\* planTicketWave: the longest run of tickets that may be built together.
Together(set) ==
    /\ Cardinality(set) <= MaxParallel
    /\ \A t \in set : ParallelSafe(t)
    /\ \A t, u \in set : t # u => ~Clash(t, u)
PlanTicketWave(pending) ==
    LET runs == {{t \in pending : t <= n} : n \in pending}
        good == {set \in runs : Cardinality(set) = 1 \/ Together(set)}
    IN  CHOOSE set \in good : \A other \in good : other \subseteq set

\* runPickleWaves up to the spawns, with createTicketUnitSession for each
\* member: they are made in one go, and some may fail.  The recovery comes
\* first; before the first wave it finds nothing.
StartWave ==
    /\ pc = "head" /\ pc' = "wait"
    /\ session.active /\ ~wave.cancelled /\ Pending # {}
    /\ \E ran \in SUBSET PlanTicketWave(Pending) :
         /\ IF ran = PlanTicketWave(Pending) THEN Fine ELSE Faulty
         /\ wave' = [NoWave(FALSE) EXCEPT !.members = PlanTicketWave(Pending),
                         !.base = Len(main), !.prior = status, !.ran = ran]
         /\ aside' = Kept /\ picks' = NoBranch /\ trees' = ran
         /\ branches' = [t \in Tickets |->
                            IF t \in ran THEN Branch(Len(main), <<>>) ELSE NoBranch]
         /\ owner' = Disowned(ran)
         /\ runners' = runners \cup [ticket : ran, life : {session.life}]
    /\ UNCHANGED <<tickets, main, booted, missed, made, requeued, session>>

-----------------------------------------------------------------------------
(* The lanes are started one by one, as earlier ones end.                  *)

Running == {t \in wave.ran : wave.ends[t] = "None"}
LaneOf(t) == [ticket |-> t, life |-> session.life]
Taken(t, end) == [wave EXCEPT !.left = @ \ {t}, !.ends[t] = end]

\* A worker takes the next lane: runOneLane.
StartLane ==
    /\ pc = "wait" /\ roster.lanes /\ session.active /\ ~wave.cancelled
    /\ wave.left # {} /\ Cardinality(Running) < MaxParallel
    /\ LET t == Least(wave.left) IN
         \/ /\ wave' = [Taken(t, "None") EXCEPT !.ran = @ \cup {t}] /\ Fine
            /\ branches' = [branches EXCEPT ![t] = Branch(wave.base, <<>>)]
            /\ trees' = trees \cup {t}
            /\ owner' = Disowned({t}) /\ runners' = runners \cup {LaneOf(t)}
         \/ /\ wave' = Taken(t, "lane_no_verdict") /\ Faulty
            /\ UNCHANGED <<branches, trees, owner, runners>>
    /\ UNCHANGED <<tickets, main, picks, aside, booted, missed, made, pc, requeued, session>>

\* After a cancel the lanes that are left are not started.
StopLane ==
    /\ pc = "wait" /\ roster.lanes /\ wave.cancelled /\ wave.left # {}
    /\ wave' = Taken(Least(wave.left), "stopped")
    /\ UNCHANGED <<tickets, repository, processes, pc, requeued, session, left>>

\* readLaneEnd, by the dispositions of the exit reasons of microverse-runner.
LaneEnds(t) ==
    /\ pc = "wait" /\ roster.lanes /\ t \in Running /\ LaneOf(t) \notin runners
    /\ \E end \in {"converged", "stopped", "lane_no_verdict"} :
         wave' = [wave EXCEPT !.ends[t] = end]
    /\ owner' = Disowned({t})
    /\ UNCHANGED <<tickets, repository, runners, booted, missed, made, pc, requeued, session, left>>

-----------------------------------------------------------------------------
(* The unit runners.                                                       *)

\* The start of mux-runner: the unit is active and belongs to this process.
Boot(r) ==
    /\ r \in runners \ booted /\ booted' = booted \cup {r}
    /\ owner' = [owner EXCEPT ![r.ticket] = r.life]
    /\ UNCHANGED <<tickets, repository, runners, missed, made, pc, wave, requeued, session, left>>

\* An agent of the unit commits, as long as there is a worktree to commit in.
Commit(r) ==
    /\ r \in booted /\ r.ticket \in trees
    /\ Len(branches[r.ticket].commits) < left.commits
    /\ made' = [made EXCEPT ![r.ticket] = @ + 1]
    /\ branches' = [branches EXCEPT ![r.ticket] =
           Branch(@.base, Append(@.commits, [ticket |-> r.ticket, n |-> made'[r.ticket]]))]
    /\ UNCHANGED <<tickets, main, picks, aside, trees, owner, runners, booted, missed,
                   pc, wave, requeued, session, left>>

\* The unit runner ends: it has finished, was stopped, or never got anywhere.
UnitEnds(r) ==
    /\ r \in runners
    /\ owner' = Disowned({r.ticket})
    /\ runners' = runners \ {r} /\ booted' = booted \ {r}
    /\ UNCHANGED <<tickets, repository, missed, made, pc, wave, requeued, session, left>>

\* The poll of runPickleWaves finds the session inactive: cancelLaneRun.  A
\* runner that has not installed its handlers dies of the SIGTERM at once.
CancelLaneRun ==
    LET fresh == {r \in runners \ booted : r.life = session.life}
    IN  /\ pc = "wait" /\ ~session.active /\ ~wave.cancelled
        /\ wave' = [wave EXCEPT !.cancelled = TRUE]
        /\ owner' = Disowned(wave.ran)
        /\ runners' = runners \ fresh
        /\ UNCHANGED <<tickets, repository, booted, missed, made, pc, requeued, session, left>>

-----------------------------------------------------------------------------
(* The barrier, the integration and the write-back: runTicketWave.         *)

Statuses == {"Todo", "Done", "Failed", "Skipped"}

\* Every unit runner has exited and has left a status in its copy of the
\* ticket; every lane has ended.  The worktrees go; one may not.
Barrier ==
    /\ pc = "wait" /\ pc' = "pick"
    /\ \A r \in runners : r.life # session.life
    /\ owner' = Disowned(wave.ran)
    /\ IF roster.lanes THEN wave.left = {} /\ Running = {} /\ UNCHANGED wave
       ELSE \E ends \in [wave.ran -> Statuses] :
              wave' = [wave EXCEPT !.ends = [t \in Tickets |->
                          IF t \in wave.ran THEN ends[t] ELSE "None"]]
    /\ \/ trees' = {} /\ Fine
       \/ \E t \in trees : trees' = {t} /\ Faulty
    /\ UNCHANGED <<tickets, main, branches, picks, aside, runners, booted, missed, made,
                   requeued, session>>

Done == {t \in wave.ran : wave.ends[t] = "Done"}

\* laneIntegrates: a lane that stopped short is integrated if it has commits
\* and nobody has cancelled.
Offered ==
    {t \in wave.ran : \/ wave.ends[t] \in {"Done", "converged"}
                      \/ /\ wave.ends[t] = "stopped" /\ ~wave.cancelled
                         /\ branches[t].commits # <<>>}

\* The commits of some members, in the order of the roster.
CommitsOf(commits, set) ==
    LET upTo[n \in 0..NumTickets] ==
            IF n = 0 THEN <<>> ELSE upTo[n - 1] \o (IF n \in set THEN commits[n] ELSE <<>>)
    IN  upTo[NumTickets]

\* integrateLanes: the commits of the members that are offered are read, and
\* each such member is picked, conflicts or is red.  A branch that cannot be
\* read counts as one without commits, which is integrated as it is; or, when
\* that is what a lane that stopped short is offered by, is not offered.
Pick ==
    \E unread \in SUBSET {t \in Offered : branches[t].commits # <<>>} :
    \E withheld \in SUBSET {t \in unread : wave.ends[t] = "stopped"} :
        LET read == [t \in Tickets |->
                        IF t \in Offered \ unread THEN branches[t].commits ELSE <<>>]
            asking == {t \in Tickets : read[t] # <<>>}
        IN  /\ pc = "pick" /\ pc' = "merge"
            /\ IF unread = {} THEN Fine ELSE Faulty
            /\ \E out \in [asking -> {"integrated", "conflict", "integration_red"}] :
                 /\ wave' = [wave EXCEPT !.commits = read, !.unread = unread,
                        !.outcome = [t \in Tickets |->
                            IF t \in asking THEN out[t]
                            ELSE IF t \in Offered \ withheld THEN "integrated" ELSE "not_done"]]
                 /\ picks' = IF asking = {} THEN NoBranch
                             ELSE Branch(wave.base,
                                    CommitsOf(read, {t \in asking : out[t] = "integrated"}))
            /\ UNCHANGED <<tickets, main, branches, aside, trees, processes, requeued, session>>

Carried == {t \in Tickets : wave.outcome[t] = "integrated" /\ wave.commits[t] # <<>>}

\* The working branch moves by merge --ff-only or not at all.
Merge ==
    /\ pc = "merge" /\ pc' = "map"
    /\ \/ /\ Carried = {} \/ Len(main) = wave.base
          /\ main' = main \o picks.commits
          /\ UNCHANGED wave /\ Fine
       \/ /\ Carried # {}
          /\ IF Len(main) = wave.base THEN Faulty ELSE Fine
          /\ wave' = [wave EXCEPT !.outcome = [t \in Tickets |->
                         IF t \in Carried THEN "integration_ff_failed" ELSE @[t]]]
          /\ UNCHANGED main
    /\ UNCHANGED <<tickets, branches, picks, aside, trees, processes, requeued, session>>

\* Mutant: one commit for each member.
ShaPerMember(t) ==
    IF t \in Carried /\ Len(main) - wave.base = Len(CommitsOf(wave.commits, Carried))
    THEN wave.base + Cardinality({u \in Carried : u <= t}) ELSE None

\* integratedShas: the position of the last commit of each member that was
\* carried, if the commits on the working branch are as many as were picked.
IntegratedSha(t) ==
    IF t \in Carried /\ Len(main) - wave.base = Len(CommitsOf(wave.commits, Carried))
    THEN wave.base + Len(CommitsOf(wave.commits, {u \in Carried : u <= t})) ELSE None

Positions == [t \in Tickets |-> IntegratedSha(t)]
Requeues(t) ==
    /\ t \notin requeued /\ t \in Done
    /\ wave.outcome[t] \in {"conflict", "integration_red"}

\* waveStatusOf.
StatusOf(t, sha) ==
    IF sha # None THEN "Done"
    ELSE IF t \in requeued /\ t \in wave.ran /\ wave.ends[t] \in {"Failed", "Skipped"}
         THEN wave.ends[t] ELSE "Todo"

\* Nothing is known of any member when the working branch cannot be read.
Map ==
    \E shas \in {Positions, [t \in Tickets |-> None]} :
        /\ pc = "map" /\ ~roster.lanes /\ pc' = "write"
        /\ IF shas = Positions THEN Fine ELSE Faulty
        /\ wave' = [wave EXCEPT !.sha = shas,
                        !.wanted = [t \in Tickets |-> StatusOf(t, shas[t])],
                        !.left = wave.members]
        /\ requeued' = requeued \cup {t \in wave.members : Requeues(t)}
        /\ UNCHANGED <<tickets, repository, processes, session>>

\* writeBackWave, one member after the other: the evidence, then the status.
\* A status that the ticket already has is not written.
Settled(t) == wave.sha[t] = None /\ wave.prior[t] = wave.wanted[t]
Cites(t) == wave.sha[t] # None /\ ~wave.cited

NextMember(t) == [wave EXCEPT !.left = @ \ {t}, !.cited = FALSE]

WriteBack ==
    /\ pc = "write" /\ wave.left # {}
    /\ LET t == Least(wave.left) IN
         \/ /\ Settled(t) /\ wave' = NextMember(t)
            /\ Fine /\ UNCHANGED <<status, evidence>>
         \/ /\ ~Settled(t) /\ Cites(t)
            /\ evidence' = [evidence EXCEPT ![t] = wave.sha[t]]
            /\ wave' = [wave EXCEPT !.cited = TRUE]
            /\ Fine /\ UNCHANGED status
         \/ /\ ~Settled(t) /\ ~Cites(t)
            /\ status' = [status EXCEPT ![t] = wave.wanted[t]]
            /\ wave' = NextMember(t)
            /\ Fine /\ UNCHANGED evidence
         \/ /\ ~Settled(t) /\ Faulty
            /\ wave' = [NextMember(t) EXCEPT !.unwritten = @ \cup {t}]
            /\ UNCHANGED <<status, evidence>>
    /\ UNCHANGED <<roster, repository, processes, pc, requeued, session>>

\* releaseLaneBranches: the branch of a member that is proven to have landed,
\* or that has no commits, goes unless its worktree is still there.
Landed(t) == wave.sha[t] # None \/ (roster.lanes /\ wave.outcome[t] = "integrated")
Released(t) ==
    /\ t \in wave.members /\ t \notin trees
    /\ \/ branches[t].commits = <<>>
       \/ Landed(t) /\ Elements(branches[t].commits) \subseteq Elements(main)
ReleaseBranches ==
    /\ branches' = [t \in Tickets |-> IF Released(t) THEN NoBranch ELSE branches[t]]
    /\ picks' = IF Merged(picks) THEN NoBranch ELSE picks

\* Mutant: a member that is Done in its unit counts, wherever its commits went.
ProgressOfUnits == Done # {}

\* What counts as progress: a member that was integrated, or one that was
\* written back as failed or skipped and was not so before.
Progress ==
    \/ \E t \in wave.members : wave.sha[t] # None
    \/ \E t \in wave.members \ wave.unwritten :
         wave.wanted[t] \in {"Failed", "Skipped"} /\ wave.prior[t] # wave.wanted[t]

Release ==
    /\ pc = "write" /\ wave.left = {} /\ ReleaseBranches
    /\ pc' = IF Progress \/ wave.cancelled THEN "head" ELSE "serial"
    /\ wave' = NoWave(wave.cancelled)
    /\ UNCHANGED <<tickets, main, aside, trees, processes, requeued, session, left>>

\* Mutant: the lanes' own reasons are all that counts.
AllSay == \A t \in wave.members : wave.ends[t] = "converged"

\* aggregateLaneExitReason: every lane has converged, and has been integrated.
Converged ==
    \A t \in wave.members : wave.ends[t] = "converged" /\ wave.outcome[t] = "integrated"

\* integrateLaneRun and the end of runAnatomyLanes.
Verdict ==
    /\ pc = "map" /\ roster.lanes /\ ReleaseBranches
    /\ pc' = IF Converged THEN "success" ELSE "incomplete"
    /\ wave' = NoWave(FALSE)
    /\ UNCHANGED <<tickets, main, aside, trees, processes, requeued, session, left>>

\* finishPickleWaves, after a cancel or with nothing left to do.
Finish ==
    /\ pc = "head"
    /\ ~session.active \/ wave.cancelled \/ Pending = {}
    /\ pc' = IF Pending = {} THEN "success" ELSE "incomplete"
    /\ UNCHANGED <<tickets, repository, processes, wave, requeued, session, left>>

Pipeline ==
    \/ Reap \/ ReapKill \/ StartWave \/ CancelLaneRun \/ Barrier \/ Pick \/ Merge
    \/ Map \/ WriteBack \/ Release \/ Finish
    \/ EnterLanes \/ StartLane \/ StopLane \/ (\E t \in Tickets : LaneEnds(t)) \/ Verdict

-----------------------------------------------------------------------------
(* The world outside.                                                      *)

\* The operator cancels the session; what happens while nobody looks at it
\* comes before the next look.
Cancel ==
    /\ pc \in {"head", "wait"} /\ session.active /\ session' = [session EXCEPT !.active = FALSE]
    /\ UNCHANGED <<tickets, repository, processes, pc, wave, requeued, left>>

\* The pipeline runner is killed; its unit runners are not.
Crash ==
    /\ pc \notin Over /\ left.lives > 1
    /\ pc' = "down" /\ wave' = NoWave(FALSE) /\ requeued' = {}
    /\ UNCHANGED <<tickets, repository, processes, session, left>>

\* The pipeline is started again and claims its session.
Restart ==
    /\ pc \in Over /\ left.lives > 1 /\ left' = [left EXCEPT !.lives = @ - 1]
    /\ pc' = "entry" /\ wave' = NoWave(FALSE) /\ requeued' = {}
    /\ session' = [session EXCEPT !.active = TRUE, !.life = @ + 1]
    /\ UNCHANGED <<tickets, repository, processes>>

\* Somebody else commits to the working branch.
ForeignCommit ==
    /\ left.foreign > 0 /\ left' = [left EXCEPT !.foreign = @ - 1]
    /\ main' = Append(main, Foreign)
    /\ UNCHANGED <<tickets, branches, picks, aside, trees, processes, pc, wave, requeued, session>>

Next ==
    \/ Pipeline
    \/ \E r \in runners : Boot(r) \/ Commit(r) \/ UnitEnds(r)
    \/ Cancel \/ Crash \/ Restart \/ ForeignCommit

Spec == Init /\ [][Next]_vars

\* The pipeline runner goes on until it is over or killed, and the run of a
\* unit ends, as module MuxLoop shows.
FairSpec == Spec /\ WF_vars(Pipeline) /\ WF_vars(\E r \in runners : UnitEnds(r))

-----------------------------------------------------------------------------
(* Properties.                                                             *)

Commits == [ticket : Tickets, n : Nat \ {0}]

\* Types, and the bound of a wave: no more units at once than the settings allow.
TypeOK ==
    /\ status \in [Tickets -> Statuses]
    /\ evidence \in [Tickets -> 0..Len(main)]
    /\ Elements(main) \subseteq Commits \cup {Foreign}
    /\ \A t \in Tickets : branches[t] \in [there : BOOLEAN, base : 0..Len(main), commits : Seq(Commits)]
    /\ picks \in [there : BOOLEAN, base : 0..Len(main), commits : Seq(Commits)]
    /\ aside \subseteq Seq(Commits) /\ trees \subseteq {t \in Tickets : branches[t].there}
    /\ owner \in [Tickets -> 0..session.life]
    /\ booted \subseteq runners
    /\ runners \cup missed \subseteq [ticket : Tickets, life : 1..session.life]
    /\ pc \in Over \cup {"entry", "reaping", "head", "wait", "pick", "merge", "map", "write"}
    /\ wave.ran \subseteq wave.members
    /\ Cardinality({r \in runners : r.life = session.life}) <= MaxParallel
    /\ requeued \subseteq Tickets /\ session.life \in Nat \ {0}

\* "completion_commit is written before the status flip, so a Done never exists
\* without its evidence": whatever is killed or fails in between, the evidence
\* of a Done is the last of the ticket's own commits on the working branch, not
\* one of a sibling's.
DoneHasItsEvidence ==
    \A t \in Tickets : status[t] = "Done" =>
        /\ evidence[t] # None /\ main[evidence[t]].ticket = t
        /\ \A i \in evidence[t] + 1 .. Len(main) : main[i].ticket # t

\* "The lane BRANCH keeps any committed work": every commit an agent has made
\* is on the working branch, on its unit's branch or on one that was renamed,
\* through kills, conflicts, recoveries and releases.
NoWorkIsLost ==
    \A t \in Tickets : \A n \in 1..made[t] :
        LET c == [ticket |-> t, n |-> n] IN
          \/ c \in Elements(main) \/ c \in Elements(branches[t].commits)
          \/ \E b \in aside : c \in Elements(b)

Related(t, u) ==
    t = u \/ Clash(t, u) \/ t \in roster.deps[u] \/ u \in roster.deps[t]

\* reapPriorUnitRunners: no two runners are at work on the same ticket, on files
\* both declare, or on a ticket and its dependency, not even across a kill of
\* the pipeline runner; except those that a listing could not have found, which
\* had not yet taken their unit, or had been told to stop.
RelatedNeverTogether ==
    \A r, s \in runners : r # s /\ Related(r.ticket, s.ticket) => {r, s} \cap missed # {}

\* pendingWaveCandidates: a unit is built on the work of its dependencies.
BuiltOnDependencies ==
    \A r \in runners : \A d \in roster.deps[r.ticket] :
        /\ status[d] \in {"Done", "Skipped"}
        /\ branches[r.ticket].there => evidence[d] <= branches[r.ticket].base

\* runAnatomyLanes writes "`converged` iff every lane converged": the phase that
\* says so has all the commits of its lanes on the working branch, except those
\* of a lane whose branch could not be read, and what a runner of an earlier life
\* that nobody has looked for has added in a worktree that could not be removed.
ConvergedIsHonest ==
    [][pc = "map" /\ pc' = "success" => \A t \in wave.members \ wave.unread :
          \/ Elements(branches[t].commits) \subseteq Elements(main)
          \/ t \in trees /\ \E r \in missed : r.ticket = t]_vars

\* runPickleWaves: "Every wave integrates a ticket, moves one to Failed/Skipped,
\* or ends parallel mode": the waves come to an end.
WavesEnd == pc = "entry" ~> pc \in Over
==============================================================================

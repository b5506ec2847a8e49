# A TLA+ model of pickle-rick

pickle-rick runs coding agents for hours without anyone watching. A *session* is
a directory with a `state.json`, the tickets of a PRD and the files of one main
loop (`mux-runner`) that spawns an agent, waits for it, looks at what it did and
spawns the next. Around it are hooks, monitors, a pipeline of phases, parallel
lanes and operators' tools, all separate processes that meet in a few files.

This directory holds TLA+ modules of the parts in which those processes can go
wrong together, the TLC configurations that check them, and TLAPS proofs of their
safety for every value of the constants. All paths below are relative to `src/extension/src` unless they
start with `src/`. `PROJECT.json` names the source lines of every definition.

Contents: [1 the system](#1-the-system), [2 the modules](#2-the-modules),
[3 the runs](#3-the-runs), [4 fairness](#4-fairness), [5 the proofs](#5-the-proofs),
[6 deviations](#6-known-deviations), [7 not modelled](#7-what-is-not-modelled),
[8 plan](#8-plan).

To repeat a check: `tlc -config MCLockFile_safe.cfg MCLockFile.tla`; to repeat a
proof: `tlapm LockFileProofs.tla`.

## 1 The system

| component | state it keeps | operations | who it meets | hard behaviour | what makes it correct |
|---|---|---|---|---|---|
| Lock files: `services/state-manager.ts` (225-455, 1264-1340, 1871-1899), `services/retry-lock.ts`, `lib/process-liveness.ts` | `<lock>` and `<lock>.steal`, one file each, naming pid and nonce | acquire by link(2), steal from the dead, release | every writer of `state.json`, of the sessions map, of the convergence gate | several stealers of one dead holder, death anywhere | one holder at a time; no live holder evicted; no crash wedges the lock |
| State store: `StateManager.read/update/forceWrite`, orphan scan | `state.json`, `*.tmp.<pid>` files | locked update; unlocked read with recovery, migration, demotion; forced write | runner, hooks, monitors, setup, signal handlers | read-only commands that write; promotion of dead writers' files | no lost update; never a torn file; only dead owners demoted |
| Transaction: `StateManager.transaction` | several `state.json` files, their locks, backups in memory | lock in order, read, mutate, write one by one, roll back | other transactions, updates, newer releases | a failing second write, a schema that moves | all files or none; no circular wait; nothing left locked |
| Circuit breaker: `services/circuit-breaker.ts`, `bin/circuit-reset.ts` | `circuit_breaker.json` and a copy in memory: circuit, two counters, last HEAD, step, ticket, error | record an iteration, gate the loop, reset | main loop, git, operator | two write paths, budgets that change with the ticket, empty commits | stuck sessions stop, busy ones do not |
| Main loop: `bin/mux-runner.ts` | `state.json`, counters in memory, `rate_limit_wait.json` | head of an iteration, spawn, classify the end, relaunch, park, skip, escape, halt | everything | dozens of `continue`s, each with a bound of its own | every stuck session ends; no work is thrown away |
| Manager relaunch: `services/manager-relaunch.ts` | a counter in `state.json` | decide, record | main loop | the counter is written best effort | relaunches are bounded |
| Completion authority: `state-manager.ts` 1543-1660, `ticket-completion-evidence.ts`, `reconcile-ticket-truth.ts` | ticket frontmatter, commits | scan, decide to graduate, finalize | loop, pipeline, hooks | claims by agents against ground truth, tickets that move meanwhile | finalized only when nothing is pending |
| Pipeline and waves: `bin/pipeline-runner.ts`, `ticket-waves.ts`, `anatomy-lanes.ts` | phases, lane sessions, worktrees, branches | run phase, run wave, integrate, write back, cancel | child runners, git | children that outlive their parent, partial write-back | every wave progresses or falls back to serial |
| Microverse: `bin/microverse-runner.ts`, `microverse-state.ts` | `microverse.json`: score history, stall counter | measure, accept, hold, roll back, converge | git, judge, loop | rollbacks that are refused, failed measurements | ends by target or by stall, and says which |
| Worker spawn and refinement: `bin/spawn-morty.ts`, `bin/spawn-refinement-team.ts` | child processes, timers | spawn, time out, escalate, settle | agents, OS | close, error, SIGTERM, SIGKILL and hang guard race | each worker settles once, always |
| Recovery and salvage: `recovery-controller.ts`, `salvage-ticket.ts` | attempts ledger, archives | ladder of rungs, archive before reset | loop, git | rungs that throw | nothing unarchived is destroyed; each rung once |
| Stop hook: `hooks/handlers/stop-hook.ts` | idle-backoff snapshot in `state.json` | decide whether a turn may end | agent, worker, loop | blocked turns waiting for a worker that died | every block is released |
| Orphan reaper: `services/orphan-reaper.ts` | none; a census by `ps` | census, kill groups | other sessions' workers | pid reuse between census and kill | never kills a live session's worker |
| Jar, retry and ticket operations: `bin/jar-runner.ts`, `bin/retry-ticket.ts`, `transaction-ticket-ops.ts` | queue of sessions, ticket files, reverse ledger | run queue, reset ticket, replay ledger | loop, transaction | several writes that are one operation | whole or not at all |
| Everything else: audits, readiness, scope, git helpers, dashboards, logs, reports, update check, prompts for other models | little or none | text in, text out | the above | mostly in the strings | see section 7 |

How they interact. The lock files guard `state.json`. The store uses the lock
for updates and goes around it for reads; a transaction uses one lock per file.
The loop reads the store at the head of an iteration, the agent it spawns writes
to it through `update-state`, and the loop reads it again when it records the
end. The breaker's counters live twice, in the loop's memory and in
`circuit_breaker.json`. The pipeline runs the loop as a child, cancels it by
writing `active = false`, and learns of its end by its exit code and
`exit_reason`. Hooks run inside the agents and read the same `state.json`.

## 2 The modules

```
 Mutex  (abstract lock) <--- refines --- LockFile <--- LockFileProofs
   ^
   | INSTANCE
 StateStore <--- StateStoreProofs
   ^                ^
   MCStateStoreRoles <--- StateStoreRolesProofs

 Transaction --- refines ---> AtomicCommit (abstract commit)
   ^
   TransactionProofs

 CircuitBreaker <--- CircuitBreakerProofs
   : (abstracted to a count of idle iterations)
 MuxLoop <--- MuxLoopProofs
   : (abstracted to commits, a status and an end)
 TicketWaves <--- TicketWavesProofs
```

`MCLockCallers` composes two instances of LockFile, `MCStateStoreRoles` two
groups of users of StateStore; the other MC modules only give bounds.

StateStore and Transaction do not contain the lock protocol. StateStore instances
the abstract lock `Mutex` that LockFile implements; Transaction, which needs one
lock for each file and a call that fails when a lock is taken, has a variable
`owner` of its own that keeps what Mutex promises: one holder at a time, and a dead
holder's lock goes to whoever tries next. That split is what keeps both small enough
to check, and it carries LockFile's hypotheses with it (section 5).

**Mutex.** The lock as its users see it: an owner, the processes inside, the
dead. Acquire when free, release, die, and removal of a dead owner's lock.

**LockFile.** `link[path]` is what `<lock>` and `<lock>.steal` name: a file
`[owner, nonce]`, or NoFile. `pc` says where each process stands in `acquireLock`,
`withStealRight` or a release; `snap` and `tomb` are the two files it compares;
`held`, `right` the locks it believes it owns; `attempt`, `steals` the budgets.
Each action is one file-system call or one liveness probe: `Acquire`, `Inspect`,
`LinkTombstone`, `Judge`, `Unlink` for both paths, `TakeRight` ... `ReleaseRight`
for the steal right, and the three retry loops of the callers behind the constant
`Caller`. A nonce is a *free* number whenever no file and nobody's variable still
refers to it. `SameLock` compares the whole file; its mutant compares only the
path (a recycled inode), which is the bug the nonce is there for.

**StateStore.** `base` is `state.json`, `tmp[p]` the temporary file process p
has on disk, `mem[p]` the snapshot p has in memory, `todo[p]` the directory
listing it is scanning. A snapshot keeps only what the protocol looks at, and
`done`, the number of mutations of each process it contains, which is how a lost
one is seen. `ReadRaw`, `Salvage`, `Stat`, `List`, `Scan`, `Restat`, `Migrate`,
`Demote` are the recovering read; `Mutate`, `Write`, `Rename` the update; modes
`update`, `read` and `force` choose who takes the lock. A process may die between
any two steps, leaving its temporary file whole or torn; something outside the
program may ruin `state.json` once. `committed` is a ghost: updates whose rename
has happened.

**Transaction** and **AtomicCommit.** `paths[p]` is the list in ascending order, with the
repetitions it came with (a call that names a file twice waits for itself and ends
in a LockError); `mem` holds the snapshots the call mutates, `backup` the originals,
`k` is the position in the list. A file is the set of callers it contains and its
schema version. `Write` may fail, `Check` may refuse, `Rollback` writes back,
`Release` lets go of every lock, and the result is one of the code's outcomes.
Readers without the lock are two steps: `Parse` takes a snapshot of a file into
`parsed`, to migrate it or to demote its session, and `WriteBack` puts all of it back
at any time later, whatever calls have read, written, committed or rolled back in
between. `reverted` is history: the files that such a write has put back to
what they were. AtomicCommit is a set of files that a call changes all together or
not at all; its `Overwrite` says that a file which somebody has written over without
its lock is out of the promise, and it alone: the other files of the same call are
not, nor is a file whose contents the write-back has left as they were.

**CircuitBreaker.** `repo` is HEAD (name and tree) and what is uncommitted,
`state` the step, the ticket and the relaunch count, `cb` the breaker in memory
and `disk` the one in the file. One iteration is `Head`, `Work`, `CountTimeout`,
then `Record` or `Relaunch`. `Record` has both write paths: the locked update
whose mutator records, and the fallback that asks git and records again when the
update throws after its mutator ran. `Answers` are the ways git may answer each time:
*all* it is asked for; the *head*, but not the uncommitted changes or the trees, which
counts as progress and keeps the new HEAD; or *none*, which counts as progress and
leaves an empty HEAD behind, so that the next iteration is a warm-up. `seen`, `same`, `repeated` are ghosts: what really
happened, computed from the repository and not from the breaker. `failed` counts
updates of `state.json` that failed. No ticket's budget exceeds the bound on the
counts (`CountAssumption`), or the bound would stop the session and not the breaker.

**MuxLoop.** The loop of `mux-runner` over its tickets. `status` and `commits` are
the ticket files and the commits that are attributed to a ticket; `state` is
`state.json` with every count that outlives the process (budget of the ticket,
relaunches, false claims, spawns without progress, flips held off, charges of the
bounded escape); `memory` is what dies with the process. `pc` follows the stages
of a pass, and the actions are named for them: `Head...` (the cap of the ticket,
phantom Done correction and choice of the ticket, its write to `state.json`, the
survey of all tickets, the desync repair, its write to `state.json`, the budget, and
the last read, which decides on whom the agent is spawned: eight reads and writes
under no common lock), `Roster...` and `Tier...`
(finished session, preskip, spawn), `AgentActs` and `AgentEnds`, `Settle...`,
`Ladder...` and `Flip...` (the outcomes that `continue` before the breaker sees
them), `Turn...` (the ticket the loop remembers is judged when the pointer has
moved), `Breaker...`, `Claim...` and `Review...`, `Manager...`. The three writes of
`retry-ticket`, a cancel and a kill fall between any two of them. `spawn` holds what
the head has read so far; its field `pointed` is history, whether `retry-ticket` has
moved the pointer between the head's write of it and its last read.

**TicketWaves.** The working branch is the sequence `main` of commits, a unit's
branch a base and a sequence, `aside` what recovery has renamed. `runners` are the
processes of the units, each with the *life* of the pipeline runner that spawned
it; `owner` is what the state file of a unit says while it is active. A wave goes
through `StartWave`, `Barrier`, `Pick`, `Merge`, `Map`, one `WriteBack` for each
write, `Release`; `Reap` and `ReapKill` are the phase entry after a crash. The
lanes of the anatomy phase use the same branches, units and integration
(`EnterLanes`, `StartLane`, `LaneEnds`, `Verdict`). `missed` is a ghost: runners
that some listing of live units should have found and could not; once missed, a
runner stays so. `ConvergedIsHonest` excepts a lane in whose worktree, which could
not be removed, such a runner goes on committing; and a lane of `wave.unread`, whose
branch git could not list when it was to be picked.

Abstractions that matter to a reader. In CircuitBreaker, an agent's work is one
step (the loop waits for it); the breaker's history is its length; the tier budget
is a function of the ticket; error signatures are values; the recovery ladder and
the bounded escape are "the current ticket becomes another one"; the completion of
a session is an iteration whose claim is believed. In MuxLoop the breaker is a
count of idle iterations, agents act a bounded number of times and leave finished
tickets alone, and the text of criteria, trailers and reports is a free choice of
the outcomes it can lead to. In TicketWaves what happens inside a unit is commits,
then a status; a cherry-pick is another commit that `git cherry` recognises as the
one it copies; whether it conflicts, and whether the type check is red, is free.
Sleeps, timestamps and log lines are left out, except the modification times that
decide which of two snapshots is newer.

Definitions whose comment begins with "Mutant" or says that they are a wrong
version (`SameRecycledInode`, `TakeNoRight`, `StaleByAge`, `OlderWins`,
`AsGiven`, `HeadMoved`, `NoGuard`, `ShaPerMember` ...) are plausible mistakes. No specification uses them:
each property was checked to fail when the mistake replaces the definition it
mimics.

## 3 The runs

| run | question | bounds |
|---|---|---|
| `lock_safe` | one holder, one stealer, only the inspected lock is removed, a live holder's lock stays, the protocol is a `Mutex` | 4 processes, 1 retry, 3 free steals, 3 deaths anywhere but inside `withStealRight` |
| `lock_live` | for StateManager's loop and for `withRetryLock`, which steals before its first attempt: the last survivor gets in at its first call, a stranded lock is freed under contention, every call returns | 3 processes of either kind, 2 deaths anywhere |
| `lock_two_deaths` | *violated*: mutual exclusion when deaths may fall inside `withStealRight` | 4 processes, 2 deaths |
| `store_roles` | with updates only: nothing lost, the mutator gets what is in the file, only dead owners are demoted; with unlocked readers and forced writers: never a torn file, nobody loses its temporary file, orphans are reaped | 3 updaters, 2 deaths, 2 iterations, 2 mtimes, a fresh, an idle and an old-schema session; or an updater and a reader that both may force, 1 death; 1 ruined file |
| `store_lost_update` | *violated*: nothing lost, with one updater and one reader | 2 processes, no deaths |
| `tx_atomic` | sorted locks never wait in a circle, every lock is given back, what failed leaves nothing, all files or none | 2 callers, 3 files, lists of two files in either order, overlapping and repeated; 3 mishaps, each a write that fails, a caller that dies or a reader without the lock |
| `tx_refusal` | *violated*: a call that is refused for its schema leaves nothing | 1 caller, 1 reader of a newer release |
| `cb_stops` | stuck sessions and repeated errors are stopped, nothing is stopped early, an open breaker spawns nobody, the audit history survives | 2 tickets of different tiers, 2 trees, 3 commit names, a git that tells all, only the HEAD, or nothing, 1 failing write, restarts and resets |
| `cb_ends` | a stuck session ends, however its iterations end | as above, 1 ticket that may be picked up, 1 relaunch, and a git that always answers |
| `mux_loop` | finished work stays finished, no agent for a ticket that is over (a failed one only when `retry-ticket` moved the pointer behind the head), success only when nothing is left, counts within their caps, every run ends | 2 tickets, small caps; 2 acts of agents, or 2 runners, or an operator's retry, at any of the stages; a cancel and a kill anywhere |
| `mux_failed_stays` | *violated*: a ticket failed for want of progress stays so until an operator resets it | 2 tickets, 2 runners, breaker at 3 |
| `waves` | a Done has its own commit as evidence, no commit is lost, related tickets are never built together, a unit has the work of its dependencies under it, the waves end; lanes that say converged have landed, but for one whose branch cannot be listed | 3 tickets or lanes, 2 at once; or 2 of them with a failing command or write, a commit of somebody else, or a kill and a restart; a cancel anywhere |

Why the bounds suffice. Lock: the dangerous interleaving needs a dead holder,
two stealers and a process that comes in between, so four processes; each death
can be used up as holder, as publisher or as waiter. Three free steals are the code's
own limit, and the proofs hold for every number. Store: a lost update needs two processes, a
promotion a third that died; one mutation each already tells "contained" from
"lost". Iterations and times are only compared, so two values of each give older,
equal and newer. Transaction: a circle needs two lists in opposite order; a
rollback over other people's files, one other caller on a file they share. Three
mishaps let a write, its rollback and a stale write-back go wrong in the same call; more callers
are left to the proofs, which hold for any number. Breaker: the thresholds are the
small tiers of the code; three commit names suffice because the code remembers one
and compares it with the current one (`ShaAssumption`); history capacities of 1 and
2 reach both sides of the cap, which is 1000 in the code.

Loop: each cap of the code is a constant and small, so that every cap is reached
and every path that is charged against one is taken more often than its cap; the
first spawn of a ticket always counts as progress, so with `SkipK` = 1 the second
sterile one fails it; two
tickets are needed for the pointer, the memory of the loop and the desync repair to
disagree. The acts of agents, the operator's retries and the second runner are
bounded by `Bounds`, one of which is raised at a time: together they multiply the
states without a new kind of interference, since each of them already interleaves
with every stage of a pass. Waves: a dependency and a clash need two tickets, a wave
that leaves someone behind a third; each disturbance needs two. A second commit of a
unit tells the position of a member's last commit from the number of members. In
`lock_live` the members of a family are interchangeable, so that a promise to one of
them (`Anyone`, `AnyRetrier`) is a promise to each; in both composed runs one family
is inert from the start, because the two never share a file.

`CHECK_DEADLOCK FALSE` appears where the system really stops: every caller of
Transaction makes one call; MuxLoop is down when its runners are used up, and so is
TicketWaves when its pipeline runner is over and its units have ended.

## 4 Fairness

- LockFile: weak fairness of each process's `Step`, that is of a call in progress
  and of the body. The code is synchronous or awaits timers it has set itself;
  a process that is not killed goes on. Nobody is obliged to call (`Call` and
  `Crash` are not fair).
- StateStore: weak fairness of each process's `Step`: `StateManager` is
  synchronous from the first line of a call to its last. `MixedOrphansAreReaped` assumes
  that somebody keeps listing the directory: an orphan is found by reads or not at
  all.
- CircuitBreaker: weak fairness of `Runner`. The loop is one process, and an agent
  that hangs is killed by the hang guards of `spawn-morty.ts`, so `Work` ends.
  Starting again, resetting and killing are not fair.
- MuxLoop: weak fairness of the runner's stages and of the end of an agent,
  together. The loop waits for nothing else, and an agent's time is limited by the
  hang guard and the timeout of its worker. What agents do, starts, retries, cancels
  and kills are not fair.
- TicketWaves: weak fairness of the pipeline runner, and of the end of *some* unit
  runner while there is one: a unit is a run of `mux-runner`, and `RunEnds` of
  MuxLoop says that it ends. The members of a wave are awaited together, so it does
  not matter in which order they end. Boots, commits, cancels, kills and restarts are
  not fair.
- Transaction and Mutex need none: only safety is claimed.

## 5 The proofs

`LockFileProofs` proves for every set of processes, every retry budget and every
number of crashes:

- `TypeCorrect`: types and budgets, without further hypotheses.
- `Exclusion`, `RightExclusion`, `StealRemovesInspected`, `HolderIsNeverEvicted`,
  `ImplementsMutex`: the safety properties and the refinement, under two named
  hypotheses. `ProofOfDeathOnly` (the caller steals on proof of death, so it is not
  `withRetryLock`, whose age arm takes locks from the living) and `NoDeathInSteal`
  (no process is killed between taking and releasing `<lock>.steal`). Both are
  necessary: section 6 gives the counterexamples.

Mutual exclusion alone is not inductive: nothing in it says that the file at the
lock path is the holder's. `SafetyInv` adds the type invariant; `HolderInv` (the
lock path names the acquisition of the process that is inside); `RightInv` (the
same for `<lock>.steal` and the steal callback, and whoever `<lock>.steal` names is
alive in there, by NoDeathInSteal); `DeadRightInv` (so a process that judged an
earlier `<lock>.steal` dead finds another one when it compares, and never unlinks);
and `VerdictInv`, the heart of it: the snapshot a stealer has judged names a dead
process, and from a comparison that matched to the unlink the lock path holds
exactly that snapshot. It stays there because only a holder of the right removes
the lock of a dead process, and the dead publish nothing. The refinement's step lemma maps a steal's unlink to Mutex's removal, a
successful link to its acquisition, and everything else to a stutter.

`StateStoreProofs` proves for every set of processes, every number of deaths and
calls, and any use of the file, unlocked readers and forced writers included:

- `TypeCorrect`; `TornFilesStayOut`: `state.json` is whole unless something outside
  ruins it (`BaseNeverTorn`); `LiveTmpIsSkipped`: a live writer finds its temporary
  file when it renames it (`WriterFindsItsTmp`);

and while everyone goes through `update()` (hypothesis `OnlyUpdates`, which is what
deviation 2 is about: with one unlocked reader these are false):

- `UpdatesAreNotLost` (`NoLostUpdate`), `MutatorIsUpToDate` (`MutatorSeesBase`) and
  `LivingOwnersAreLeftAlone` (`DemotesOnlyDeadOwners`).

`StateStoreRolesProofs` has the same three for the specification of the run
`store_roles`, whose first group they are about. The invariant has four layers.
`SafeInv`: the list of orphans a scan works on names dead writers only. `HoldInv`:
whoever is past the lock is alone there. `OrphanInv`: a call that has scanned has left
no temporary file but its own. `DataInv`: every snapshot that could become
`state.json`, on disk, in memory or in an orphan, holds all that has been published
and, of the living, nothing else but the mutation on its way; and from `Stat` to the
mutator, memory is what is on disk. The initial states need an assumption: no
snapshot a session starts from claims a mutation (`StoreAssumption`). What the run
checks of both groups (`TypeOK`, `BaseNeverTorn`, `WriterFindsItsTmp`) is proved for
any roles, so for each group.

`TransactionProofs` proves for every set of callers, finite set of files, lists of
any length and any number of failed writes, deaths and readers without the lock that
write back what they have parsed, however late:

- `TypeCorrect`, and `LocksAreReturned`: a call that is over holds no lock
  (`ReturnsUnlocked`);
- `NobodyWaitsInACircle` (`NoCircularWait`): among any callers, the one that waits
  for the last file waits for none of the others;
- `FailureLeavesNothing` (`RolledBack`): no file keeps a change of a call that failed,
  but a file of `reverted`;
- `ImplementsAtomicCommit`: the calls implement AtomicCommit, where a step that puts a
  file into `reverted` is its `Overwrite`, and no other step is.

`reverted` is not a way out for any write-back: a file enters it only when its
contents really change, by a snapshot that was parsed before. Without it both
properties are false, and deviation 24 is why.

`CallsInv` says how far each call is and what it has therefore locked, read and kept;
`LocksInv`, that it has the locks of its place and of no other, so that no two calls
work on a file; `FilesInv`, that its backups are what its files hold but for its own
change (in the files that are not `reverted`, here and in the next); `CleanInv`, whose changes a file can hold at all. In the refinement a call's
files change for AtomicCommit when it leaves its writes or dies, before anybody else
can lock them: until then the mapping shows the backups. A circle is broken by the
member that waits for the last of its files, with the number of files above as the
natural number that must have a least value.

`CircuitBreakerProofs` proves for every set of tickets, budgets, settings and
contents of the repository, with failing writes and a git that may tell all, only
the HEAD, or nothing each time it is asked:

- `TypeCorrect`, with the caps on history, timeouts and relaunches;
- `StuckSessionsAreStopped`: as many unchanged recorded iterations in a row as the
  budget, of all of which git told all, allow no further spawn. An iteration of which
  it does not tell all is progress to the breaker and starts the count again, and so
  does the first one after it told nothing (deviation 25);
- `OpenBreakerStops`: an open breaker lets nobody be spawned;
- `RepeatedErrorsAreStopped` (`ErrorsAreStopped`): the same error at the threshold
  allows no further spawn, whatever progress is made meanwhile;
- `NothingIsStoppedEarly` (`NeverTripsEarly`): the counter never exceeds the unchanged
  iterations by more than the updates of `state.json` that failed. Its hypothesis
  `NoTicket \notin Pickable` keeps a current ticket: deviation 10 is the case without,
  in which picking up a first ticket counts as no change;
- `AuditIsKept` (`AuditNeverShrinks`), while resets wait for the runner to end
  (`PatientOperator`, which is what the tool asks for; deviation 13 is the case
  without).

`StuckIsStopped` speaks of ghosts and `pc = "work"`; its inductive form `IInv` is
`TypeOK` with `BaselineInv` (the breaker's memory of HEAD, step and ticket agrees
with what the last recorded iteration left, unless git has told nothing of it), `CounterInv` (in a clean tree the
breaker has counted at least as often as the world stood still), `BudgetInv` (a
breaker that is not open has counted less than the budget of the ticket it last
recorded) and `GateInv` (a runner at work passed the gate). The three later theorems
add a conjunct each: `ErrorInv` (the breaker's count of the last error is no lower
than the ghost's, and it is open at the threshold), `FreshInv` (the other side of
`CounterInv`: the counter starts anew with a breaker and with uncommitted work, and
a commit's name tells it from the one remembered) and `AuditInv` (the history in memory is no
shorter than the one on disk).

`MuxLoopProofs` proves all the safety of MuxLoop, for any number of tickets, any
caps, and any number of acts of agents, retries, cancels, kills and runners:

- `TypeCorrect`, with the caps of every count that `state.json` keeps;
- `FinishedWorkStays`: a ticket that is Done with a commit is marked otherwise by
  nobody but an operator (`DoneStays`);
- `AgentsGetWork` (`SpawnsWorkable`): no agent is spawned for a ticket that is
  finished, whatever is written between the reads of the head; nor for one that the
  runner has failed, unless `retry-ticket` has moved the pointer between the head's
  write of it and its last read (deviation 26);
- `ClosedWithNothingLeft`: no session is closed with success over a ticket that is
  left to do (`SuccessIsHonest`).

What the last two say of a step was seen some steps before, with room for an
operator in between. `HeadInv` carries what the head has read through its stages:
`CapInv`, that the cap was compared before another iteration is charged; `SurveyInv`,
that a ticket the survey saw in progress still is, or has been reset since, and that
one it saw Todo still is Todo; `ChosenInv`, that the ticket chosen, the pointer and
the winner of the desync repair are not ones the runner has failed, but for a pointer
that an operator has moved. It rests on the desync rule: its
winner was in progress or Todo, and the resolution falls back on
`findNextPendingTicketId`. `ClosingInv` carries over from the scan that what is left
to do, an operator has reset since. The lemma `StuckType` has what `DoneStays` needs of the
flips: a spawn that is charged is not one of a finished ticket, because `DoneGuard`
comes first.

`TicketWavesProofs` proves all the safety of TicketWaves, for any number of tickets,
any dependencies and clashes, any number of units at once and of kills, failures and
commits of others:

- `TypeCorrect`; `DoneIsProven` (`DoneHasItsEvidence`): a Done ticket's evidence is
  the last of its own commits on the working branch;
- `WorkIsKept` (`NoWorkIsLost`): every commit of an agent is on a branch, on the
  working branch, or put aside under a recovery name;
- `NoTwoAtWork` (`RelatedNeverTogether`), across kills of the pipeline runner;
- `DependenciesFirst` (`BuiltOnDependencies`): a unit has the evidence of what it
  depends on under it;
- `ConvergedIsTrue` (`ConvergedIsHonest`): lanes that say converged have landed,
  but for what a runner that was missed adds, and for a lane whose branch git could
  not list (deviation 27).

The invariant `Inv` has six parts. `Shape` is types, and that a branch holds its own
ticket's commits only. `Fleet` says that every runner a listing could have found
belongs to the wave in progress; that the members of a wave have nothing to do with
each other comes from the planning step, and has to be carried along through the
whole of the wave. `Deps` says that the dependencies of who is at work are settled and
that none of them is in the wave. `Work` places the commits of agents at each stage of
integration. `Evidence` relates the picked, merged and mapped sequences: from the
merge to the release the end of the working branch is the concatenation of the
members' commits, so the position that `integratedShas` computes is that of a
member's last commit. `Verdicts` says what "converged" of a lane means at each stage.
`WavesAssumption` has lanes without dependencies and clashes, as `anatomy-lanes.ts`
makes them.

The attempt at this proof changed the model twice. The ghost `missed` was computed
from who is alive, so a runner could stop being missed when its worktree was made
anew and its branch still held what it had written; it now stays. And
`ConvergedIsHonest` named too few exceptions: with three lives of the pipeline runner
TLC found a lane that converges while a runner of the first life adds to its branch.

Induction. The library's induction theorems take a predicate as a parameter, which
the installed provers cannot instantiate. TicketWavesProofs and TransactionProofs
therefore derive what they need from the well-foundedness of strict inclusion on
finite sets that a set of naturals has a least member (`LeastNatural`, `Least`), and
TicketWavesProofs from that `IntervalInduction`, with a set in the place of the
predicate. That is enough for `CommitsOf`, a recursive function of TicketWaves that
concatenates as many sequences as there are tickets.

Only model-checked: all liveness (`EitherSurvivorAcquires`,
`AnyStrandedLockIsFreed`, `EitherCallReturns`, `MixedOrphansAreReaped`,
`StuckSessionEnds`, `RunEnds`, `WavesEnd`), which needs fairness and ENABLED, out of
the prover's reach. Every invariant, action property and refinement that a passing
run checks is the subject of a theorem, under the hypotheses named here; the runs'
constants satisfy them.

## 6 Known deviations

Four are backed by a run that ends in a counterexample.

1. **Two deaths defeat the lock** (`lock_two_deaths`; state-manager.ts:442).
   `withStealRight` reclaims a dead stealer's `<lock>.steal` by comparing a
   tombstone and then unlinking *by name*, with no right of its own held. Two live
   processes that have both judged the dead stealer can both unlink: the second
   removes the first one's fresh `<lock>.steal`, both enter, and both remove the
   lock.
2. **A read can undo an update** (`store_lost_update`; state-manager.ts:1423).
   A read that demotes or migrates writes the whole snapshot it parsed, without the
   lock: whatever an update committed since is gone.
3. **A refused transaction is not rolled back** (`tx_refusal`;
   state-manager.ts:1193). When the schema of the second file has advanced, the
   error is rethrown before the rollback, with the first file already replaced.

4. **A ticket that was failed may be skipped** (`mux_failed_stays`;
   mux-runner.ts:17003). A flip to Failed for want of progress clears
   `current_ticket` and continues before the transition check, so the loop still
   remembers the ticket as the previous one: one spawn on another ticket later it has been "left", is
   judged, and is marked Skipped. `findNextPendingTicketId` says that such a ticket
   "stays Failed and visible" until the operator resets it.

The following come out of the same modules; no run is spent on them.

Lock, store, transaction:

5. The age arm of `retry-lock.ts:46` removes the lock of a live holder, and the
   acquisition that holder or a third process has published since can be the one
   removed, although the comment at :36 has it remove what it inspected. This is
   why the proofs exclude that caller.
6. `releaseLockFile` (state-manager.ts:365) inspects and then unlinks by name; with
   a caller of deviation 5 beside it, the lock in between may belong to someone else.
7. With unlocked readers, a session that a new owner has just claimed can be marked
   inactive by a read that saw the dead one (state-manager.ts:1448): the second
   half of deviation 2.
8. `transaction` checks the schema on disk in one call and writes in another
   (state-manager.ts:1188): a newer release's migration in between is overwritten
   by the older schema.
24. Migrations and demotions of a reader without the lock (state-manager.ts:1096-1127,
   1423-1448) meet `transaction` as they meet `update`: a snapshot that was parsed
   while a call was writing, and is written back after its rollback, brings back what
   was rolled back; one that was parsed before a call commits takes the change out of
   one of its files. This is deviation 2 for several files. Without `reverted`, TLC
   violates `RolledBack` and `CommitsAtomically`.

Circuit breaker:

9. A dirty tree counts as progress for ever (circuit-breaker.ts:296), so a session
   stuck with uncommitted changes is stopped by the iteration and time limits only;
   `src/internals.md:85` describes progress as change.
10. The first pickup of a ticket, from no ticket to one, is no progress
   (circuit-breaker.ts:230).
11. When `sm.update` fails after its mutator has run, one iteration is counted twice
    (mux-runner.ts:14593). `NeverTripsEarly` states the consequence exactly: a
    failed update brings the end one iteration nearer, no more.
12. The budget of the ticket's tier replaces the configured no-progress threshold
    (mux-runner.ts:9205), which `src/internals.md:110` and `:938` present as the
    setting that rules.
13. `circuit-reset` beside a live runner is overwritten at the next record
    (circuit-breaker.ts:488, circuit-reset.ts:49). With `PatientOperator = FALSE`
    TLC shows the audit entry disappear.
25. When git does not answer, `detectProgress` returns an empty HEAD
    (circuit-breaker.ts:233-240), which the runner stores (mux-runner.ts:14585, :14614):
    this iteration and the next, a warm-up, both count as progress, so one failure
    costs the count of a stuck session twice, and a git that fails at every
    second iteration keeps it from ever being stopped by the breaker.

Main loop:

14. A ticket whose flip was held off can be taken up again at once: the desync
    repair (mux-runner.ts:1694) makes the ticket that is still In Progress the
    current one, although the comment at :15900 has the next iteration select past
    the held ticket. The cap on held flips bounds the repetition.
15. The cap of a ticket is compared (mux-runner.ts:13746) before
    `applyTicketTierBudget` re-baselines what the previous process has charged, so a
    resumed session may stop at its first pass; the comment at :2607 and
    `tests/b-pxbo-ws3b-ws1-crash-resume.test.js:8` have the ticket start anew.
16. When the measurement of the last tier finds the roster changed, the session is
    not finalized, but the run still ends with `success` over an active session
    (mux-runner.ts:3020; the caller's comment at :17087 reads otherwise).
17. The count of spawns without progress is not among the budgets that are refunded
    when an operator resets a ticket (mux-runner.ts:11285, :13848), nor is the source
    signature it goes with: only the very first spawn of a ticket counts as progress for
    being the first, so the first sterile spawn of the retried ticket fails it again.
18. The bounded escape is decided before the progress of the iteration is credited
    (mux-runner.ts:8745), and a refused advance does not count the false claim that
    asked for it: a gate that refuses the same ticket without a pointer to it is
    bounded by the global iteration cap only, which is why MuxLoop bounds refusals.
26. The head of a pass reads and writes `state.json` and the ticket files one after
    another (mux-runner.ts:15996-16028), and takes the ticket of the pass from its
    last read (:16078). When `retry-ticket` has reset a ticket that the runner then
    fails once more, and its write of `current_ticket` falls behind the head's own
    (:16021), an agent is spawned for the failed ticket; when it falls before,
    it is overwritten, and the retried ticket waits for its turn. Without `pointed`,
    TLC violates `SpawnsWorkable`.

Waves and lanes:

19. A unit runner that was spawned, and has not yet put its pid into the state of its
    unit when the pipeline runner is killed, is not found by `liveUnitRunners`
    (pipeline-runner.ts:3017), nor is one whose unit is deactivated and that is not
    dead yet, although the comment at :3080 has a crashed run's units stopped before
    the branches are recovered. It goes on in a worktree that is taken away, and in
    the new one that is made at the same path. Without the exemption of `missed`, TLC
    violates `RelatedNeverTogether`.
20. The lanes of the anatomy phase are not looked for at all after a crash
    (pipeline-runner.ts:2434 recovers branches only): every surviving lane runner is
    such a runner.
21. `reapCancelledLanes` (pipeline-runner.ts:2406) sends its SIGKILL two seconds after
    the cancel "to every lane group", but is called after all of them have settled.
22. A member that was integrated counts as progress even when its write-back failed
    (pipeline-runner.ts:3003 corrects this for Failed and Skipped only): the next wave
    builds it again on top of its own commits. `WavesEnd` holds because writes fail
    finitely often.
23. A Failed ticket stays pending in the wave phase (pipeline-runner.ts:2775), so it is
    built again until a wave brings no progress and the serial loop takes over.
27. A branch that git cannot list has no commits for the integration
    (anatomy-lanes.ts:369): its lane stays `integrated` with nothing carried (:440), and
    a lane that converged lets the phase say `converged` while its commits are on its
    own branch only. They are not lost: the branch is kept. Without `unread`, TLC
    violates `ConvergedIsHonest`. A member of a wave comes out as `unmapped` and is
    built again.

## 7 What is not modelled

Within the modelled components: faults of the disk other than "exists" and "does
not exist" in LockFile; pid reuse everywhere; the fallback seeds of
`safeDeactivate` and `finalizeTerminalState`; the activity ring.

In the main loop: rate-limit parks and their resumption, worker timeouts, breaker
grace and the increments that a limit suppresses, silent deaths and their salvage,
the codex path, the closer step, the handoff exception of a manager, automatic
splits of a ticket, the global iteration and time limits, `setup --resume`, the
watchdogs for stalled agents, agents that outlive the runner, and the archive that a
retry makes; and a source-signature probe that fails, for the tree is taken to be
readable. They end a run or leave the tickets alone; none of them is needed for
`RunEnds`, which holds without the global limits. Of the writes that the code makes
best effort, MuxLoop lets all succeed; failing writes are in CircuitBreaker,
StateStore and Transaction.

In waves and lanes: the discovery of lanes, the copies of a unit's artifacts and of
`node_modules`, the expiry of branches after 14 days, a rename, a `branch -d`, a `git cherry` or a
`for-each-ref` that fails during release or recovery (the branch is then kept, or left
to the next recovery), a heartbeat that kills a wedged unit, the work of the serial fallback,
shutdown signals (a kill is harder), operators who edit tickets during a wave.

Components without a module, with the reason for each, are listed in
`PROJECT.json`. In short: text processing (audits, scope, readiness, graph
builder, command guards) has its difficulty in strings and is better served by
tests; dashboards and logs keep no state that anything depends on; outside
services are input and output. The rest is planned.

## 8 Plan

The order is that of the damage a fault would do.

1. *Done*: LockFile, StateStore, Transaction, CircuitBreaker with their abstract
   specifications, MuxLoop, TicketWaves, and the proofs of section 5.
2. **Pipeline** above TicketWaves: phases, the two updates of a phase change
   (pipeline-runner.ts:2020), resumption, cancel. Property: a session is never of
   neither phase for longer than a crash.
3. **Park**: the rate-limit wait of the main loop, cleared early, cancelled, or
   resumed after a crash; the parked time is added to the epoch once.
4. **Completion**: `graduationDecision` as an operator checked against its table
   of cases, beside the scan and write that MuxLoop has.
5. **Microverse**: accept, hold, regress, refused rollback; ends by target or
   stall and names the right one.
6. **WorkerSettlement**: timers, signals, close and hang guard racing for one
   latch; refinement team on top. Properties: settles exactly once, and always.
7. **StopHook** with worker and runner; **OrphanReaper** with pid reuse; the reverse
   ledger beside Transaction.
8. **TarjanSCC** as a recursive definition against reachability, in a module of
   its own without theorems.
9. Proofs: all the safety that the runs check is proved. Left are weaker hypotheses:
   exclusion with one death inside the steal, `NeverTripsEarly` with the first pickup
   of a ticket counted (one iteration per pickup), the store with unlocked readers
   that never demote; and the composition of LockFile's `ImplementsMutex` with the
   theorems of the store, which uses Mutex, and of the transaction, whose locks keep
   what Mutex promises.

Modules that theorems will be about use no RECURSIVE operators; each has its
constants' assumptions named, one action per operation and invariants that are
conjunctions of named parts.

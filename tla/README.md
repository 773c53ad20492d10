# Tpa-cowork's agent core, in TLA+

This directory specifies, model-checks and partly proves the concurrent core of
the Rust crate `crates/ha-core`: how a tool call leaves its chat turn, runs as a
background job and brings its result back; how sub-agents are spawned, parked,
cancelled and reported; how messages queue for the turns of a session; and how
scheduled jobs are claimed and run. Paths below are relative to `src/` of the
repository; `aj/` stands for `crates/ha-core/src/async_jobs/`, `sub/` for
`crates/ha-core/src/subagent/`, and other paths without a crate for
`crates/ha-core/src/`.

## 1. The system and its components

Tpa-cowork is an agent application. A session is a conversation with an agent;
a turn runs the model and its tools. The desktop shell (`src-tauri`), the HTTP
server (`crates/ha-server`) and the command line run the same core, several
processes sharing SQLite files in one home directory. The first process up
takes `runtime.lock` and is the Primary; the others are Secondaries.

| component | state | operations | who it talks to |
|---|---|---|---|
| Job rows, `aj/db.rs`, `types.rs` | table `background_jobs`: status, injected, cancel_requested | guarded UPDATEs | every process |
| Slot manager, `aj/slots.rs` | counts per process and session, wait queue | try_reserve, reserve_forced, release (drop), enqueue, try_take_next, remove_queued | spawner, scheduler, cancel, purge |
| Spawn, scheduler, runner, `aj/spawn.rs` | threads, tokens (`cancel.rs`), `SCHED_NOTIFY` | spawn, promote, run, finalize | slots, rows, injection, hooks |
| Auto-background, `aj/spawn.rs` | `Phase` behind a mutex, a Notify | race a call against its budget, hand it over | rows, tokens, slots |
| Approval bridge, `aj/approval_bridge.rs` | parked requests | park, resume, dismiss | runner, cancel |
| Cancel, purge, replay, `aj/mod.rs` | none of their own | cancel_job, purge_jobs_for_session, replay_pending_jobs | all of the above |
| Delivery of results, `aj/injection.rs` | merge windows, timers, dispatch claims | enqueue, flush, dispatch, mark_injected | parent injection |
| Parent injection, `sub/injection.rs`, `helpers.rs`, `mailbox.rs` | active chats, injecting sessions, cancel flags, pending injections, fetched runs | inject_and_run_parent, flush, chat guards, mark_run_fetched | chat engine |
| Wait registry, `aj/wait.rs` | map from job to Notify | register, wait, notify, clean up | job_status tool, wait_for_terminal |
| Groups, `aj/manager.rs` | group rows, sealed flag | seal, claim completion, cancel | sub-agents |
| Sub-agents, `sub/spawn.rs`, `queue.rs`, `cancel.rs` | `subagent_runs`, their projections in `background_jobs`, wait queue, cancel flags | spawn, park, promote, cancel, kill_all, restart | session db, jobs, groups |
| Turn queue, `session/turn_queue.rs`, `turns.rs` | `queued_turn_user_messages`, `chat_turns`, the request id in `messages` | enqueue, edit, claim, bind, consume, fall back, reset | chat engine, shells |
| Chat engine, `chat_engine/`, `agent/streaming_loop.rs` | active turn per session, cancel flags, stop watchdogs | start, drain at tool boundaries, finish, stop | turn queue |
| Cron, `cron/` | `cron_jobs` (status, next_run_at, running_at), `cron_run_logs`, cancel registry | tick, claim, run, back off, cancel, reap, recover | sessions |
| Wakeups, `wakeup/` | rows, timers, delivering set | schedule, fire, replay, purge | parent injection |
| Failover, workflow, goal, loop, team, memory, knowledge, plan, tools, MCP, hooks, channels, updater, guardian, user interface | their own tables | | |

What makes it hard: nearly every step of one actor (spawning turn, scheduler,
runner thread, watcher, cancel call, purge, replay, chat, injection, timer) can
fall between two steps of another; the database is shared between processes and
survives them, while tokens, queues, slots, windows and claims do not; processes
crash. The list of hazards, each at its line with the properties that cover it,
is in `PROJECT.json`. For each component, what makes it correct:

- rows: settle once, never go back, are closed only after they settled;
- slots: counted exactly, caps respected, order of a session kept, no lost wake-up;
- jobs: every active row has somebody who will settle it; a cancel is final and
  reaches the runner; every result is announced once and never forgotten;
- handover: the result of a call goes to exactly one of caller and job;
- delivery: a result is in one window or one dispatch at a time, told in a turn
  of its session, closed only after that, told again only after a restart;
- injection: one at a time per session, yielding to chats, never stranded,
  never answered twice or after it was read;
- waits: a call returns though its notification may be lost, and no other call's
  return takes its handle away;
- sub-agents and groups: a result is told once, alone or in the complete report
  of its batch; a killed parked run never runs, a cancelled batch stays silent,
  and no parked run is forgotten;
- turn queue: a message reaches a model at most once and is never lost; a row
  taken for a turn comes back if the turn does not use it; one turn at a time;
- cron: one turn per job, a one-shot job fires once, a cancel hits the run it
  named, logs tell the truth, only the user revives a job.

## 2. Modules

| module | models | of |
|---|---|---|
| `JobRows` | one row and the guarded statements on it, as functions from row to row | `aj/db.rs`, `types.rs` |
| `JobSlots` | the pool of one process, each function of the mutex-protected manager as one operator | `aj/slots.rs` |
| `JobLifecycle` | abstract: what the table promises of each job | the statements of `aj/db.rs` |
| `BackgroundJobs` | the composition: rows, pools, threads, schedulers, cancel calls, purges, replays, crashes | `aj/spawn.rs`, `mod.rs`, `approval_bridge.rs`, `cancel.rs`, `runtime_lock.rs` |
| `AutoBackground` | the handover of a call to a job, step by step | `dispatch_with_auto_background` |
| `DetachedJobs` | abstract: a call becomes a job in one step | what the rest of `aj/` relies on |
| `Deliveries` | abstract: what the parent session is promised of each result | `aj/injection.rs`, `docs/architecture/background-jobs.md` |
| `Completions` | merge windows, dispatches, claims, the replay, a crash | `aj/injection.rs`, `aj/mod.rs` |
| `ParentInjection` | the injection of results into parent sessions | `sub/injection.rs`, `helpers.rs`, `mailbox.rs` |
| `WaitRegistry` | blocking waits for the end of a job | `aj/wait.rs`, `tools/job_status.rs`, `aj/manager.rs` |
| `SubagentRuns` | runs, their projections, the wait queue, a batch and its group, every kind of cancel | `sub/`, `aj/manager.rs`, `tools/subagent.rs`, `session/subagent_db.rs` |
| `TurnQueue` | queued messages and the turns of one session | `session/`, `chat_engine/`, `agent/streaming_loop.rs` |
| `Cron` | scheduled jobs and their runs | `cron/` |
| `MC...` | small instances | |
| `SeqFilter` | the rows of a queue that a condition selects, in order | `SELECT`, `DELETE`, `Vec::retain` as the modules above use them |
| `BackgroundJobsProofs`, `AutoBackgroundProofs`, `CompletionsProofs`, `ParentInjectionProofs`, `SubagentRunsProofs`, `TurnQueueProofs`, `CronProofs`, `SeqFilterProofs` | lemmas and theorems; those on `WaitRegistry` are in `AutoBackgroundProofs`, about its instance `Waits` | |

`BackgroundJobs` extends `JobSlots` and `JobRows`, and instantiates
`JobLifecycle` as the specification it implements. In it the handover of a
detached call is the single action `Detach`, followed by the steps of its runner;
`DetachedJobs` states that promise by itself and `AutoBackground` implements it
with two threads. The delivery pipeline of process `p` is the set `handed[p]`, which `Completions`
details; `Completions` instantiates `Deliveries`. What a dispatch of
`Completions` does in the session is in turn `ParentInjection`: its `Turn`,
`CloseUntold`, `Defer` and `Abandon` are the ways an injection ends there.
`SubagentRuns` ends where it reports a run or a batch to the same injection.
Operators named `...Blindly`, `...Leaks`, `...GoesOn` and the like, each
preceded by "As X ...", are wrong variants of the definition that follows;
nothing uses them except the checks that a property notices the difference.

### Correspondence, BackgroundJobs

`pc[j]` is where the job's own thread of control is: `insert`, `enqueue`
(between the calls of `spawn_explicit_job_with_id`), `queued` (in the queue of
`home[j]`), `taken` (between `try_take_next` and `mark_running` in the
scheduler), `start` (a runner thread, no runtime yet), `run`, `parked`,
`dismissed` (dispatching; waiting for an approval; its dialog taken down),
`settle` and `wrapup` (the halves of `finalize_job`), `exit` (before the
reservation drops), `unqueued` (pulled from the queue by a cancel call),
`done`, `dropped` (its PreparedJob was dropped by the scheduler or a purge) and
`gone` (its process died). `slot[j]` is the `SlotReservation` it holds,
`registered[j]` its token in the registry of its process, `tripped[j]` whether
that token is cancelled. `canc[j]` is a call of `cancel_job` between two of its
statements.

What is merged into one step, because nobody can look between or because
nothing that can be seen between matters to a property: queueing and
`notify_one`; in `CancelUnqueue`, taking the job from the queue, tripping its
token and removing it; the three deletions of a purge; token, events, hook and
hand-over at the end of `finalize_job`. `registered` stands also for the ring
of the output tail, created and removed at the same places. The 5 s tick of the
scheduler is the disjunct of `WakeScheduler` without a permit; over an empty
queue it does nothing and is left out.

Jobs that the scheduler drops (`dropped`) keep their token in
`CANCELS` for the life of the process: this is what the code does, and
`NothingLeaks` speaks of `done` jobs only.

### Correspondence, ParentInjection

`pc[i]` follows `inject_and_run_parent` statement group by statement group;
`cancels`, `injecting`, `pending`, `fetched` are the process-wide maps; `tail[s]`
is the thread that ended its attempt in `s` and is dropping its guards;
`flushes[s]` counts calls of `flush_pending_injections` about to run.
The drain of the queue and the look at the fetched set are one step. Two
mailbox functions (steering messages) are not modelled. A task dropped by a
flush is `lost` from the pipeline of this process; for tool jobs the row stays
un-injected and the replay of the next Primary finds it.

### Correspondence, AutoBackground

`awaiter` is the caller, `worker` the thread. Between `register` and `slot` the
caller holds the phase lock, so nobody else looks at or changes the phase
(`Locked`); the row, the token and cancel calls are not under that lock.
Cancel calls come from this process or from another one, which has no token and
forces the row. Its last two statements on the row, the forced settlement and
`mark_injected`, are two steps (`CancelSettle`, `CancelAnnounce`).
Polling of the cross-process flag by the detached worker is in `BackgroundJobs`
(`PollCancelFlag`).

The refinement mapping to `DetachedJobs` shows the rows as they are. A job's
token, registered just before its row, and its place in the pool, taken just
after, appear with the row: the caller holds the phase lock from the first to the
last, so the worker, which alone would miss one of them, cannot act on the job
meanwhile (`Token`, `Counted` in the proofs). From then on the worker is the
runner, with what it has yet to do (`Runner`).

### Correspondence, Completions and Deliveries

`settling` are the ended jobs whose `finalize_job` has not enqueued them yet,
`buffer[s]` is the merge window of a session (open when it is not empty),
`timers[s]` its timer threads, `dispatching` the claim set. `attempt[a]` is a
dispatch thread, named by what started it (`live` or `replay`) and its first
job; its `pc` follows the single dispatch (`single`, `running`, `deferred`,
`marking`) or the merged one (`batch`, `claim`, then the same). A job that
another dispatch holds is left to it (`ClaimSingle`, `ClaimBatch`), as in the
code. `replay` and `listed` are `replay_pending_jobs`; a crash turns active rows
into `left` ones and forgets everything but the tables.

The refinement mapping sends a row and its history to `working`, `owed`, `told`
or `closed` (`Result`), the live sessions to `present`, and what the replay
listed and has not told twice to `again` (`Again`). `Settle` is `Owe`, `Turn` is
`Tell`, `MarkInjected` is `Close` (or nothing, when the UPDATE fails),
`PurgeSession` is `Burn`, `DeleteSession` `Leave`, `Crash` `Restart`,
`ReplayInterrupt` `Interrupt`, `ReplayList` `Relist`; windows, claims and
deferrals are steps the promise does not see. `Deliveries` states the promise
the code keeps: "once, unless a restart came between" is weakened by `again`,
see section 5.

### Correspondence, WaitRegistry

`registry[j]` is the handle in the map, `hold[w]` the `Arc` a call holds; a
handle is named by the call that created it, so its strong count is the number
of its holders and one for the map. `waiter[w]` follows a call: `register`,
`recheck` (the load after registering), `park` (before the first poll of
`notified()`), `parked`, `reload`, `cleanup` and `drop` (the body of
`WaiterGuard::drop` and the field dropped after it, without the lock).
`telling` are the settlers between their commit and `notify_waiters`, which
leaves no permit.

### Correspondence, SubagentRuns

`row` is `subagent_runs.status`, `proj` the projection in `background_jobs`,
`grouped` the projections that carry the group id, `grp` the group row. `pc[r]`
is first the thread that spawns the run (`insert`, or `insertParked` and `park`
when the count said that the session is full) and then its task (`launch`,
`exec`, `checking`). The count and the insertion are separate steps, as in
`spawn_subagent`. `sched` is the scheduler: free slots counted in one step,
entries taken and promoted in others, the promotion a guarded UPDATE that may
lose. A cancel call goes `mark`, `purge`, `next`, `claim`, `signal`, `stamp`:
`job` cancels a projection, `group` a batch, `kill` a run, `kill_all` all runs of
the session. `check[t]` is `try_complete_group` between its load and its claim.
A restart empties the memory and runs the startup sweeps.

### Correspondence, TurnQueue

`queue`, `st`, `owner` are the rows of `queued_turn_user_messages`; `persisted`
are the request ids in `messages`, the commit marker that recovery goes by.
`pc[t]` is the chat command (`acquire` ... `release`), then the engine
(`engine`, `tools`, `insert`, `hook`, `consumeInserted`), then its end (`clear`,
`fallback`, `drop`). `reg` is the session's entry in the active-turn registry
with its insertion gate. `held[t]` are the rows an engine claimed at a tool
boundary and the turn they were claimed for, which the code looks up in the
registry: it may be a later one. `watch[t]` is the watchdog of a stopped turn.
Both shells ignore the error of the writes that give a row back or drop it
(`routes/chat.rs:872`, `911`, the reconciliation, `turn_injection.rs:89`), so in
`ReleaseDispatch`, `BlockPrompt`, `Reconcile` and `FallBack` the write may fail
(`GiveBackFails`) and the turn goes on as if it had not; and an error of
`update_session_workflow_mode` (`routes/chat.rs:855`, `commands/chat.rs:665`)
returns from the command between the claim and the acquisition
(`FailWorkflowMode`). `abandoned` records these turns, and those whose client
left while a row was being dispatched.
A restart is the sweep of running turns and the reset of rows in flight.

### Correspondence, Cron

`running[j]` is `running_at`; being the time of the claim it names a run, and
runs are numbered in claim order. `next` abstracts `next_run_at` to null, in the
future, due, or later than the grace. `run[r].todo` are the database calls the
end of a run still has to make, in the order of `executor.rs`; `live` and
`pending` are `CANCELS` and `PENDING_CANCELS`; `flagged` are the set flags. The
scheduler thread goes `orphans`, `unmark` (startup), then `reap`, `list`,
`count`, `claim` for each tick. A cancel or delete call reads the marker in one
step (`Ask`) and reaches the registry in another. `SlowDelivery` are the jobs
whose delivery may take longer than their period: `Delivered(j)` is the guard of
a new claim for all others.

## 3. Runs

Every run uses its own `.cfg`. The limits are constants that the code reads from
its configuration, or bounds of the model, marked `bound:` where they are
declared. Several properties are conjunctions of named parts that belong
together and are checked as one: `HandoverComplete`, `Pipeline`, `NothingStuck`,
`DeliveredOnce`, `RowsAreDriven`, `ResultsArrive`, `TakenRowsComeBack`,
`SlotsAreExact`, `LogIsTrue`, and `NothingLeaks` of `BackgroundJobs`, which
includes its type invariant; the parts are defined beside them.

| run | question | bounds |
|---|---|---|
| pool | counts, caps, wake-ups, order of a session, nothing left behind by a job that is done | 4 jobs of one session, 2 slots, 1 per session, queue of 2, one detached call, a time budget, database and build faults |
| crash | no stuck row, no forgotten result, one announcement, rows follow `JobLifecycle` | a job of a session and one without a parent, one slot, one crash at any point, an approval, a cancel call, a purge |
| cancel | a cancelled job is never on its way to its parent; a cancel stops the runner though no tool ends by itself; every row settles when the tools end | 2 processes, 2 jobs, one slot each, an approval, fairness |
| inject | the injection pipeline: serial, answered once, nobody stranded, every injection ends | 2 injections and 2 chats of one session, a session that is deleted, a result that is read, faults, fairness |
| phase | the handover of a call: one owner of the result, every call ends, `DetachedJobs` is implemented | 1 call (calls share nothing), a cancel call, a dropped caller, faults, fairness |
| deliver | no completion is stuck between window, claims and replay; `Deliveries` is implemented | 2 jobs of one session, one crash, a session that may be deleted, a row whose UPDATE may fail |
| waiters | every waiting call returns | 3 calls for one job, fairness |
| agents | results told once and complete, killed and cancelled runs silent, no run or result left waiting | a batch of 2 and a third run, 1 place, queue of 1, one cancel call of any kind, a failing projection, a read, a restart |
| turns | at most one delivery of a message, none lost, rows come back unless their turn is `abandoned`, one turn at a time | 2 messages, 3 turns (one typed directly and stopped, one whose client leaves, one with a failing write), one repeated enqueue, a restart; messages are symmetric |
| cron | slots, markers, logs, one turn per job, one-shots once, cancels, revival | a one-shot and a recurring job, 2 claims, one slot, one call of the user of any kind, one crash |
| killall, reclaim | statements of comments that the code does not keep | as small as the counterexample |

Why these bounds are enough for what they show. Order and counts need a running
job, two that wait and one that is refused or counted by force; one session
makes the per-session cap bind below the global one. Crossing cancel calls need
two processes, one that owns the runner and one that does not; a third would be
another that does not. A second crash repeats the first, because a crash forgets
everything but the table. The pipeline needs an injection that holds the
session, one that waits, and a chat that comes and goes while the second does;
two chats make the count of active chats go to two. A merge window needs one
completion that opens it and one that joins, misses or outlives it; the
theorems of `CompletionsProofs` remove the bound. Two sharers of a handle and a
third call show the clean-up that must not remove what others hold
(`WaitingAlwaysReachable` removes this bound too). The batch needs two children, so
that the first may end before the group is sealed, and a run beside it that
competes for the place; the theorems of `SubagentRunsProofs` hold for any number
of runs, children and calls. Turns need one that runs, one that follows while the
watchdog of the first releases the session, and one more to send what came
back. For cron, claims of two runs suffice for every race between a run and the
next; longer sequences of edits are covered by `OnlyTheUserRevives`, and more
runs, calls and crashes by `FlagsOnlyTheRunAsked` and `OneTurnAtATime`. `Lead` is
the process that took `runtime.lock` first; fixing it loses nothing, since the
processes differ in nothing else.

`CHECK_DEADLOCK FALSE` everywhere: when all jobs, calls or messages of the
bound are done the system is at rest.

### Fairness

`ProgramFairness` of `BackgroundJobs` (weak fairness of the spawning turn, the
runner's own steps, the cancel call, the scheduler, the replay, the watcher and
the end of a dispatch whose token is tripped) says that the operating system and
tokio run what is ready. The end of a tripped dispatch is bounded by
`CANCEL_CLEANUP_GRACE`, the watcher polls on an interval, and the scheduler's
tick makes even a lost permit harmless. `ToolFairness`, which is a hypothesis of
`EveryJobSettles` and of nothing else, assumes that a dispatch ends:
`max_job_secs` and the approval timeout are set. The default of `max_job_secs`
is 0, unlimited, so with the default configuration `EveryJobSettles` rests on
the tool; that is why `CancelStopsTheRunner` says, under `ProgramFairness`
alone, that a user can always stop it. Strong fairness there means only that a
dispatch does not park for an approval for ever. `FairSpec` of `ParentInjection`
assumes that threads run and that turns and chats end; of `AutoBackground`, that
both threads run and the tool ends; of `WaitRegistry`, that tasks are scheduled,
backoffs elapse and a settler that committed calls `notify_completion`. Nothing
is assumed of who ends a job: `CallsReturn` speaks of jobs that are over.

The other runs check safety. Where the interesting question is whether something
eventually happens (a sub-agent that waits, a row taken for a turn, a completion
in a window), they check that somebody is always there who will do it.

### What the violated runs show

Each is a disagreement between the code and a sentence in the repository, quoted
in `PROJECT.json`.

- *killall*: `kill_all` empties the wait queue and then cancels what was in it;
  the cancel finds no queue entry, trips the flag registered when the run was
  parked, and returns without stamping the row, which stays `queued` for ever.
  The cascade in `session/cleanup_watcher.rs:251` does the same.
- *reclaim*: a recurring job is due again while its last run still delivers; the
  end of that delivery clears the running marker of the new run, and a third
  run starts beside the second.

## 4. Proofs

`tlapm` on each of the eight proof modules checks them. The theorems hold for
every set of jobs, sessions, processes, calls and runs, any caps, queue lengths
and number of crashes, under the named assumptions of the modules (sorts of the
constants; a queue of at least one, as `clamp_queued` guarantees) and, where
stated, that a set is finite.

| theorem | statement |
|---|---|
| `TypeCorrect` | `Spec => []TypeOK` of `BackgroundJobs` |
| `SlotsAlwaysBalanced` | `Spec => []SlotsBalanced` |
| `CapsAlwaysHold` | `Spec => []AdmissionCaps` |
| `QueueAlwaysExclusive` | `Spec => []QueueExclusive` |
| `FirstComeFirstServed` | `Spec => SessionFifo` |
| `RowsFollowTheLifecycle` | `Spec => ImplementsLifecycle`, the refinement of `JobLifecycle` |
| `NothingIsLeftBehind` | `Spec => []NothingLeaks` |
| `NoWakeupIsLost` | `Spec => []NoLostWakeup` |
| `NoActiveRowIsStuck` | `~DbFaults`, `NoOrphans`: `Spec => []ActiveRowDriven` |
| `ResultsAreKept` | `NoOrphans`: `Spec => []NoResultForgotten` |
| `NoOrphanIsLeft` | `~DbFaults`, `NoOrphans`: `Spec => CancelLeavesNoOrphan` (section 5) |
| `CancelledStartsNoTurn` | `~BuildFaults` or one process: `Spec => []CancelledNotInjected` |
| `HooksSeeJobsOnce` | one process: `Spec => []HookedOnce` |
| `NothingEverStuck` | `IsFiniteSet(Job)`: `Spec => []NothingStuck` of `Completions` |
| `DeliversAsPromised` | `IsFiniteSet(Job)`: `Spec => ImplementsDelivery`, the refinement |
| `RetoldByReplayOnly` | `IsFiniteSet(Job)`: `Spec => [](told[j] <= 2`, and 2 only for a job the replay listed`)` |
| `ToldOnceWithoutRestart` | `IsFiniteSet(Job)`, no crash: `Spec => []ToldOnce` (section 5) |
| `WaitTypeCorrect` | `Spec => []TypeOK` of `WaitRegistry` |
| `WaitingAlwaysReachable` | finite calls and jobs: `Spec => []WaitingIsReachable` |
| `HandoverIsComplete` | `Spec => []HandoverComplete` of `AutoBackground` |
| `ResultGoesOneWay` | `Spec => []OneWay` |
| `HandoverIsOneStep` | `Spec => ImplementsDetach`, the refinement of `DetachedJobs` |
| `DetachedFollowsTheLifecycle` | `Spec => Lifecycle!Spec`: the row of a detached call follows `JobLifecycle` |
| `GoneHasEnded` | a job that was announced and whose worker is gone has `Ended` |
| `FinalizedUnlessBuildFails` | `~BuildFaults`: `Spec => []DetachedIsFinalized` |
| `PipelineHolds` | `Spec => []Pipeline` of `ParentInjection` (types, `Serial`, `QueuedWillBeFlushed`) |
| `ResultIsAnsweredOnce` | `Spec => []AnsweredOnce` |
| `DeliveredIsHandled` | `Spec => []ClosedIsHandled` |
| `RunsTypeCorrect` | `Spec => []TypeOK` of `SubagentRuns` |
| `NoParkedRunRevives` | `Spec => []KilledParkedNeverRuns` |
| `CancelledBatchIsSilent` | `Spec => []CancelledGroupSilent` |
| `ResultsAreToldOnce` | `Spec => []DeliveredOnce` (`OneDelivery`, `MergedIsComplete`) |
| `NoResultWaitsForever` | `Spec => []ResultsArrive` (`GroupIsNoticed`, `NoResultStranded`) |
| `NoRowIsForgotten` | `Spec => []RowsAreDriven` (types, `QueuedIsTracked`, `ActiveHasTask`, `ParkedLeaves`) |
| `HandedAtMostOnce` | `Spec => []AtMostOnce` of `TurnQueue` |
| `NothingAcceptedIsLost` | `Spec => []NothingLost` |
| `TakenRowsAlwaysComeBack` | `Spec => []TakenRowsComeBack`: all turns but the `abandoned` ones |
| `CopiesStayFresh` | `Spec => []CopiesAreFresh` |
| `TurnsAreAlone` | `Spec => []OneTurnAtATime` |
| `OnlyTheUserRevives` | `Spec => NoRevival` of `Cron` |
| `FlagsOnlyTheRunAsked` | `Spec => []CancelHitsItsRun` |
| `OneTurnAtATime` | `SlowDelivery = {}`: `Spec => []OneTurnPerJob` |
| `CronTypeCorrect` | `Job # {}`: `Spec => []TypeOK` of `Cron` |
| `NoSlotLeaks` | `Spec => []MarkerHasRun` |
| `SlotsStayExact` | `SlowDelivery = {}`, `Job # {}`: `Spec => []SlotsAreExact` (types, `MarkerHasRun`, `CapHeld`) |
| `OneShotFiresOnce` | `Spec => []OneShotRunsOnce` |
| `LogsAreTrue` | `SlowDelivery = {}`: `Spec => []LogIsTrue` (`LogAgreesWithJob`, `LogsClose`) |

**Background jobs.** The first part of `BackgroundJobsProofs` states what each
function of the slot manager does to counts, queue and order (`ReserveEffect`, `ReleaseEffect`,
`EnqueueEffect`, `RemoveQueuedEffect`, `RemoveSessionEffect`, `TakeEffect`), from
three facts: a nonempty set of naturals has a least element (so `CHOOSE` in
`pick_fair_index` finds one, `PickFairOldest`), ranks number a finite set from 1
on (`RankOnto`), and keeping positions of a sequence keeps order and
distinctness (`KeepProperties`). None of the invariants is inductive alone. The
inductive invariant is `Typed` (`TypeOK` and `VerdictKnown`: a thread about to
settle knows what to write), `SlotInv` (`FiniteHolders`, else cardinalities mean
nothing; `SlotsBalanced`, `AdmissionCaps`, `QueueExclusive`; and `SeatFollowsPc`,
which ties the reservation to where the thread is - without it nothing says
that a job taken from the queue was not counted already, or that a dropped
reservation was counted) and `CallerKnown` (a cancel call under way runs in some
process). The caps hold because admission happens only below the caps, because
forced reservations are not counted as admitted, and because the counts bound
the admitted ones. Each step lemma has a case per action; most leave slots and
queue alone (`QuietStep`) or drop one reservation (`DropStep`).

The rest of that module is about rows, and about who looks after them:

- *Lifecycle.* Each statement of `JobRows` takes a row along an edge of
  `JobLifecycle` (`RowMoves`), except `mark_injected`, which has no guard. That it
  only ever reaches settled rows is `RowInv`: who settles, announces or hands over
  a job, or lists its result, does so when its row `IsOver`, settled or gone and
  never made again (`OverStays`).
- *What is left behind.* `TokenInv`: exactly the threads that are about to end have
  lost their token.
- *Wake-ups.* Each step of a live process is `Heeded`: it leaves a permit, or it
  leaves nothing to take, or the pool is no roomier than it was (`NoRoomier`: counts
  not lower, queue not longer, so nothing new can be taken, `TakeNeedsRoom`) and a
  permit or a scheduler at work stays one.
- *Rows that stay active, results that stay pending.* `DrivenStep` and `KeptStays`
  say that whoever looks after a row passes it on: a thread to its wrap-up, a cancel
  call to its announcement, and all of them, when they die, to the replay of the
  next Primary, which lists what is active and drops only what it settled
  (`InterruptStays`). They need `ReplayerIsPrimary`, `SoleProc` (the only process,
  if up, holds the lock) and `Unstarted` (a job that never had a runner is still
  `queued` while it is active, so that a runner or a cancel call can settle it).
  `NoOrphans` (one process, or none dies) is a real limit, of the code and not of
  the proof: the Primary replays once, at its start, so the rows of a Secondary
  that dies later wait for the next Primary. TLC answers `ActiveRowDriven` without
  it in four states (spawn, insert, crash) and `NoResultForgotten` in seven. `~DbFaults`
  is one too (section 5). `NoOrphanIsLeft` draws the consequence for cancel calls:
  one that returns with its row still active leaves it to somebody who settles it.
- *Cancels and verdicts.* `WroteVerdict`: a runner that wraps up a cancelled row
  reached the verdict `cancelled` itself. A runtime that cannot be built breaks
  it when somebody else cancelled the row meanwhile; with one process nobody can,
  since a cancel call that settles a row itself found no token (`SoleInv`), so its
  thread is over.
- *Hooks.* `HookInv`: a hook was fired at most once and only for a job whose
  runner is past its wrap-up, and whoever is about to fire one is the first. The
  runner and the cancel call exclude each other by `SoleInv`, and a row gets
  settled only by one of those two as long as no replay runs (`SettledBy`). Steps
  that are none of a job's end are `Indifferent` to all this.

**Delivery of results.** The invariant `Inv` of `CompletionsProofs` joins types;
`DispatchesWellFormed` (the jobs of a dispatch are of one session, its work list
is part of them, its claims fit its `pc`); `Places` (a job not yet settled is
nowhere, a settled one is in one place of the live path and in one of the
replay); `Claimants` (each claim has exactly one dispatch, each claiming dispatch
its claims: this is `ClaimsAreHeld` without counting); `WindowsKept`;
`MarkedAfterTelling` (a dispatch that marks rows told them, or their
session is gone); and `NoResultDropped`. `Places` is what makes a claim that is
let go (`LetGo`) leave nothing behind: the job is then told, closed, or in the
other dispatch. For the refinement, `ToldInTurn` counts: a result with a live
dispatch ahead of it (`LiveAhead`) was told at most by the replay, one with a
replay ahead (`ReplayAhead`) at most by the live path, and one with both was not
told; so a turn that repeats a result is the one repetition `Deliveries`
allows after `Relist`. `DeliveryStep` then has one case for each visible
action and three for the steps that leave the promise alone. The same count
bounds the repetitions (`RetoldByReplayOnly`), and without a crash no replay
ever lists anything (`ToldOnceWithoutRestart`).

**Auto-background handover.** Calls share nothing, so the invariant `Handover` is
`Typed` and, for each call, `CallInv`: it divides the life of a call by where the
caller and the worker are (before the budget is over, detaching, rolled back,
answered inline, detached) and says for each what row, token, slot, phase and
answer are. `UntouchedKept` carries it over the steps of other calls. The
properties read it off. `FinalizedUnlessBuildFails` adds that the disagreement
`DetachedIsFinalized` of section 5 has one cause: where runtimes can be built, a
worker that is gone left no detached job open, and `GoneHasEnded` says so with
build failures, where such a job ended by never having started.

`HandoverIsOneStep` has a case per action. Steps of one call are seen to move
only that call (`OthersSeenUnchanged`), so each case compares what `DetachedJobs`
sees of one call before and after. All of the caller's steps but the insertion
of the row are stutters, and so are those of a call that is never detached. The
worker's are the runner's steps, which `CallInv` shows to find row, token and slot
there; a cancel call's are statements on the row. `DetachedKeepsLifecycle` takes
`DetachedJobs` on to `JobLifecycle`, so the two refinements compose:
`DetachedFollowsTheLifecycle` needs nothing of the threads or the lock.

**Parent injection.** `Serial` counts, and a count is not inductive. The
invariant says it without counting (`SerialInv`: two holders of a session are
the same and none is there while a thread drops its guards; an injecting session
has a holder; its cancel entry is the holder's); `SerialCounts` gets the count
back. `SomebodyFlushes` is `QueuedWillBeFlushed` with what it needs: only a
holder releases the session, and it then owes a flush. `QueueIsQueued` (what is
in `PENDING_INJECTIONS` is exactly what was put off, once) makes the drain of
the flush take nobody else. `ResultInv` has `Answered` (a turn that ended
well is the end of its injection), `ReadEarly` (a result read before the last
check is on the fetched set until its injection sees it) and `ClosedIsHandled`.

**Sub-agents.** `RunsInv` joins three groups. `Threads`: types; `RowInv`, what
the row of a run is by where its threads are (a run in hand may have been
stamped `killed` under them, and is nothing else unexpected); `QueueInv`, only
parked runs are queued, and the scheduler holds a run only with a slot to give;
`CallInv`, a cancel call names runs that have a row. `Elsewhere` is what makes
it inductive: of the steps of others only a stamp reaches the row of a run.
`Groups`: once a group is sealed every child was spawned, so `Complete` (sealed,
no open child) stays (`CompleteStays`) and a claim based on it is still true
when it is made (`ClaimsAreTrue`); a call that cancels a group has ended it
before it takes a child; a thread between its check and its claim does nothing
else (`CheckInv`), hence `GroupIsNoticed`: only a task's end or a stamp
settles a child of a sealed group (`ProjSettles`), and both look. `Results`:
`StampInv` (a run stamped while its row said `Queued` was parked, and stays out
of the tasks); `DeliveryInv` (a merged injection implies a group that is done, a
single one a run without a group, and who was withdrawn with an open child
leaves a group that can never be done, since done means complete);
`QueuedIsTracked`, which follows a parked run from hand to hand (`QueueLoss`,
`HeldStays`). `NoRowIsForgotten` reads `RowsAreDriven` off all three. That the
scheduler can move is written there as the guards of its actions
(`SchedulerMayMove`), from which the actions are built; TLC finds the two the
same, `SchedulerMayMove <=> ENABLED SchedulerStep`, in every state of run *agents*.
What is left is a count: with every place taken the finite set of active runs is
not empty, and an active run has a task that will wake the scheduler at its end. No assumption is needed beyond the sorts of the constants, a cap of
at least one and threads that are told apart; the set of runs may be infinite,
as those that count against the limit stay finitely many (`FiniteStep`).

**Turn queue.** `QueueInv` joins nine parts. `Typed` includes what a thread has
in hand, by where it is (`InHand`). `AtMostOnce` rests on `OneCommit`: a message
reaches a model through the one turn that wrote its marker, or no more; the
marker is what recovery goes by, so a row that outlives its message is
deleted and not sent. `TakenRowsComeBack` rests on `GateGuards` (an insertion
gate is open only for a registered turn whose clean-up is ahead) and
`DispatchIsFrom` (a row being dispatched is the one its command was started
from), for the turns that are not in `abandoned`, a set that only a restart makes
smaller (`AbandonedGrows`) and that no row in flight survives. `OneTurnAtATime` is part of `SessionHeld` (who is past the acquisition,
and not written off, is the turn in the registry); `CopiesAreFresh` of
`CopiesClaimed` (a copy in hand is of a row claimed for that thread, and the
user cannot edit a claimed row), where an engine that outlives its turn may claim
through a later one: hence its premise `forced = {}`. `BoundChanges` and the
`...Effect` lemmas say once what a statement on rows may change; then each part
has a step lemma with a case per action.

**Filters.** tlapm does not unfold `SelectSeq`, whose definition is recursive, so
the models use `Keep` and `Without` of `SeqFilter`, a recursive function over
`0..Len(q)`. `Induction` (a set of numbers with 0 and every successor has them
all) follows from the well-foundedness of `<`, stated for sets; the library's
principles, stated for predicates, cannot be instantiated. `KeepExists` shows
that a function with the recursion exists, `KeepSpec` what it returns.

**Waits.** `WaitingIsReachable` covers every call from its registration to its
clean-up, since the notification leaves no permit: who registered before the end
of the job is reached by it, who looks again after it finds a settled row.
`Joined` (a call that registered and has not begun its clean-up, and
whose job is under way, holds the handle in the registry) with `ToldIsOver` (who
is about to notify has committed a settled row). The delicate step is the
clean-up of another call: it removes the entry only at a strong count of two,
and a count of two leaves no room for a second sharer (`SharedIsKept`).

**Cron.** `Shape` gives types step by step and, with it, what the end of a run
may still do. `OnlyTheUserRevives` needs nothing more: each guarded statement
keeps a settled status. `FlagsOnlyTheRunAsked` needs `RegisteredRuns` and
`NamedRuns`: a registered flag belongs to a live run of that job, and a call or
a placeholder names a run whose marker was read or that is over.
`OneTurnAtATime` needs `MarkerIsTurns` (a run in its turn holds its job's
marker), `NothingLeftToClear` (while a job has a run in its turn, no run of it
has a statement left that clears a marker) and `StartsAlone` (no run is alive
while the startup sweeps clear markers). Its assumption, `SlowDelivery = {}`, is
needed: run *reclaim* is what happens without it.

The other theorems stand on `Basis`: `Shape`, the types of the data, `AgendaInv`
(which statements a run that is ending still has ahead, in which order, and what
outcome each of them presupposes) and `MarkerHasRun`, which is inductive with them.
A type that counts needs a count: `failures` stays in its range because no job
failed more often than there are runs in `Spent`, claimed and with no failure left
to report. `CapHeld` compares two counts taken at different times. `CapInv` adds
that while a pass claims, the turns in use and the slots it still has to give
are together within the cap; it starts to hold when the markers are counted,
since each turn in use is marked by its own job (an injection from runs to
markers), and each later claim moves one slot to one turn. `ShotInv` says who holds
the occurrence of a one-shot job: a scheduled run from its claim until it gives it
back by rescheduling, or for ever once its turn began (`Holder`); there is one
holder, and while there is one the job has no next run. `LogsAreTrue` needs three
parts: `HoldInv` (a run holds its job's marker through its turn, until it has
advanced the job, and after a panic until its guards have run), `LogInv` (where a
run whose log is open may be) and `AgreeInv` (an untouched one-shot job is active
until its run advances it, completed from then on). `MarkerHasRun` and
`OneShotRunsOnce` need no assumption on delivery. For `CapHeld` and `LogsClose` it
is needed: with one slow job, a cap of one and three runs, TLC answers both with a
trace of 28 states, in which the second clear of the old run takes the marker
of the new one (the cap is then exceeded, or a panic of the new run finds no
marker to clear and leaves its log open). `Job # {}` is for the type of an idle
call, which names some job.

Only model-checked: liveness under fairness, out of the prover's reach. For each
such property its safety part, that somebody whose step is enabled or on its way
will do what is awaited, is a theorem:

| liveness, TLC only | safety part, proved |
|---|---|
| `EveryCallEnds` of `AutoBackground` | `GoneHasEnded` |
| `EveryJobSettles`, `CancelStopsTheRunner` of `BackgroundJobs` | `NoActiveRowIsStuck`, `NoWakeupIsLost`, `NothingIsLeftBehind` |
| `EveryInjectionEnds` of `ParentInjection` | `QueuedWillBeFlushed` in `PipelineHolds` |
| `CallsReturn` of `WaitRegistry` | `WaitingAlwaysReachable` |

Every invariant, action property and refinement the passing runs check is a
theorem, under the assumptions in the table. The abstract specifications promise safety only, so
the refinement theorems are about all they say.

## 5. Reading the properties with care

- `HookedOnce` (a terminal hook fires once for a job) holds, and is proved, within
  one process and one life. With several processes, the replay of one Primary and a cancel
  call of another may announce the same job (`aj/mod.rs:246`), and so may a
  process that starts after a crash; the code has no claim across processes.
- `ActiveRowDriven` counts the replay of the next Primary as somebody who will
  settle a row, and is checked and proved without database faults: a failing
  `mark_running` (`aj/spawn.rs:483`) leaves a row only the next start settles.
- `CancelledNotInjected` is checked without build failures, and proved without them
  or for one process. When the runtime of a runner cannot be built, `start_runner`
  announces the failure and hands it to the injection pipeline whether or not the
  row was still open, and a cancel call of another process may have closed it.
- `EveryCallEnds` says that each call ends; a call whose worker could not be
  started while the caller was detaching it ends without a finalized job
  (`DetachedIsFinalized` below). `EveryInjectionEnds` accepts `lost` as an end
  (`NoneLost` below).
- `OneTurnPerJob` of `Cron` is checked and proved where every run delivers before
  its job is due again, and violated where it does not (run *reclaim*); so are
  `CapHeld` and `LogsClose`, and for the same reason.
- `OneShotRunsOnce` speaks of jobs the user did not edit or delete meanwhile.
- `TakenRowsComeBack` exempts the turns in `abandoned`: the client left while the
  row was being dispatched, the workflow mode could not be stored, or the write
  that gives the row back failed. There is no other way to leave one behind, and
  a restart leaves none; without the exemption the code does not keep it
  (`EveryTakenRowComesBack` below).

Some sentences of the repository are stated in the modules and not in a run,
because the code does not keep them and TLC answers with a short trace. The
definitions stay beside the model so that a change of the code can be tried
against them.

| definition | instance that violates it | what happens |
|---|---|---|
| `BudgetReported` | `BackgroundJobs`, one job with a budget | `run_tool_once` trips the job's token when `max_job_secs` expires (`aj/spawn.rs:893`), which `run_tool_with_retry` reads as a cancel (`937`): the row settles `cancelled`, not `timed_out` (comment at `848`) |
| `InterruptsOnlyTheDead` | `BackgroundJobs` with two processes and a crash | the replay of a new Primary interrupts the live jobs of a running Secondary (`app_init.rs:897`, `aj/mod.rs:399`) |
| `CancelLeavesNoOrphan` | `BackgroundJobs` with two processes and a crash | `mark_cancelling` does not match a `queued` row, so `cancel_job` returns (`aj/mod.rs:235`) before the branch for rows without a runner (`242`): a queued row whose process died cannot be cancelled; with one process, or where none dies, the sentence is true (`NoOrphanIsLeft`) |
| `NoneLost` | that of *inject* | the flush drains all pending injections of a session, starts one and drops the rest (`sub/injection.rs:128`); tool jobs are found again by the next replay |
| `NoSplice` | that of *inject* | an injection registers its cancel flag after it found the session idle (`sub/injection.rs:438`): a chat that starts between does not stop it |
| `DetachedIsFinalized` | that of *phase* | a worker that cannot build its runtime overwrites a detached phase (`aj/spawn.rs:800`), and nobody finalizes the job; no other cause leaves one (`FinalizedUnlessBuildFails`) |
| `ToldOnce` | that of *deliver* | `docs/architecture/background-jobs.md:158` promises exactly one injection; a job that ends before the replay listed it is told by both, since the claim is released when the first dispatch ends and the second does not re-read `injected` (`aj/injection.rs:31`, `aj/mod.rs:458`); this is the only way (`RetoldByReplayOnly`, `ToldOnceWithoutRestart`) |
| `DispatchFifo` | that of *turns* | the claim takes the oldest row that is queued or fell back; an older one waiting for a tool boundary is overtaken (`docs/architecture/chat-engine.md:503` says first in, first out) |
| `EveryTakenRowComesBack` | that of *turns* without HTTP clients | `session/turn_queue.rs:697-700` promises to "release the row for a safe retry", `docs/architecture/chat-engine.md:514` that rows left bound fall back; a failed update of the workflow mode returns without releasing the claimed row (`routes/chat.rs:855`, `commands/chat.rs:665`), and the errors of release, removal, reconciliation and fallback are ignored (`routes/chat.rs:872`, `911`, `turn_injection.rs:89`) |
| `RerunReactivates` | that of *cron* with `MaxFailures = 1` | the comment at `cron/db.rs:743-744` says that a run by hand of a disabled job "that *succeeds* still re-activates via the success branch above"; a run by hand never calls `update_after_run` (`cron/executor.rs:592`), and the success branch has `AND status='active'` (`db.rs:697`): the job stays disabled, which is what `NoRevival` says |
| `NoOrphanHandle` | that of *waiters* | two calls cleaning up at once both see a strong count of three (`aj/wait.rs:68`); the handle stays in the map until the job ends |

Met while modelling, in the models unless said otherwise, with no property of
their own:

- Sub-agents: a run launched directly is `Spawning` before its cancel flag is
  registered, and an unguarded update may overwrite `killed`; `action_kill` may
  overwrite a completed row; children spawned after their group was cancelled
  run and report to nobody; the count before the insertion lets the limit be
  exceeded; a restart drops the results of children that ended in a group that
  did not.
- Turn queue: a claimed row stays `dispatching` until the next start when the
  HTTP client leaves between claim and consumption, when the workflow mode cannot
  be stored, or when the release, removal or reconciliation fails; when the
  fallback of a finished turn fails, its rows stay `waiting` (which the user may
  still cancel, edit or delete) or `inserting`. Until then they count towards the
  limit of the queue. An engine that outlives its
  watchdog may claim rows meant for the next turn; a row requested for insertion
  before the engine's lifecycle began stays `waiting`.
- Cron: renaming a one-shot job while it runs marks it `missed`, and the later
  success is then a no-op; a cancel that looks at `CANCELS` just before a run
  registers, and at `PENDING_CANCELS` just after it drained, is answered "yes"
  and sets no flag (`cron/executor.rs:197` says otherwise); a cancel of a run
  claimed while the guard of the last is still registered is answered "no";
  deleting a running job frees its slot at once. Not in the model: a panic
  during delivery leaves the log `running`; a run by hand during startup loses
  its marker to `clear_all_running`.

## 6. Not modelled, and why

In the modelled parts. `BackgroundJobs`: rows of kind Subagent, Group and
Monitor (the first two are in `SubagentRuns`), `suppress_completion_injection`,
changes of the configuration
while jobs run, the retention purge, two concurrent cancel calls on one job, the
retry of idempotent tools (off by default). `Completions`: several processes
delivering at once, the text of a merged message. `SubagentRuns`: depth and
spawn limits, mentions, the steering mailbox, several parents. `TurnQueue`: the
rest of the session tables, several sessions (they share nothing but the
registry's lock). `Cron`: calendar arithmetic, edits of schedule or payload,
session-loop jobs, failing writes, the snapshot of `next_run_at` that a claim
compares.

Not at all: text, prompts, retrieval, indexing, rendering, external services and
tools are data without control shared between actors. Workflow, goals and loops,
teams and wakeups are state machines of their own that end in the parts above
(a turn, a sub-agent, an injection). Failover is a sequential retry around one
model call. `PROJECT.json` lists each component with its reason.

## 7. Plan

Done: rows, slots, jobs, handover, delivery with its refinement, injection,
waits, sub-agents and groups, turn queue, cron.

Next modules:

1. `Wakeups`: rows deleted only after their turn was injected; a crash or a
   failed delete between the two, purge and replay beside a timer.
2. The rotation of profiles in failover and `retry::decide`, as functions
   against a reference definition.
3. Liveness of sub-agents: under a fair scheduler, a parked run is launched or
   stamped.

Next theorems: those of the modules above, and that the ways an injection ends
in `ParentInjection` are the steps that end a dispatch in `Completions`.

--------------------------- MODULE BackgroundJobs ---------------------------
(***************************************************************************)
(* Background tool jobs (crates/ha-core/src/async_jobs): a tool call that  *)
(* leaves its chat turn and reports back later.  The rows of               *)
(* background_jobs.db are shared by every process; a job's token, its      *)
(* place in the wait queue, its slot and its thread live in the process    *)
(* that spawned it.  Actors: the spawning turn, the scheduler loop of each *)
(* process, the runner thread of each job, the cancel watcher, callers of  *)
(* cancel_job in any process, the purge of a burned session, the start-up  *)
(* replay of the Primary process, and crashes.                             *)
(*                                                                         *)
(* Tool kind only: Subagent, Group and Monitor rows are settled elsewhere. *)
(* The injection pipeline is one set per process, handed[p]; what happens  *)
(* to a job in it is the subject of ParentInjection.                       *)
(***************************************************************************)
EXTENDS JobSlots, JobRows

CONSTANTS
  Proc,         \* processes sharing the database
  NoProc,
  Lead,         \* the process that took runtime.lock first
  Detachable,   \* bound: calls that may outlive the synchronous budget
  Asking,       \* bound: jobs whose command asks for an approval
  Cancellable,  \* bound: jobs cancel_job is called on
  Burnable,     \* bound: sessions that may be purged
  MaxCrashes,   \* bound: the number of crashes
  JobBudget,    \* TRUE: max_job_secs > 0
  DbFaults,     \* TRUE: INSERT, mark_running, finalize's UPDATE may fail
  BuildFaults   \* TRUE: a runner's tokio runtime may fail to build

ASSUME ProcAssumption ==
  /\ NoProc \notin Proc /\ Lead \in Proc
  /\ Detachable \subseteq Job /\ Asking \subseteq Job
  /\ Cancellable \subseteq Job
  /\ Burnable \subseteq Session \ {NoSession}
  /\ MaxCrashes \in Nat
  /\ JobBudget \in BOOLEAN /\ DbFaults \in BOOLEAN /\ BuildFaults \in BOOLEAN

VARIABLES
  rows,        \* the shared table
  home,        \* the process a job was spawned in
  pc,          \* where the job's own thread of control is
  slot,        \* the SlotReservation it holds
  registered,  \* its entry in the CANCELS registry of its process
  tripped,     \* its CancellationToken
  verdict,     \* the terminal status its dispatch ended with
  expired,     \* its budget timer fired
  pool,        \* the SlotManager of each process
  wake,        \* the permit of SCHED_NOTIFY
  sched,       \* the scheduler loop
  canc,        \* a call of cancel_job on the job
  handed,      \* jobs handed to the injection pipeline of a process
  hooks,       \* terminal hooks fired for the job, counted up to 2
  up, primary, \* live processes; the holder of runtime.lock
  replay,      \* replay_pending_jobs of each process
  crashes

jobVars  == <<home, pc, slot, registered, tripped, verdict, expired>>
poolVars == <<pool, wake, sched>>
procVars == <<up, primary, replay, crashes>>
vars == <<rows, jobVars, poolVars, canc, handed, hooks, procVars>>

PC == {"idle", "insert", "enqueue", "queued", "taken", "start", "run",
       "parked", "dismissed", "settle", "wrapup", "exit", "unqueued",
       "done", "dropped", "gone"}

CancelPC == {"idle", "unqueue", "settle", "announce", "flag", "trip",
             "dismiss", "mark", "force"}

Verdict == {"none", "completed", "failed", "timed_out", "cancelled"}

Idle == [pc |-> "idle", proc |-> NoProc, signalled |-> FALSE]

NoReplay == [pc |-> "off", work |-> {}]

TypeOK ==
  /\ rows \in [Job -> Row]
  /\ home \in [Job -> Proc \cup {NoProc}]
  /\ pc \in [Job -> PC]
  /\ slot \in [Job -> {"none", "admitted", "forced"}]
  /\ registered \in [Job -> BOOLEAN]
  /\ tripped \in [Job -> BOOLEAN]
  /\ verdict \in [Job -> Verdict]
  /\ expired \in [Job -> BOOLEAN]
  /\ pool \in [Proc -> Pool]
  /\ wake \in [Proc -> BOOLEAN]
  /\ sched \in [Proc -> {"parked", "draining"}]
  /\ canc \in [Job -> [pc : CancelPC, proc : Proc \cup {NoProc},
                       signalled : BOOLEAN]]
  /\ handed \in [Proc -> SUBSET Job]
  /\ hooks \in [Job -> 0..2]
  /\ up \in SUBSET Proc
  /\ primary \in Proc \cup {NoProc}
  /\ replay \in [Proc -> [pc : {"off", "list", "interrupt", "pending",
                                "dispatch"},
                          work : SUBSET Job]]
  /\ crashes \in 0..MaxCrashes

(* A fresh database; every process is up and Lead is the Primary.          *)
Init ==
  /\ rows = [j \in Job |-> NoRow]
  /\ home = [j \in Job |-> NoProc]
  /\ pc = [j \in Job |-> "idle"]
  /\ slot = [j \in Job |-> "none"]
  /\ registered = [j \in Job |-> FALSE]
  /\ tripped = [j \in Job |-> FALSE]
  /\ verdict = [j \in Job |-> "none"]
  /\ expired = [j \in Job |-> FALSE]
  /\ pool = [p \in Proc |-> EmptyPool]
  /\ wake = [p \in Proc |-> FALSE]
  /\ sched = [p \in Proc |-> "parked"]
  /\ canc = [j \in Job |-> Idle]
  /\ handed = [p \in Proc |-> {}]
  /\ hooks = [j \in Job |-> 0]
  /\ up = Proc
  /\ primary = Lead
  /\ replay = [p \in Proc |-> NoReplay]
  /\ crashes = 0

-----------------------------------------------------------------------------
(* Helpers.                                                                *)

Update(j, row) == rows' = [rows EXCEPT ![j] = row]

Goto(j, l) == pc' = [pc EXCEPT ![j] = l]

FireHook(j) == hooks' = [hooks EXCEPT ![j] = IF @ < 2 THEN @ + 1 ELSE 2]

(* As DropSlot without notify_one, and without release.                    *)
DropSlotSilently(j) ==
  /\ slot' = [slot EXCEPT ![j] = "none"]
  /\ pool' = [pool EXCEPT ![home[j]] = Release(@, SessionOf[j])]
  /\ UNCHANGED wake

DropSlotLeaks(j) ==
  /\ slot' = [slot EXCEPT ![j] = "none"]
  /\ wake' = [wake EXCEPT ![home[j]] = TRUE]
  /\ UNCHANGED pool

(* Drop of the job's SlotReservation: release the slot, leave a permit.    *)
DropSlot(j) ==
  /\ slot' = [slot EXCEPT ![j] = "none"]
  /\ pool' = [pool EXCEPT ![home[j]] = Release(@, SessionOf[j])]
  /\ wake' = [wake EXCEPT ![home[j]] = TRUE]

HasParent(j) == SessionOf[j] # NoSession

(* Spawning an explicit job, part 1: register the token, prepare the       *)
(* context, try to reserve a slot.  The row does not exist yet.            *)
Spawn(j, p) ==
  /\ p \in up /\ pc[j] = "idle"
  /\ home' = [home EXCEPT ![j] = p]
  /\ registered' = [registered EXCEPT ![j] = TRUE]
  /\ Goto(j, "insert")
  /\ \/ /\ CanReserve(pool[p], SessionOf[j])
        /\ slot' = [slot EXCEPT ![j] = "admitted"]
        /\ pool' = [pool EXCEPT ![p] = ReserveForced(@, SessionOf[j])]
     \/ /\ ~CanReserve(pool[p], SessionOf[j])
        /\ UNCHANGED <<slot, pool>>
  /\ UNCHANGED <<rows, tripped, verdict, expired, wake, sched, canc, handed,
                 hooks, procVars>>

(* Part 2: the row appears, running or queued as the reservation decided.  *)
InsertRow(j) ==
  /\ pc[j] = "insert"
  /\ Update(j, NewRow(IF slot[j] = "none" THEN "queued" ELSE "running"))
  /\ Goto(j, IF slot[j] = "none" THEN "enqueue" ELSE "start")
  /\ UNCHANGED <<home, slot, registered, tripped, verdict, expired, poolVars,
                 canc, handed, hooks, procVars>>

(* As InsertFails without the rollback of the token.                       *)
InsertFailsKeepsToken(j) ==
  /\ DbFaults /\ pc[j] = "insert"
  /\ Goto(j, "done")
  /\ IF slot[j] = "none" THEN UNCHANGED <<slot, pool, wake>> ELSE DropSlot(j)
  /\ UNCHANGED <<rows, home, registered, tripped, verdict, expired, sched, canc,
                 handed, hooks, procVars>>

(* The INSERT failed: roll the token back; the reservation drops.          *)
InsertFails(j) ==
  /\ DbFaults /\ pc[j] = "insert"
  /\ registered' = [registered EXCEPT ![j] = FALSE]
  /\ Goto(j, "done")
  /\ IF slot[j] = "none" THEN UNCHANGED <<slot, pool, wake>> ELSE DropSlot(j)
  /\ UNCHANGED <<rows, home, tripped, verdict, expired, sched, canc, handed,
                 hooks, procVars>>

(* Part 3, without a slot: queue the job and wake the scheduler, or refuse *)
(* it and roll back its token and row when the queue is full.              *)
EnqueueJob(j) ==
  /\ pc[j] = "enqueue" /\ CanEnqueue(pool[home[j]])
  /\ pool' = [pool EXCEPT ![home[j]] = Enqueue(@, j)]
  /\ wake' = [wake EXCEPT ![home[j]] = TRUE]
  /\ Goto(j, "queued")
  /\ UNCHANGED <<rows, home, slot, registered, tripped, verdict, expired,
                 sched, canc, handed, hooks, procVars>>

RejectJob(j) ==
  /\ pc[j] = "enqueue" /\ ~CanEnqueue(pool[home[j]])
  /\ registered' = [registered EXCEPT ![j] = FALSE]
  /\ Update(j, NoRow)
  /\ Goto(j, "done")
  /\ UNCHANGED <<home, slot, tripped, verdict, expired, poolVars, canc, handed,
                 hooks, procVars>>

(* Auto-background: a call already running on its worker thread outlives   *)
(* the synchronous budget.  Token, row and forced reservation are set      *)
(* under the phase lock; the worker cannot finalize before (AutoBackground *)
(* has the details).                                                       *)
Detach(j, p) ==
  /\ j \in Detachable /\ p \in up /\ pc[j] = "idle"
  /\ home' = [home EXCEPT ![j] = p]
  /\ registered' = [registered EXCEPT ![j] = TRUE]
  /\ Update(j, NewRow("running"))
  /\ slot' = [slot EXCEPT ![j] = "forced"]
  /\ pool' = [pool EXCEPT ![p] = ReserveForced(@, SessionOf[j])]
  /\ Goto(j, "run")
  /\ UNCHANGED <<tripped, verdict, expired, wake, sched, canc, handed, hooks,
                 procVars>>

-----------------------------------------------------------------------------
(* run_scheduler: parked until a permit or the 5 s tick (without effect    *)
(* over an empty queue), then promote until nothing can be taken.  It is   *)
(* sequential: the next take waits for the row of the last one.            *)

Holding(p) == \E j \in Job : pc[j] = "taken" /\ home[j] = p

WakeScheduler(p) ==
  /\ p \in up /\ sched[p] = "parked"
  /\ wake[p] \/ pool[p].queue # <<>>
  /\ sched' = [sched EXCEPT ![p] = "draining"]
  /\ wake' = [wake EXCEPT ![p] = FALSE]
  /\ UNCHANGED <<rows, jobVars, pool, canc, handed, hooks, procVars>>

(* try_take_next: the job leaves the queue with a slot of its own.         *)
TakeJob(p) ==
  /\ sched[p] = "draining" /\ ~Holding(p) /\ CanTake(pool[p])
  /\ LET j == NextJob(pool[p]) IN
       /\ Goto(j, "taken")
       /\ slot' = [slot EXCEPT ![j] = "admitted"]
  /\ pool' = [pool EXCEPT ![p] = Take(@)]
  /\ UNCHANGED <<rows, home, registered, tripped, verdict, expired, wake,
                 sched, canc, handed, hooks, procVars>>

SchedulerParks(p) ==
  /\ sched[p] = "draining" /\ ~Holding(p) /\ ~CanTake(pool[p])
  /\ sched' = [sched EXCEPT ![p] = "parked"]
  /\ UNCHANGED <<rows, jobVars, pool, wake, canc, handed, hooks, procVars>>

(* mark_running on the job taken: Ok(true) starts its runner; on Ok(false) *)
(* (cancelled or purged meanwhile) and on Err the reservation drops and    *)
(* the PreparedJob with it.                                                *)
PromoteRow(j) ==
  /\ pc[j] = "taken"
  /\ Update(j, MarkRunning(rows[j]))
  /\ IF CanMarkRunning(rows[j])
       THEN Goto(j, "start") /\ UNCHANGED <<slot, pool, wake>>
       ELSE Goto(j, "dropped") /\ DropSlot(j)
  /\ UNCHANGED <<home, registered, tripped, verdict, expired, sched, canc,
                 handed, hooks, procVars>>

PromoteFails(j) ==
  /\ DbFaults /\ pc[j] = "taken"
  /\ Goto(j, "dropped") /\ DropSlot(j)
  /\ UNCHANGED <<rows, home, registered, tripped, verdict, expired, sched,
                 canc, handed, hooks, procVars>>

-----------------------------------------------------------------------------
(* The runner thread.                                                      *)

StartRunner(j) ==
  /\ pc[j] = "start"
  /\ Goto(j, "run")
  /\ UNCHANGED <<rows, home, slot, registered, tripped, verdict, expired,
                 poolVars, canc, handed, hooks, procVars>>

(* The runtime could not be built: settle the row failed and go on to the  *)
(* hook and the injection whether or not the row was still active.         *)
RunnerFails(j) ==
  /\ BuildFaults /\ pc[j] = "start"
  /\ Update(j, Settle(rows[j], "failed"))
  /\ verdict' = [verdict EXCEPT ![j] = "failed"]
  /\ Goto(j, "wrapup")
  /\ UNCHANGED <<home, slot, registered, tripped, expired, poolVars, canc,
                 handed, hooks, procVars>>

Dispatching(j) == pc[j] \in {"run", "parked", "dismissed"}

(* run_tool_with_retry: an error seen with the token tripped is a cancel,  *)
(* whatever the error was.                                                 *)
Classify(err, cancelled) == IF cancelled THEN "cancelled" ELSE err

(* The parked approval is forgotten when the dispatch ends.                *)
EndDispatch(j, v) ==
  /\ verdict' = [verdict EXCEPT ![j] = v]
  /\ Goto(j, "settle")
  /\ UNCHANGED <<rows, home, slot, registered, poolVars, canc, handed, hooks,
                 procVars>>

(* The tool returned.  select! may take its result though the token is     *)
(* tripped.                                                                *)
ToolReturns(j) ==
  /\ pc[j] = "run"
  /\ \/ EndDispatch(j, "completed")
     \/ EndDispatch(j, Classify("failed", tripped[j]))
  /\ UNCHANGED <<tripped, expired>>

(* The token is tripped: the dispatch is dropped within the cleanup grace. *)
ToolCancelled(j) ==
  /\ Dispatching(j) /\ tripped[j]
  /\ EndDispatch(j, "cancelled")
  /\ UNCHANGED <<tripped, expired>>

(* max_job_secs is over (time parked on an approval does not count): trip  *)
(* the token, end the dispatch, let the retry layer classify the error.    *)
BudgetExpires(j) ==
  /\ JobBudget /\ pc[j] = "run" /\ ~tripped[j]
  /\ tripped' = [tripped EXCEPT ![j] = TRUE]
  /\ expired' = [expired EXCEPT ![j] = TRUE]
  /\ EndDispatch(j, Classify("timed_out", TRUE))

(* The command gate asks a human: on_park, then on_resume when the human   *)
(* lets it proceed.  A refusal ends the dispatch, leaving the row parked.  *)
ParkApproval(j) ==
  /\ j \in Asking /\ pc[j] = "run"
  /\ Update(j, Park(rows[j]))
  /\ Goto(j, "parked")
  /\ UNCHANGED <<home, slot, registered, tripped, verdict, expired, poolVars,
                 canc, handed, hooks, procVars>>

ResumeApproval(j) ==
  /\ pc[j] = "parked"
  /\ Update(j, Resume(rows[j]))
  /\ Goto(j, "run")
  /\ UNCHANGED <<home, slot, registered, tripped, verdict, expired, poolVars,
                 canc, handed, hooks, procVars>>

DenyApproval(j) ==
  /\ pc[j] = "parked"
  /\ EndDispatch(j, Classify("failed", tripped[j]))
  /\ UNCHANGED <<tripped, expired>>

(* As PollCancelFlag heeding the flag only once the row says so too.       *)
PollCancellingOnly(j) ==
  /\ Dispatching(j) /\ ~tripped[j] /\ rows[j].cancelRequested
  /\ rows[j].status = "cancelling"
  /\ tripped' = [tripped EXCEPT ![j] = TRUE]
  /\ UNCHANGED <<rows, home, pc, slot, registered, verdict, expired, poolVars,
                 canc, handed, hooks, procVars>>

(* The cross-process cancel watcher: another process's request seen.       *)
PollCancelFlag(j) ==
  /\ Dispatching(j) /\ ~tripped[j] /\ rows[j].cancelRequested
  /\ tripped' = [tripped EXCEPT ![j] = TRUE]
  /\ UNCHANGED <<rows, home, pc, slot, registered, verdict, expired, poolVars,
                 canc, handed, hooks, procVars>>

(* finalize_job, part 1: the guarded UPDATE decides who settled the row.   *)
(* A runner that lost the race (or met a database error) only drops its    *)
(* token.                                                                  *)
SettleRow(j) ==
  /\ pc[j] = "settle" /\ CanSettle(rows[j])
  /\ Update(j, Settle(rows[j], verdict[j]))
  /\ Goto(j, "wrapup")
  /\ UNCHANGED <<home, slot, registered, tripped, verdict, expired, poolVars,
                 canc, handed, hooks, procVars>>

(* As SettleLost with finalize going on after a lost race.                 *)
SettleLostGoesOn(j) ==
  /\ pc[j] = "settle"
  /\ DbFaults \/ ~CanSettle(rows[j])
  /\ registered' = [registered EXCEPT ![j] = FALSE]
  /\ Goto(j, "wrapup")
  /\ UNCHANGED <<rows, home, slot, tripped, verdict, expired, poolVars, canc,
                 handed, hooks, procVars>>

SettleLost(j) ==
  /\ pc[j] = "settle"
  /\ DbFaults \/ ~CanSettle(rows[j])
  /\ registered' = [registered EXCEPT ![j] = FALSE]
  /\ Goto(j, "exit")
  /\ UNCHANGED <<rows, home, slot, tripped, verdict, expired, poolVars, canc,
                 handed, hooks, procVars>>

(* As WrapUp handing over nothing but successes.                           *)
WrapUpSuccesses(j) ==
  /\ pc[j] = "wrapup"
  /\ registered' = [registered EXCEPT ![j] = FALSE]
  /\ FireHook(j)
  /\ handed' = [handed EXCEPT ![home[j]] =
       IF verdict[j] = "completed" /\ HasParent(j) THEN @ \cup {j} ELSE @]
  /\ Goto(j, "exit")
  /\ UNCHANGED <<rows, home, slot, tripped, verdict, expired, poolVars, canc,
                 procVars>>

(* Part 2: drop the token, notify, fire the hook, then hand the result to  *)
(* the parent session, or close the row when nobody is to be told.         *)
WrapUp(j) ==
  /\ pc[j] = "wrapup"
  /\ registered' = [registered EXCEPT ![j] = FALSE]
  /\ FireHook(j)
  /\ IF verdict[j] # "cancelled" /\ HasParent(j)
       THEN /\ handed' = [handed EXCEPT ![home[j]] = @ \cup {j}]
            /\ UNCHANGED rows
       ELSE Update(j, MarkInjected(rows[j])) /\ UNCHANGED handed
  /\ Goto(j, "exit")
  /\ UNCHANGED <<home, slot, tripped, verdict, expired, poolVars, canc,
                 procVars>>

(* The thread ends and with it the reservation.                            *)
ExitRunner(j) ==
  /\ pc[j] = "exit"
  /\ Goto(j, "done") /\ DropSlot(j)
  /\ UNCHANGED <<rows, home, registered, tripped, verdict, expired, sched,
                 canc, handed, hooks, procVars>>

(* The pipeline injects the result into the parent session and closes the  *)
(* row (on_injected -> mark_injected).                                     *)
InjectResult(p, j) ==
  /\ p \in up /\ j \in handed[p]
  /\ handed' = [handed EXCEPT ![p] = @ \ {j}]
  /\ Update(j, MarkInjected(rows[j]))
  /\ UNCHANGED <<jobVars, poolVars, canc, hooks, procVars>>

-----------------------------------------------------------------------------
(* cancel_job, called in process p on a job it may not own.                *)

CancelGoto(j, l) == canc' = [canc EXCEPT ![j].pc = l]

CancelOf(j, l) == canc[j].pc = l

BeginCancel(j, p) ==
  /\ j \in Cancellable /\ p \in up
  /\ CancelOf(j, "idle") /\ rows[j].status \in Active
  /\ canc' = [canc EXCEPT ![j] = [Idle EXCEPT !.pc = "unqueue", !.proc = p]]
  /\ UNCHANGED <<rows, jobVars, poolVars, handed, hooks, procVars>>

Owned(j) == canc[j].proc = home[j]

(* remove_queued: pulling the job out of the queue makes this call its     *)
(* owner; its token goes at once.                                          *)
CancelUnqueue(j) ==
  /\ CancelOf(j, "unqueue")
  /\ IF InQueue(pool[canc[j].proc], j)
       THEN /\ pool' = [pool EXCEPT ![canc[j].proc] = RemoveQueued(@, j)]
            /\ registered' = [registered EXCEPT ![j] = FALSE]
            /\ tripped' = [tripped EXCEPT ![j] = TRUE]
            /\ Goto(j, "unqueued")
            /\ CancelGoto(j, "settle")
       ELSE /\ CancelGoto(j, "flag")
            /\ UNCHANGED <<pool, registered, tripped, pc>>
  /\ UNCHANGED <<rows, home, slot, verdict, expired, wake, sched, handed,
                 hooks, procVars>>

(* set_cancel_requested.                                                   *)
CancelFlag(j) ==
  /\ CancelOf(j, "flag")
  /\ Update(j, RequestCancel(rows[j]))
  /\ CancelGoto(j, "trip")
  /\ UNCHANGED <<jobVars, poolVars, handed, hooks, procVars>>

(* cancel::cancel_job: only a token of this process is found.              *)
CancelTrip(j) ==
  /\ CancelOf(j, "trip")
  /\ LET found == Owned(j) /\ registered[j] IN
       /\ tripped' = [tripped EXCEPT ![j] = @ \/ found]
       /\ canc' = [canc EXCEPT ![j].pc = "dismiss", ![j].signalled = found]
  /\ UNCHANGED <<rows, home, pc, slot, registered, verdict, expired, poolVars,
                 handed, hooks, procVars>>

(* The approval dialog of a parked job is taken down.                      *)
CancelDismiss(j) ==
  /\ CancelOf(j, "dismiss")
  /\ IF Owned(j) /\ pc[j] = "parked" THEN Goto(j, "dismissed")
                                     ELSE UNCHANGED pc
  /\ CancelGoto(j, "mark")
  /\ UNCHANGED <<rows, home, slot, registered, tripped, verdict, expired,
                 poolVars, handed, hooks, procVars>>

(* As CancelMark without the early return when nothing was marked.         *)
CancelMarkGoesOn(j) ==
  /\ CancelOf(j, "mark")
  /\ Update(j, MarkCancelling(rows[j]))
  /\ IF ~canc[j].signalled THEN CancelGoto(j, "force")
                           ELSE canc' = [canc EXCEPT ![j] = Idle]
  /\ UNCHANGED <<jobVars, poolVars, handed, hooks, procVars>>

(* mark_cancelling; without a token here, go on to settle the row.         *)
CancelMark(j) ==
  /\ CancelOf(j, "mark")
  /\ Update(j, MarkCancelling(rows[j]))
  /\ IF CanMarkCancelling(rows[j]) /\ ~canc[j].signalled
       THEN CancelGoto(j, "force")
       ELSE canc' = [canc EXCEPT ![j] = Idle]
  /\ UNCHANGED <<jobVars, poolVars, handed, hooks, procVars>>

(* Settle the row of a job no runner of this process owns, or of one just  *)
(* pulled from the queue; the result of the UPDATE is not looked at.       *)
CancelSettle(j) ==
  /\ CancelOf(j, "settle") \/ CancelOf(j, "force")
  /\ Update(j, Settle(rows[j], "cancelled"))
  /\ CancelGoto(j, "announce")
  /\ UNCHANGED <<jobVars, poolVars, handed, hooks, procVars>>

(* Hook, mark_injected, notify.                                            *)
CancelAnnounce(j) ==
  /\ CancelOf(j, "announce")
  /\ FireHook(j)
  /\ Update(j, MarkInjected(rows[j]))
  /\ canc' = [canc EXCEPT ![j] = Idle]
  /\ IF pc[j] = "unqueued" THEN Goto(j, "done") ELSE UNCHANGED pc
  /\ UNCHANGED <<home, slot, registered, tripped, verdict, expired, poolVars,
                 handed, procVars>>

-----------------------------------------------------------------------------
(* purge_jobs_for_session: a burned session leaves neither queued contexts *)
(* nor injections still in the merge window nor rows.  Injections already  *)
(* dispatched go on, and will find their session gone.                     *)
PurgeSession(s, p) ==
  LET gone == {j \in Job : SessionOf[j] = s} IN
  /\ p \in up /\ s \in Burnable
  /\ \E j \in gone : rows[j] # NoRow
  /\ rows' = [j \in Job |-> IF j \in gone THEN NoRow ELSE rows[j]]
  /\ pc' = [j \in Job |-> IF j \in gone /\ InQueue(pool[p], j)
                            THEN "dropped" ELSE pc[j]]
  /\ pool' = [pool EXCEPT ![p] = RemoveQueuedForSession(@, s)]
  /\ \E buffered \in SUBSET (handed[p] \cap gone) :
       handed' = [handed EXCEPT ![p] = @ \ buffered]
  /\ UNCHANGED <<home, slot, registered, tripped, verdict, expired, wake,
                 sched, canc, hooks, procVars>>

-----------------------------------------------------------------------------
(* Processes.  The first one up takes runtime.lock and stays Primary until *)
(* it dies; a Secondary is never promoted.  Only a Primary replays, in a   *)
(* task spawned at start-up next to everything else.                       *)

StartProcess(p) ==
  /\ p \notin up
  /\ up' = up \cup {p}
  /\ IF primary = NoProc
       THEN /\ primary' = p
            /\ replay' = [replay EXCEPT ![p] = [NoReplay EXCEPT !.pc = "list"]]
       ELSE UNCHANGED <<primary, replay>>
  /\ UNCHANGED <<rows, jobVars, poolVars, canc, handed, hooks, crashes>>

(* Everything in the memory of p is lost; the table stays.                 *)
Crash(p) ==
  /\ p \in up /\ crashes < MaxCrashes
  /\ crashes' = crashes + 1
  /\ up' = up \ {p}
  /\ primary' = IF primary = p THEN NoProc ELSE primary
  /\ replay' = [replay EXCEPT ![p] = NoReplay]
  /\ pc' = [j \in Job |-> IF home[j] = p THEN "gone" ELSE pc[j]]
  /\ slot' = [j \in Job |-> IF home[j] = p THEN "none" ELSE slot[j]]
  /\ registered' = [j \in Job |-> registered[j] /\ home[j] # p]
  /\ pool' = [pool EXCEPT ![p] = EmptyPool]
  /\ wake' = [wake EXCEPT ![p] = FALSE]
  /\ sched' = [sched EXCEPT ![p] = "parked"]
  /\ canc' = [j \in Job |-> IF canc[j].proc = p THEN Idle ELSE canc[j]]
  /\ handed' = [handed EXCEPT ![p] = {}]
  /\ UNCHANGED <<rows, home, tripped, verdict, expired, hooks>>

ReplayGoto(p, l, S) ==
  replay' = [replay EXCEPT ![p] = [pc |-> l, work |-> S]]

(* As ReplayList, taking the name list_running at its word.                *)
ReplayListRunning(p) ==
  /\ replay[p].pc = "list"
  /\ ReplayGoto(p, "interrupt",
                {j \in Job : rows[j].status \in {"running", "cancelling"}})
  /\ UNCHANGED <<rows, jobVars, poolVars, canc, handed, hooks, up, primary,
                 crashes>>

(* list_running, then update_terminal(Interrupted) row by row.             *)
ReplayList(p) ==
  /\ replay[p].pc = "list"
  /\ ReplayGoto(p, "interrupt", {j \in Job : rows[j].status \in Active})
  /\ UNCHANGED <<rows, jobVars, poolVars, canc, handed, hooks, up, primary,
                 crashes>>

ReplayInterrupt(p, j) ==
  /\ replay[p].pc = "interrupt" /\ j \in replay[p].work
  /\ Update(j, Settle(rows[j], "interrupted"))
  /\ ReplayGoto(p, "interrupt", replay[p].work \ {j})
  /\ UNCHANGED <<jobVars, poolVars, canc, handed, hooks, up, primary, crashes>>

(* list_pending_injection, then each row: the hook its old process may     *)
(* not have fired, and its injection (none for a session purged since).    *)
ReplayPending(p) ==
  /\ replay[p].pc = "interrupt" /\ replay[p].work = {}
  /\ ReplayGoto(p, "dispatch", {j \in Job : PendingInjection(rows[j])})
  /\ UNCHANGED <<rows, jobVars, poolVars, canc, handed, hooks, up, primary,
                 crashes>>

ReplayDispatch(p, j) ==
  /\ replay[p].pc = "dispatch" /\ j \in replay[p].work
  /\ FireHook(j)
  /\ IF rows[j].status \in {"cancelled", "absent"} \/ ~HasParent(j)
       THEN Update(j, MarkInjected(rows[j])) /\ UNCHANGED handed
       ELSE /\ handed' = [handed EXCEPT ![p] = @ \cup {j}]
            /\ UNCHANGED rows
  /\ ReplayGoto(p, "dispatch", replay[p].work \ {j})
  /\ UNCHANGED <<jobVars, poolVars, canc, up, primary, crashes>>

ReplayEnds(p) ==
  /\ replay[p].pc = "dispatch" /\ replay[p].work = {}
  /\ replay' = [replay EXCEPT ![p] = NoReplay]
  /\ UNCHANGED <<rows, jobVars, poolVars, canc, handed, hooks, up, primary,
                 crashes>>

-----------------------------------------------------------------------------
(* Steps the program takes by itself.                                      *)
SpawnStep(j) == InsertRow(j) \/ InsertFails(j) \/ EnqueueJob(j) \/ RejectJob(j)

SchedulerStep(p) == WakeScheduler(p) \/ TakeJob(p) \/ SchedulerParks(p)

RunnerStep(j) ==
  \/ PromoteRow(j) \/ PromoteFails(j) \/ StartRunner(j) \/ RunnerFails(j)
  \/ SettleRow(j) \/ SettleLost(j) \/ WrapUp(j) \/ ExitRunner(j)

CancelStep(j) ==
  \/ CancelUnqueue(j) \/ CancelFlag(j) \/ CancelTrip(j) \/ CancelDismiss(j)
  \/ CancelMark(j) \/ CancelSettle(j) \/ CancelAnnounce(j)

ReplayStep(p) ==
  \/ ReplayList(p) \/ ReplayPending(p) \/ ReplayEnds(p)
  \/ \E j \in Job : ReplayInterrupt(p, j) \/ ReplayDispatch(p, j)

(* Steps of the tools, of the people and of the operating system.          *)
ToolStep(j) ==
  \/ ToolReturns(j) \/ BudgetExpires(j)
  \/ ParkApproval(j) \/ ResumeApproval(j) \/ DenyApproval(j)

Next ==
  \/ \E j \in Job :
       \/ SpawnStep(j) \/ RunnerStep(j) \/ ToolStep(j) \/ CancelStep(j)
       \/ ToolCancelled(j) \/ PollCancelFlag(j)
       \/ \E p \in Proc : Spawn(j, p) \/ Detach(j, p) \/ BeginCancel(j, p)
                          \/ InjectResult(p, j)
  \/ \E p \in Proc :
       \/ SchedulerStep(p) \/ ReplayStep(p) \/ StartProcess(p) \/ Crash(p)
       \/ \E s \in Session : PurgeSession(s, p)

Spec == Init /\ [][Next]_vars

(* The program's own threads and tasks run; a dispatch whose token is      *)
(* tripped ends within CANCEL_CLEANUP_GRACE; the cancel watcher polls.     *)
ProgramFairness ==
  /\ \A j \in Job :
       /\ WF_vars(SpawnStep(j)) /\ WF_vars(RunnerStep(j))
       /\ WF_vars(CancelStep(j))
       /\ WF_vars(ToolCancelled(j)) /\ WF_vars(PollCancelFlag(j))
  /\ \A p \in Proc :
       /\ WF_vars(WakeScheduler(p))
       /\ WF_vars(TakeJob(p) \/ SchedulerParks(p))
       /\ WF_vars(ReplayStep(p))

(* Every dispatch ends: max_job_secs and approval_timeout_secs are set.  A *)
(* dispatch may park again and again, but not for ever.                    *)
ToolFairness ==
  \A j \in Job : SF_vars(ToolReturns(j) \/ BudgetExpires(j))
                 /\ WF_vars(ResumeApproval(j) \/ DenyApproval(j))

(* Nothing is assumed of the tools.                                        *)
ProgramFairSpec == Spec /\ ProgramFairness

-----------------------------------------------------------------------------
(* Invariants.                                                             *)

Holders(p) == {j \in Job : home[j] = p /\ slot[j] # "none"}

HoldersIn(p, s) == {j \in Holders(p) : SessionOf[j] = s}

(* The counts of the pool are exactly the reservations alive: whichever    *)
(* way a job ends (finished, lost, refused, purged, cancelled, crashed),   *)
(* its slot is given back once.  SlotManager, SlotReservation::drop.       *)
SlotsBalanced ==
  \A p \in Proc :
    /\ pool[p].total = Cardinality(Holders(p))
    /\ \A s \in Session :
         pool[p].perSession[s] = Cardinality(HoldersIn(p, s))

(* Jobs admitted through try_reserve and try_take_next never exceed either *)
(* cap, however many detached calls were counted by force.                 *)
AdmissionCaps ==
  \A p \in Proc :
    LET admitted == {j \in Holders(p) : slot[j] = "admitted"} IN
    /\ Cap # 0 => Cardinality(admitted) <= Cap
    /\ SessionCap # 0 =>
         \A s \in Session :
           Cardinality({j \in admitted : SessionOf[j] = s}) <= SessionCap

(* A job waits in one place only: what is in the queue of a process was    *)
(* spawned there, is there once, holds no slot and is nobody else's.       *)
QueueExclusive ==
  \A p \in Proc :
    /\ IsInjective(pool[p].queue)
    /\ \A j \in Job : InQueue(pool[p], j) <=> pc[j] = "queued" /\ home[j] = p
    /\ \A j \in ToSet(pool[p].queue) : slot[j] = "none"

(* A job whose own thread is done, however it got there (refused by the    *)
(* queue or the database, pulled out by a cancel, finished, beaten to its  *)
(* row), left no token, no slot and no place in a queue behind.  (With the *)
(* types, so that the counts of a pool are natural numbers.)               *)
NothingLeaks ==
  /\ TypeOK
  /\ \A j \in Job :
       pc[j] = "done" => /\ slot[j] = "none" /\ ~registered[j]
                         /\ \A p \in Proc : ~InQueue(pool[p], j)

(* Whenever a queued job could be promoted the scheduler is draining or    *)
(* has a permit waiting: no wake-up is lost and the 5 s tick is only a     *)
(* fallback (slots.rs: "a wake that arrives between drains is not lost").  *)
NoLostWakeup ==
  \A p \in up : CanTake(pool[p]) => wake[p] \/ sched[p] = "draining"

(* Whoever holds the row of an active job will settle it: a thread on its  *)
(* way, the queue, the cancel call that pulled it from the queue, or the   *)
(* replay of the Primary, present or next.  An active row without one is   *)
(* stuck.                                                                  *)
Driven(j) ==
  \/ pc[j] \in {"enqueue", "queued", "taken", "start", "run", "parked",
                "dismissed", "settle"}
  \/ CancelOf(j, "settle")

ToBeInterrupted(j) ==
  \/ primary = NoProc
  \/ replay[primary].pc = "list"
  \/ replay[primary].pc = "interrupt" /\ j \in replay[primary].work

ActiveRowDriven ==
  \A j \in Job : rows[j].status \in Active => Driven(j) \/ ToBeInterrupted(j)

(* A cancelled job starts no turn of its parent session: no injection of   *)
(* it is ever on its way, also when a runner that was not reached by the   *)
(* cancel finishes later (mod.rs: "any late runner completion is ignored   *)
(* by update_terminal's active-status guard").                             *)
CancelledNotInjected ==
  \A p \in Proc : \A j \in handed[p] : rows[j].status # "cancelled"

(* Hooks see every terminal job, and see it once (contract H4): the runner *)
(* and the cancel calls never both announce it, and none of them settles   *)
(* it in silence.  Only while no process died: a crash between UPDATE and  *)
(* hook loses the announcement, and the replay may make one again.         *)
HookedOnce ==
  crashes = 0 =>
    \A j \in Job :
      /\ hooks[j] <= 1
      /\ rows[j].status \in Terminal =>
           hooks[j] = 1 \/ pc[j] = "wrapup" \/ CancelOf(j, "announce")

(* No result is forgotten: a settled row with its injection pending is on  *)
(* its way into a pipeline, or a replay will find it.                      *)
ToBeReplayed(j) ==
  \/ primary = NoProc
  \/ replay[primary].pc \in {"list", "interrupt"}
  \/ j \in replay[primary].work

NoResultForgotten ==
  \A j \in Job :
    PendingInjection(rows[j]) =>
      \/ \E p \in Proc : j \in handed[p]
      \/ pc[j] = "wrapup" \/ CancelOf(j, "announce") \/ ToBeReplayed(j)

(* A job that ran out of budget, and that nobody asked to cancel, settles  *)
(* timed_out (spawn.rs: "the job settles `TimedOut`").                     *)
BudgetReported ==
  \A j \in Job :
    expired[j] /\ ~rows[j].cancelRequested /\ rows[j].status \in Terminal =>
      rows[j].status = "timed_out"

-----------------------------------------------------------------------------
(* Action properties.                                                      *)

(* Jobs of one session leave the queue for a slot in the order in which    *)
(* they came.                                                              *)
Ahead(p, i, j) ==
  \E m, n \in DOMAIN pool[p].queue :
    m < n /\ pool[p].queue[m] = i /\ pool[p].queue[n] = j

SessionFifo ==
  [][\A p \in Proc : \A i, j \in Job :
       Ahead(p, i, j) /\ SessionOf[i] = SessionOf[j] /\ pc[i] = "queued" =>
         pc'[j] # "taken"]_vars

(* A restart interrupts only jobs whose host process is gone               *)
(* (app_init.rs: "mark `running` rows as interrupted (their host process   *)
(* is gone)").                                                             *)
InterruptsOnlyTheDead ==
  [][\A j \in Job :
       rows[j].status # "interrupted" /\ rows'[j].status = "interrupted" =>
         pc[j] \notin {"enqueue", "queued", "taken", "start", "run", "parked",
                      "dismissed"}]_vars

(* A cancel call does not return leaving behind an active row that nobody  *)
(* drives (mod.rs: "Mark it terminal so callers are not left with an       *)
(* un-cancellable row forever").                                           *)
CancelLeavesNoOrphan ==
  [][\A j \in Job :
       CancelStep(j) /\ canc'[j] = Idle /\ rows'[j].status \in Active =>
         Driven(j) \/ ToBeInterrupted(j)]_vars

-----------------------------------------------------------------------------
(* The rows follow the lifecycle the table promises.                       *)
Lifecycle == INSTANCE JobLifecycle

ImplementsLifecycle == Lifecycle!Spec

-----------------------------------------------------------------------------
(* Liveness.                                                               *)

(* If every dispatch ends, every row settles or disappears.                *)
EveryJobSettles ==
  ToolFairness =>
    \A j \in Job : rows[j].status \in Active ~> rows[j].status \notin Active

(* A cancel request reaches the runner in whatever process it lives and    *)
(* settles the row although no dispatch ends by itself: a token tripped,   *)
(* or a flag polled by a job promoted after the request.                   *)
CancelStopsTheRunner ==
  \A j \in Job :
    rows[j].status \in Active \ {"queued"} /\ rows[j].cancelRequested
      ~> rows[j].status \notin Active
=============================================================================

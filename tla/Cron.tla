--------------------------------- MODULE Cron ---------------------------------
(***************************************************************************)
(* Scheduled jobs: the scheduler thread of crates/ha-core/src/cron/        *)
(* scheduler.rs, the rows of cron/db.rs, the runs of cron/executor.rs and  *)
(* the cancel registry of cron/cancel.rs.                                  *)
(*                                                                         *)
(* A job's running_at is its running marker and, being the claim's         *)
(* timestamp, names the run: here runs are numbered in claim order.  Every *)
(* CronDB call is one transaction under its lock and one step.             *)
(*                                                                         *)
(* Not modelled: the runs of a session loop, edits of a job's schedule or  *)
(* payload, failing writes (the code drops most of their errors), a        *)
(* process other than the primary.  A claim's re-check that next_run_at    *)
(* still has the listed value is left out; a job due again is claimed.     *)
(***************************************************************************)
EXTENDS Integers, FiniteSets, Sequences

CONSTANTS
  Job,
  OneShot,       \* jobs with an `At` schedule; the others recur
  SlowDelivery,  \* jobs that may be claimed again while a run still delivers
  Cap,           \* cron.max_concurrent
  MaxFailures,   \* max_failures of each job; 0 is never
  MaxRuns,       \* bound: claims
  Manual,        \* bound: jobs that may be run by hand
  Editable,      \* bound: jobs the user may pause, resume or rename
  Cancellable,   \* bound: jobs whose run the user may cancel or delete
  MaxCalls,      \* bound: calls that cancel, delete, pause, resume or rename
  MaxCrashes     \* bound: crashes

ASSUME CronAssumption ==
  /\ OneShot \subseteq Job /\ SlowDelivery \subseteq Job
  /\ Manual \subseteq Job /\ Editable \subseteq Job
  /\ Cancellable \subseteq Job
  /\ Cap \in Nat \ {0} /\ MaxFailures \in Nat /\ MaxRuns \in Nat
  /\ MaxCalls \in Nat /\ MaxCrashes \in Nat

Run == 1..MaxRuns
None == 0            \* no run: a NULL running_at, an absent registration

VARIABLES
  status,    \* cron_jobs.status; "deleted" is a row that is gone
  next,      \* next_run_at: "null", "future", "due" or "late" (past the grace)
  passed,    \* one-shot jobs whose time has come
  failures,  \* consecutive_failures
  running,   \* running_at: the run that holds the marker, or None
  run,       \* the runs: job, where they are, terminal steps left, outcome
  log,       \* cron_run_logs: the row of each run
  live,      \* CANCELS: the run whose flag is registered
  pending,   \* PENDING_CANCELS: the run a placeholder names
  flagged,   \* runs whose cancel flag is set by a user
  sched,     \* the scheduler thread: where it is, its list, its free slots
  call,      \* a cancel or delete call: where it is and the run it read
  calls,     \* calls of the user, counted up to MaxCalls
  asked,     \* history: runs a cancel or delete call read as the marker
  fired,     \* history: scheduled runs of one-shot jobs whose turn started
  touched,   \* history: one-shot jobs the user edited or deleted
  crashes

rows == <<status, next, passed, failures>>
memory == <<live, pending, flagged>>
history == <<asked, touched, fired>>
vars == <<status, next, passed, failures, running, run, log, live, pending,
          flagged, sched, call, calls, asked, fired, touched, crashes>>

Steps == {"advance", "reschedule", "fail", "clear", "finish", "complete"}
Outcomes == {"success", "empty", "error", "cancelled"}
NoRun == [job |-> None, pc |-> "none", immediate |-> FALSE, todo |-> <<>>,
          outcome |-> "none"]

TypeOK ==
  /\ status \in [Job -> {"active", "paused", "disabled", "missed",
                         "completed", "deleted"}]
  /\ next \in [Job -> {"null", "future", "due", "late"}]
  /\ passed \subseteq OneShot
  /\ failures \in [Job -> 0..MaxRuns]
  /\ running \in [Job -> Run \cup {None}]
  /\ run \in [Run ->
       {NoRun} \cup
       [job : Job,
        pc : {"claimed", "drained", "opening", "turn", "ending",
              "unregister", "release", "over"},
        immediate : BOOLEAN,
        todo : Seq(Steps),
        outcome : Outcomes \cup {"none"}]]
  /\ log \in [Run -> {"none", "running"} \cup Outcomes]
  /\ live \in [Job -> Run \cup {None}]
  /\ pending \in [Job -> Run \cup {None}]
  /\ flagged \subseteq Run /\ asked \subseteq Run
  /\ sched \in [pc : {"orphans", "unmark", "reap", "list", "count", "claim"},
                list : SUBSET Job, slots : 0..Cap]
  /\ call \in [pc : {"idle", "cancel", "hold", "delete"}, job : Job,
               run : Run \cup {None}, then : {"idle", "delete"}]
  /\ calls \in 0..MaxCalls /\ crashes \in 0..MaxCrashes
  /\ touched \subseteq Job /\ fired \subseteq Run

Boot == [pc |-> "orphans", list |-> {}, slots |-> 0]
NoCall == [pc |-> "idle", job |-> CHOOSE j \in Job : TRUE, run |-> None,
           then |-> "idle"]

Init ==
  /\ status = [j \in Job |-> "active"]
  /\ next = [j \in Job |-> "future"]
  /\ passed = {} /\ failures = [j \in Job |-> 0]
  /\ running = [j \in Job |-> None]
  /\ run = [r \in Run |-> NoRun]
  /\ log = [r \in Run |-> "none"]
  /\ live = [j \in Job |-> None] /\ pending = [j \in Job |-> None]
  /\ flagged = {} /\ asked = {} /\ touched = {} /\ fired = {}
  /\ sched = Boot /\ call = NoCall /\ calls = 0 /\ crashes = 0

Alive(r) == run[r].pc \notin {"none", "over"}
(* A run that has not yet decided how it ends.                             *)
InTurn(r) == run[r].pc \in {"claimed", "drained", "opening", "turn"}
Exists(j) == status[j] # "deleted"
Scheduled(r) == ~run[r].immediate
(* What is kept of a run that is over.                                     *)
Past(r) == [job |-> run[r].job, pc |-> "over",
            immediate |-> run[r].immediate, todo |-> <<>>, outcome |-> "none"]

(* Assumed of jobs outside SlowDelivery: a run that has cleared its marker *)
(* delivers, and clears it again, before the next claim.                   *)
Delivered(j) ==
  \/ j \in SlowDelivery
  \/ \A r \in Run : run[r].job = j =>
       \A i \in DOMAIN run[r].todo : run[r].todo[i] # "clear"

-----------------------------------------------------------------------------
(* Time passes: an occurrence comes due, and is then missed by more than   *)
(* the grace.                                                              *)
ComeDue(j) ==
  /\ next[j] = "future"
  /\ next' = [next EXCEPT ![j] = "due"]
  /\ passed' = passed \cup ({j} \cap OneShot)
  /\ UNCHANGED <<status, failures, running, run, log, memory, sched, call,
                 calls, history, crashes>>

GrowLate(j) ==
  /\ j \in OneShot /\ next[j] = "due"
  /\ next' = [next EXCEPT ![j] = "late"]
  /\ UNCHANGED <<status, passed, failures, running, run, log, memory, sched,
                 call, calls, history, crashes>>

Due(j) ==
  /\ status[j] = "active" /\ running[j] = None /\ next[j] \in {"due", "late"}

(* The claim is the run's name: the next unused one.                       *)
NewRun(j, immediate) ==
  \E r \in Run :
    /\ run[r].pc = "none"
    /\ \A q \in 1..(r - 1) : run[q].pc # "none"
    /\ running' = [running EXCEPT ![j] = r]
    /\ run' = [run EXCEPT ![r] = [job |-> j, pc |-> "claimed",
                                  immediate |-> immediate, todo |-> <<>>,
                                  outcome |-> "none"]]

-----------------------------------------------------------------------------
(* The scheduler thread.  At startup: close the logs of dead runs, remove  *)
(* stale markers, and go on as at every tick.                              *)
RecoverOrphanedRuns ==
  /\ sched.pc = "orphans"
  /\ sched' = [sched EXCEPT !.pc = "unmark"]
  /\ log' = [r \in Run |-> IF log[r] = "running" THEN "error" ELSE log[r]]
  /\ UNCHANGED <<rows, running, run, memory, call, calls, history, crashes>>

ClearAllRunning ==
  /\ sched.pc = "unmark"
  /\ sched' = [sched EXCEPT !.pc = "reap"]
  /\ running' = [j \in Job |-> None]
  /\ UNCHANGED <<rows, run, log, memory, call, calls, history, crashes>>

(* As MarkMissed without running_at IS NULL.                               *)
MarkMissedAlsoRunning(j) ==
  j \in OneShot /\ status[j] = "active" /\ next[j] \in {"null", "late"}

(* A tick: one-shot jobs that can no longer fire are missed, due jobs are  *)
(* listed, the markers are counted, and jobs are claimed while slots last. *)
MarkMissed(j) ==
  /\ j \in OneShot /\ status[j] = "active" /\ running[j] = None
  /\ next[j] \in {"null", "late"}

Reap ==
  /\ sched.pc = "reap"
  /\ sched' = [sched EXCEPT !.pc = "list"]
  /\ status' = [j \in Job |-> IF MarkMissed(j) THEN "missed" ELSE status[j]]
  /\ UNCHANGED <<next, passed, failures, running, run, log, memory, call,
                 calls, history, crashes>>

ListDue ==
  /\ sched.pc = "list"
  /\ LET due == {j \in Job : Due(j)}
     IN sched' = [sched EXCEPT !.pc = IF due = {} THEN "reap" ELSE "count",
                               !.list = due]
  /\ UNCHANGED <<rows, running, run, log, memory, call, calls, history,
                 crashes>>

(* available_slots: what the markers leave of the cap.                     *)
AvailableSlots ==
  LET count == Cardinality({j \in Job : running[j] # None})
  IN IF count >= Cap THEN 0 ELSE Cap - count

CountRunning ==
  /\ sched.pc = "count"
  /\ sched' = [sched EXCEPT !.pc = "claim", !.slots = AvailableSlots]
  /\ UNCHANGED <<rows, running, run, log, memory, call, calls, history,
                 crashes>>

(* claim_scheduled_job_for_execution takes a slot of the pass.             *)
ClaimScheduled(j) ==
  /\ sched.pc = "claim" /\ sched.slots > 0
  /\ j \in sched.list /\ Due(j) /\ Delivered(j)
  /\ NewRun(j, FALSE)
  /\ next' = [next EXCEPT ![j] = IF j \in OneShot THEN "null" ELSE "future"]
  /\ sched' = [sched EXCEPT !.list = @ \ {j}, !.slots = @ - 1]
  /\ UNCHANGED <<status, passed, failures, log, memory, call, calls, history,
                 crashes>>

(* A listed job that is no longer due is skipped.                          *)
LoseClaim(j) ==
  /\ sched.pc = "claim" /\ sched.slots > 0
  /\ j \in sched.list /\ ~Due(j)
  /\ sched' = [sched EXCEPT !.list = @ \ {j}]
  /\ UNCHANGED <<rows, running, run, log, memory, call, calls, history,
                 crashes>>

(* No slot or no job left: the jobs not reached keep their schedule.       *)
EndPass ==
  /\ sched.pc = "claim" /\ (sched.slots = 0 \/ sched.list = {})
  /\ sched' = [pc |-> "reap", list |-> {}, slots |-> 0]
  /\ UNCHANGED <<rows, running, run, log, memory, call, calls, history,
                 crashes>>

Scheduler ==
  \/ RecoverOrphanedRuns \/ ClearAllRunning \/ Reap \/ ListDue \/ CountRunning
  \/ EndPass
  \/ \E j \in Job : ClaimScheduled(j) \/ LoseClaim(j)

(* As ClaimNow without running_at IS NULL.                                 *)
ClaimNowAnyway(j) ==
  /\ j \in Manual /\ Exists(j)
  /\ Delivered(j) /\ sched.pc \notin {"orphans", "unmark"}
  /\ NewRun(j, TRUE)
  /\ UNCHANGED <<rows, log, memory, sched, call, calls, history, crashes>>

(* execute_job_public: a run by hand, outside the slots and the schedule.  *)
(* Assumed to come after the startup's recovery.                           *)
ClaimNow(j) ==
  /\ j \in Manual /\ Exists(j) /\ running[j] = None
  /\ Delivered(j) /\ sched.pc \notin {"orphans", "unmark"}
  /\ NewRun(j, TRUE)
  /\ UNCHANGED <<rows, log, memory, sched, call, calls, history, crashes>>

-----------------------------------------------------------------------------
(* A run: cancel::register drains the job's placeholder, setting the flag  *)
(* only when it names this run, ...                                        *)
Drain(r) ==
  LET j == run[r].job
  IN /\ run[r].pc = "claimed"
     /\ run' = [run EXCEPT ![r].pc = "drained"]
     /\ pending' = [pending EXCEPT ![j] = None]
     /\ flagged' = IF pending[j] = r THEN flagged \cup {r} ELSE flagged
     /\ UNCHANGED <<rows, running, log, live, sched, call, calls, history,
                    crashes>>

(* ... then publishes the flag.                                            *)
Publish(r) ==
  /\ run[r].pc = "drained"
  /\ run' = [run EXCEPT ![r].pc = "opening"]
  /\ live' = [live EXCEPT ![run[r].job] = r]
  /\ UNCHANGED <<rows, running, log, pending, flagged, sched, call, calls,
                 history, crashes>>

(* The database steps that end a run, in the order the code makes them.  A *)
(* success or an error is delivered before its log is finished.            *)
Ending(r, outcome) ==
  LET scheduled == Scheduled(r)
      single == run[r].job \in OneShot
      When(p, steps) == IF p THEN steps ELSE <<>>
  IN CASE outcome = "success" ->
            When(scheduled, <<"advance", "clear">>)
              \o <<"finish", "clear">>
       [] outcome = "empty" ->
            When(scheduled, IF single THEN <<"advance">> ELSE <<"reschedule">>)
              \o <<"finish", "clear">>
       [] outcome = "error" ->
            <<"finish">> \o When(scheduled, <<"fail">>) \o <<"clear">>
       [] outcome = "cancelled" ->
            <<"finish", "clear">>
              \o When(scheduled /\ single, <<"complete">>)

End(r, outcome, steps) ==
  run' = [run EXCEPT ![r].pc = "ending", ![r].todo = steps,
                     ![r].outcome = outcome]

(* No agent, no session or no override: the turn never starts, and the job *)
(* is rescheduled without a failure.                                       *)
FailToStart(r) ==
  /\ run[r].pc = "opening"
  /\ End(r, "error", <<"finish">> \o
       (IF run[r].immediate THEN <<>> ELSE <<"reschedule">>) \o <<"clear">>)
  /\ UNCHANGED <<rows, running, log, memory, sched, call, calls, history,
                 crashes>>

(* The session and the run log exist: the turn starts.                     *)
OpenLog(r) ==
  /\ run[r].pc = "opening"
  /\ run' = [run EXCEPT ![r].pc = "turn"]
  /\ log' = [log EXCEPT ![r] = IF Exists(run[r].job) THEN "running" ELSE @]
  /\ fired' = IF Scheduled(r) /\ run[r].job \in OneShot THEN fired \cup {r}
              ELSE fired
  /\ UNCHANGED <<rows, running, memory, sched, call, calls, asked, touched,
                 crashes>>

(* The turn returns or times out.  With the flag set, empty text or an     *)
(* error is a cancellation and text is a success; a flag that is only set  *)
(* in the grace of a run that timed out leaves it an error.                *)
EndTurn(r) ==
  /\ run[r].pc = "turn"
  /\ \E outcome \in IF r \in flagged THEN {"cancelled", "success", "error"}
                                     ELSE {"success", "empty", "error"} :
       End(r, outcome, Ending(r, outcome))
  /\ UNCHANGED <<rows, running, log, memory, sched, call, calls, history,
                 crashes>>

(* The turn panics: only the guards run.                                   *)
Panic(r) ==
  /\ run[r].pc = "turn"
  /\ run' = [run EXCEPT ![r].pc = "unregister"]
  /\ UNCHANGED <<rows, running, log, memory, sched, call, calls, history,
                 crashes>>

-----------------------------------------------------------------------------
(* The steps that end a run.                                               *)
(* As AdvanceAfterSuccess without AND status='active'.                     *)
AdvanceWhateverStatus(j) ==
  IF Exists(j)
  THEN /\ status' = [status EXCEPT ![j] = IF j \in OneShot THEN "completed"
                                                            ELSE "active"]
       /\ next' = [next EXCEPT ![j] = IF j \in OneShot THEN "null"
                                                       ELSE "future"]
       /\ failures' = [failures EXCEPT ![j] = 0]
  ELSE UNCHANGED <<status, next, failures>>

(* update_after_run(true): nothing, for a job no longer active.            *)
AdvanceAfterSuccess(j) ==
  IF status[j] = "active"
  THEN /\ status' = [status EXCEPT ![j] = IF j \in OneShot THEN "completed"
                                                            ELSE "active"]
       /\ next' = [next EXCEPT ![j] = IF j \in OneShot THEN "null"
                                                       ELSE "future"]
       /\ failures' = [failures EXCEPT ![j] = 0]
  ELSE UNCHANGED <<status, next, failures>>

(* reschedule_without_failure: a one-shot job is tried again in a minute.  *)
Reschedule(j) ==
  /\ next' = [next EXCEPT ![j] = IF Exists(j) THEN "future" ELSE @]
  /\ UNCHANGED <<status, failures>>

(* As BackOffAfterFailure, but a one-shot job backs off like the others.   *)
BackOffOneShotToo(j) ==
  /\ Exists(j)
  /\ failures' = [failures EXCEPT ![j] = @ + 1]
  /\ next' = [next EXCEPT ![j] = "future"]
  /\ UNCHANGED status

(* update_after_run(false): a one-shot job is missed, a job at its limit   *)
(* disabled, any other backs off.                                          *)
BackOffAfterFailure(j) ==
  IF j \in OneShot
  THEN /\ status' = [status EXCEPT ![j] = "missed"]
       /\ next' = [next EXCEPT ![j] = "null"]
       /\ failures' = [failures EXCEPT ![j] = @ + 1]
  ELSE IF MaxFailures > 0 /\ failures[j] + 1 >= MaxFailures
  THEN /\ status' = [status EXCEPT ![j] = "disabled"]
       /\ failures' = IF status[j] = "disabled" THEN failures
                      ELSE [failures EXCEPT ![j] = @ + 1]
       /\ UNCHANGED next
  ELSE /\ failures' = [failures EXCEPT ![j] = @ + 1]
       /\ next' = [next EXCEPT ![j] = "future"]
       /\ UNCHANGED status

(* mark_job_completed.                                                     *)
Complete(j) ==
  /\ status' = [status EXCEPT ![j] = IF Exists(j) THEN "completed" ELSE @]
  /\ next' = [next EXCEPT ![j] = IF Exists(j) THEN "null" ELSE @]
  /\ UNCHANGED failures

FinishLog(r, outcome) ==
  log' = [log EXCEPT ![r] = IF Exists(run[r].job) THEN outcome ELSE @]

EndingStep(r) ==
  LET j == run[r].job
      step == Head(run[r].todo)
  IN /\ run[r].pc = "ending"
     /\ run' = [run EXCEPT ![r].todo = Tail(@),
                           ![r].pc = IF Len(run[r].todo) = 1 THEN "unregister"
                                     ELSE @]
     /\ \/ step = "advance" /\ AdvanceAfterSuccess(j)
           /\ UNCHANGED <<running, log>>
        \/ step = "reschedule" /\ Reschedule(j) /\ UNCHANGED <<running, log>>
        \/ step = "fail" /\ Exists(j) /\ BackOffAfterFailure(j)
           /\ UNCHANGED <<running, log>>
        \/ step = "fail" /\ ~Exists(j)
           /\ UNCHANGED <<status, next, failures, running, log>>
        \/ step = "complete" /\ Complete(j) /\ UNCHANGED <<running, log>>
        \/ step = "clear" /\ running' = [running EXCEPT ![j] = None]
           /\ UNCHANGED <<status, next, failures, log>>
        \/ step = "finish" /\ FinishLog(r, run[r].outcome)
           /\ UNCHANGED <<status, next, failures, running>>
     /\ UNCHANGED <<passed, memory, sched, call, calls, history, crashes>>

(* CancelRegistrationGuard: forget what still names this run.              *)
Unregister(r) ==
  LET j == run[r].job
  IN /\ run[r].pc = "unregister"
     /\ run' = [run EXCEPT ![r].pc = "release"]
     /\ live' = [live EXCEPT ![j] = IF @ = r THEN None ELSE @]
     /\ pending' = [pending EXCEPT ![j] = IF @ = r THEN None ELSE @]
     /\ UNCHANGED <<rows, running, log, flagged, sched, call, calls, history,
                    crashes>>

(* As Release, leaving the marker of a run that panicked.                  *)
ReleaseNothing(r) ==
  /\ run[r].pc = "release"
  /\ run' = [run EXCEPT ![r] = Past(r)]
  /\ flagged' = flagged \ {r} /\ asked' = asked \ {r}
  /\ UNCHANGED <<rows, running, log, live, pending, sched, call, calls, fired,
                 touched, crashes>>

(* RunningMarkerGuard: a run that did not end as planned still has its     *)
(* marker, and its log open.                                               *)
Release(r) ==
  LET j == run[r].job
  IN /\ run[r].pc = "release"
     /\ run' = [run EXCEPT ![r] = Past(r)]
     /\ flagged' = flagged \ {r} /\ asked' = asked \ {r}
     /\ IF running[j] = r
        THEN running' = [running EXCEPT ![j] = None] /\ FinishLog(r, "error")
        ELSE UNCHANGED <<running, log>>
     /\ UNCHANGED <<rows, live, pending, sched, call, calls, fired, touched,
                    crashes>>

RunStep(r) ==
  \/ Drain(r) \/ Publish(r) \/ FailToStart(r) \/ OpenLog(r) \/ EndTurn(r)
  \/ Panic(r) \/ EndingStep(r)
  \/ Unregister(r) \/ Release(r)

-----------------------------------------------------------------------------
(* cancel_running_job and delete_job read the marker first, ...            *)
Ask(j, then) ==
  /\ call.pc = "idle" /\ calls < MaxCalls
  /\ j \in Cancellable /\ Exists(j)
  /\ calls' = calls + 1
  /\ running[j] # None \/ then = "delete"
  /\ call' = [pc |-> IF running[j] # None THEN "cancel" ELSE then,
              job |-> j, run |-> running[j], then |-> then]
  /\ asked' = asked \cup ({running[j]} \cap Run)
  /\ UNCHANGED <<rows, running, run, log, memory, sched, fired, touched,
                 crashes>>

(* The call is over, or goes on to the deletion.                           *)
Answered == IF call.then = "idle" THEN NoCall
            ELSE [call EXCEPT !.pc = call.then, !.run = None]

(* As Cancel, flipping the registered flag whatever run it is.             *)
CancelAny ==
  LET j == call.job
  IN /\ call.pc = "cancel"
     /\ \/ live[j] # None
           /\ flagged' = flagged \cup {live[j]}
           /\ call' = Answered
        \/ live[j] = None
           /\ call' = [call EXCEPT !.pc = "hold"]
           /\ UNCHANGED flagged
     /\ UNCHANGED <<rows, running, run, log, live, pending, sched, calls,
                    history, crashes>>

(* ... then cancel::cancel looks at the registered flag: of that run, it   *)
(* is set; of another run, the call answers false; ...                     *)
Cancel ==
  LET j == call.job
  IN /\ call.pc = "cancel"
     /\ \/ live[j] = call.run
           /\ flagged' = flagged \cup {call.run}
           /\ call' = Answered
        \/ live[j] \notin {None, call.run}
           /\ call' = Answered
           /\ UNCHANGED flagged
        \/ live[j] = None
           /\ call' = [call EXCEPT !.pc = "hold"]
           /\ UNCHANGED flagged
     /\ UNCHANGED <<rows, running, run, log, live, pending, sched, calls,
                    history, crashes>>

(* ... and with no flag registered a placeholder is left for the run.      *)
Hold ==
  /\ call.pc = "hold"
  /\ pending' = [pending EXCEPT ![call.job] = call.run]
  /\ call' = Answered
  /\ UNCHANGED <<rows, running, run, log, live, flagged, sched, calls,
                 history, crashes>>

(* The row goes, and its run logs with it.                                 *)
Delete ==
  LET j == call.job
  IN /\ call.pc = "delete"
     /\ call' = NoCall
     /\ status' = [status EXCEPT ![j] = "deleted"]
     /\ next' = [next EXCEPT ![j] = "null"]
     /\ running' = [running EXCEPT ![j] = None]
     /\ log' = [r \in Run |-> IF run[r].job = j THEN "none" ELSE log[r]]
     /\ touched' = touched \cup ({j} \cap OneShot)
     /\ UNCHANGED <<passed, failures, run, memory, sched, calls, asked,
                    fired, crashes>>

(* toggle_job.                                                             *)
Pause(j) ==
  /\ j \in Editable /\ calls < MaxCalls /\ Exists(j)
  /\ status' = [status EXCEPT ![j] = "paused"]
  /\ calls' = calls + 1
  /\ touched' = touched \cup ({j} \cap OneShot)
  /\ UNCHANGED <<next, passed, failures, running, run, log, memory, sched,
                 call, asked, fired, crashes>>

(* A one-shot job whose time has passed is missed.                         *)
Resume(j) ==
  /\ j \in Editable /\ calls < MaxCalls /\ Exists(j)
  /\ LET gone == j \in passed
     IN /\ status' = [status EXCEPT ![j] = IF gone THEN "missed" ELSE "active"]
        /\ next' = [next EXCEPT ![j] = IF gone THEN "null" ELSE "future"]
  /\ failures' = [failures EXCEPT ![j] = 0]
  /\ calls' = calls + 1
  /\ touched' = touched \cup ({j} \cap OneShot)
  /\ UNCHANGED <<passed, running, run, log, memory, sched, call,
                 asked, fired, crashes>>

(* update_job with the schedule unchanged: an active one-shot job without  *)
(* a next run is missed, even while it runs.                               *)
Rename(j) ==
  /\ j \in Editable /\ calls < MaxCalls
  /\ status[j] = "active" /\ j \in OneShot /\ next[j] = "null"
  /\ status' = [status EXCEPT ![j] = "missed"]
  /\ calls' = calls + 1
  /\ touched' = touched \cup ({j} \cap OneShot)
  /\ UNCHANGED <<next, passed, failures, running, run, log, memory, sched,
                 call, asked, fired, crashes>>

(* The process dies with its tasks and its registry; the rows stay.        *)
Crash ==
  /\ crashes < MaxCrashes
  /\ crashes' = crashes + 1
  /\ run' = [r \in Run |-> IF Alive(r) THEN Past(r) ELSE run[r]]
  /\ live' = [j \in Job |-> None] /\ pending' = [j \in Job |-> None]
  /\ flagged' = {} /\ asked' = {}
  /\ sched' = Boot /\ call' = NoCall
  /\ UNCHANGED <<rows, running, log, calls, touched, fired>>

User ==
  \/ Cancel \/ Hold \/ Delete \/ Crash
  \/ \E j \in Job : \/ ClaimNow(j) \/ Pause(j) \/ Resume(j) \/ Rename(j)
                    \/ \E then \in {"idle", "delete"} : Ask(j, then)

Next ==
  \/ Scheduler
  \/ \E j \in Job : ComeDue(j) \/ GrowLate(j)
  \/ \E r \in Run : RunStep(r)
  \/ User

Spec == Init /\ [][Next]_vars

-----------------------------------------------------------------------------
(* No slot leaks: past the startup's recovery, a running marker is that of *)
(* a live run of its job, so a panicked or crashed run never starves the   *)
(* cap (executor.rs, RunningMarkerGuard).                                  *)
MarkerHasRun ==
  sched.pc \notin {"orphans", "unmark"} =>
    \A j \in Job : running[j] # None =>
      Alive(running[j]) /\ run[running[j]].job = j

(* A job has one turn at a time, between scheduled runs, runs by hand, the *)
(* early release before a delivery and restarts.                           *)
OneTurnPerJob ==
  \A q, r \in Run : InTurn(q) /\ InTurn(r) /\ run[q].job = run[r].job => q = r

(* A one-shot job fires once: whatever fails, times out, crashes or is     *)
(* resumed, the scheduler starts at most one turn of it                    *)
(* (db.rs:715-722, side-effect safety).                                    *)
OneShotRunsOnce ==
  \A q, r \in fired : run[q].job = run[r].job => q = r

(* A cancel flag is set only in the run whose marker the cancel call read, *)
(* whatever later run of the job took its place meanwhile.                 *)
CancelHitsItsRun == flagged \subseteq asked

(* No end of a run, no reap and no restart makes a paused, disabled or     *)
(* terminal job active again: only the user's resume does.  (db.rs:670-678 *)
(* says so of the success branch; db.rs:743-744 says otherwise of a run by *)
(* hand, see RerunReactivates.)                                            *)
NoRevival ==
  [][\A j \in Job : status[j] # "active" /\ status'[j] = "active"
                      => Resume(j)]_vars

(* What db.rs:743-744 says and the code does not do: a run by hand of a    *)
(* disabled job, when it succeeds, makes the job active again.  A run by   *)
(* hand never reaches update_after_run (executor.rs:592), and its success  *)
(* branch would not match a disabled row either (db.rs:697).               *)
RerunReactivates ==
  [][\A r \in Run :
       LET j == run[r].job IN
       /\ run[r].pc = "ending" /\ run'[r].pc = "unregister"
       /\ run[r].immediate /\ run[r].outcome = "success"
       /\ status[j] = "disabled"
       => status'[j] = "active"]_vars

(* A one-shot job that nobody touched and whose log says its scheduled run *)
(* delivered is completed, never missed: no tick reaps it while it runs    *)
(* (db.rs:1470-1483).                                                      *)
LogAgreesWithJob ==
  \A r \in Run :
    /\ log[r] \in {"success", "empty"} /\ Scheduled(r)
    /\ run[r].job \in OneShot \ touched
    => status[run[r].job] = "completed"

(* The scheduler keeps to the cap: slots are taken before the claims, and  *)
(* runs by hand or ending runs in between never let it exceed it.  (The    *)
(* marker of a deleted job goes with its row.)                             *)
CapHeld ==
  Cardinality({r \in Run : /\ InTurn(r) /\ Scheduled(r)
                           /\ Exists(run[r].job)}) <= Cap

(* Every log is closed: of a run that is over at once, of one that died    *)
(* with the process at the next startup.                                   *)
LogsClose ==
  sched.pc # "orphans" => \A r \in Run : log[r] = "running" => Alive(r)

(* The slots that the markers stand for: none is lost, none is invented.   *)
SlotsAreExact == TypeOK /\ MarkerHasRun /\ CapHeld

(* What the run logs say is true, and stays so across crashes.             *)
LogIsTrue == LogAgreesWithJob /\ LogsClose
================================================================================

---------------------------- MODULE SubagentRuns ----------------------------
(***************************************************************************)
(* Sub-agent runs of one parent session                                    *)
(* (crates/ha-core/src/subagent/{spawn,queue,cancel,mod,helpers}.rs,       *)
(* session/subagent_db.rs, the group and projection part of                *)
(* async_jobs/{manager,db,mod}.rs and tools/subagent.rs).                  *)
(*                                                                         *)
(* A run has a row in subagent_runs (the truth), a projection in           *)
(* background_jobs, perhaps an entry in the wait queue and a cancel flag   *)
(* in the registry.  The children of a batch_spawn share a Group job that  *)
(* completes when it is sealed and every projection is terminal, and       *)
(* reports all of them in one merged injection.  The threads: whoever      *)
(* spawns, the scheduler, the task of each run, and the cancel calls.      *)
(***************************************************************************)
EXTENDS Integers, Sequences, SequencesExt, FiniteSets, SeqFilter

CONSTANTS
  Run,        \* run ids
  Batch,      \* the runs one batch_spawn call spawns, one after another
  Seal,       \* the thread of that call
  Call,       \* cancel calls, bounding how many are made
  NoRun,
  Cap,        \* max_concurrent_for_agent
  MaxQueued,  \* MAX_QUEUED_SUBAGENTS
  Readable,   \* bound: runs whose result the parent may read before it is injected
  Target,     \* bound: runs that may be cancelled one by one
  Faulty,     \* bound: runs whose INSERT into background_jobs may fail
  MayRestart  \* TRUE: the program may stop and start again, once

Thread == Run \cup Call \cup {Seal}

ASSUME RunsAssumption ==
  /\ Batch \subseteq Run /\ Readable \subseteq Run
  /\ Target \subseteq Run /\ Faulty \subseteq Run
  /\ NoRun \notin Run /\ Seal \notin Run \cup Call /\ Run \cap Call = {}
  /\ Cap \in Nat \ {0} /\ MaxQueued \in Nat
  /\ MayRestart \in BOOLEAN

VARIABLES
  pc,      \* the thread that spawns the run, then the task that executes it
  row,     \* subagent_runs.status
  proj,    \* status of the kind=subagent projection
  grouped, \* the runs whose projection carries the group id
  flag,    \* SubagentCancelRegistry.flags
  out,     \* the outcome the task has determined, until it is over
  queue,   \* QUEUE
  sched,   \* run_subagent_scheduler: free slots and the entry it holds
  grp,     \* the Group row: status and sealed
  check,   \* try_complete_group, in the thread that settled a child
  call,    \* the cancel calls
  fetched, \* FETCHED_RUN_IDS
  solo,    \* history: individual injections of a run
  merged,  \* history: merged injections that report a run
  seen,    \* history: what happened to a run that the tables do not keep
  booted   \* the program has restarted

spawnVars == <<pc, out>>
tables    == <<row, proj, grouped, grp>>
memory    == <<flag, queue, sched, check, call, fetched>>
history   == <<solo, merged, seen, booted>>
vars      == <<spawnVars, tables, memory, history>>

(* Error and Timeout are treated alike everywhere.                         *)
Terminal == {"completed", "failed", "killed"}
Settled  == {"done", "cancelled", "interrupted"}

(* subagent_status_as_job, the outcomes other than a kill being one.       *)
AsJob(s) ==
  CASE s = "queued" -> "queued" [] s \in {"spawning", "running"} -> "running"
    [] s = "killed" -> "cancelled" [] OTHER -> "done"

Spawning == {"insert", "insertParked", "park"}
Tasked   == {"launch", "exec", "checking"}
PC == {"new", "parked", "done", "rejected", "lost"} \cup Spawning \cup Tasked

Kind == {"job", "group", "kill", "kill_all"}
CallAt == {"idle", "mark", "purge", "next", "claim", "signal", "stamp", "done"}

TypeOK ==
  /\ pc \in [Run -> PC]
  /\ row \in [Run -> {"none", "queued", "spawning", "running"} \cup Terminal]
  /\ proj \in [Run -> {"none", "queued", "running", "cancelling"} \cup Settled]
  /\ grouped \subseteq Run
  /\ flag \in [Run -> {"none", "clear", "tripped"}]
  /\ out \in [Run -> {"none"} \cup Terminal]
  /\ queue \in Seq(Run) /\ IsInjective(queue)
  /\ sched \in [free : 0 .. Cap, held : Run \cup {NoRun}]
  /\ grp \in [status : {"none", "running"} \cup Settled, sealed : BOOLEAN]
  /\ check \in [Thread -> {"none", "load", "claim"}]
  /\ call \in [Call -> [kind : Kind \cup {"none"}, at : CallAt,
                        run : Run \cup {NoRun}, todo : SUBSET Run]]
  /\ fetched \subseteq Run
  /\ solo \in [Run -> Nat] /\ merged \in [Run -> Nat]
  /\ seen \in [stamped : SUBSET Run, dropped : SUBSET Run,
               withdrawn : BOOLEAN]
  /\ booted \in BOOLEAN

Idle == [kind |-> "none", at |-> "idle", run |-> NoRun, todo |-> {}]

Init ==
  /\ pc = [r \in Run |-> "new"] /\ out = [r \in Run |-> "none"]
  /\ row = [r \in Run |-> "none"] /\ proj = [r \in Run |-> "none"]
  /\ grouped = {} /\ grp = [status |-> "none", sealed |-> FALSE]
  /\ flag = [r \in Run |-> "none"] /\ queue = <<>>
  /\ sched = [free |-> 0, held |-> NoRun]
  /\ check = [t \in Thread |-> "none"] /\ call = [c \in Call |-> Idle]
  /\ fetched = {}
  /\ solo = [r \in Run |-> 0] /\ merged = [r \in Run |-> 0]
  /\ seen = [stamped |-> {}, dropped |-> {},
             withdrawn |-> FALSE]
  /\ booted = FALSE

Goto(r, l) == pc' = [pc EXCEPT ![r] = l]

(* As Active with the parked runs counted.                                 *)
ActiveAndParked == {r \in Run : row[r] \in {"queued", "spawning", "running"}}

(* count_active_subagent_runs.                                             *)
Active == {r \in Run : row[r] \in {"spawning", "running"}}

(* sync_subagent_projection writes only over a projection that is open.    *)
SyncTo(r, s) ==
  proj' = [proj EXCEPT ![r] =
             IF @ \in Settled \cup {"none"} THEN @ ELSE AsJob(s)]

(* A terminal sync of a grouped child goes on to try_complete_group.       *)
CheckAfter(t, r) ==
  check' = [check EXCEPT ![t] = IF r \in grouped THEN "load" ELSE "none"]

(* group_children: the projections that carry the group id.                *)
Children == grouped

-----------------------------------------------------------------------------
(* spawn_subagent and batch_spawn.                                         *)

(* spawn_group, before the first child.                                    *)
SpawnGroup ==
  /\ grp.status = "none" /\ ~booted
  /\ \A r \in Batch : pc[r] = "new"
  /\ grp' = [grp EXCEPT !.status = "running"]
  /\ UNCHANGED <<spawnVars, row, proj, grouped, memory, history>>

(* Count the active runs and decide; the row is written later.  A batch    *)
(* spawns one child after another, once it has its group.                  *)
CountActive(r) ==
  /\ pc[r] = "new"
  /\ r \in Batch => /\ \A b \in Batch : pc[b] \notin Spawning
                    /\ grp.status # "none"
  /\ Goto(r, IF Cardinality(Active) < Cap THEN "insert"
             ELSE IF Len(queue) >= MaxQueued THEN "rejected"
             ELSE "insertParked")
  /\ UNCHANGED <<out, tables, memory, history>>

InsertRow(r) ==
  \/ pc[r] = "insert" /\ Goto(r, "launch")
     /\ row' = [row EXCEPT ![r] = "spawning"]
  \/ pc[r] = "insertParked" /\ Goto(r, "park")
     /\ row' = [row EXCEPT ![r] = "queued"]

(* The row and its projection.  The projection is best effort: a child     *)
(* without one is ungrouped.                                               *)
InsertRun(r) ==
  /\ InsertRow(r)
  /\ \/ /\ proj' = [proj EXCEPT ![r] = AsJob(row'[r])]
        /\ grouped' = IF r \in Batch THEN grouped \cup {r} ELSE grouped
     \/ r \in Faulty /\ UNCHANGED <<proj, grouped>>
  /\ UNCHANGED <<out, grp, memory, history>>

(* SubagentCancelRegistry::register: get or create.                        *)
Register(r) ==
  flag' = [flag EXCEPT ![r] = IF @ = "none" THEN "clear" ELSE @]

(* The flag first, then the queue.                                         *)
Enqueue(r) ==
  /\ pc[r] = "park" /\ Len(queue) < MaxQueued
  /\ Register(r)
  /\ queue' = Append(queue, r)
  /\ Goto(r, "parked")
  /\ UNCHANGED <<out, tables, sched, check, call, fetched, history>>

(* The queue filled since is_full: drop the flag and stamp the row.  The   *)
(* batch of a grouped child is not sealed yet, so that the check its sync  *)
(* makes returns at once.                                                  *)
EnqueueFull(r) ==
  /\ pc[r] = "park" /\ Len(queue) >= MaxQueued
  /\ flag' = [flag EXCEPT ![r] = "none"]
  /\ row' = [row EXCEPT ![r] = "killed"]
  /\ SyncTo(r, "killed")
  /\ Goto(r, "rejected")
  /\ UNCHANGED <<out, grouped, grp, queue, sched, check, call, fetched, history>>

(* As SealGroup without the check.                                         *)
SealOnly ==
  /\ grp.status # "none" /\ ~grp.sealed /\ ~booted
  /\ \A b \in Batch : pc[b] \notin Spawning \cup {"new"}
  /\ grp' = [grp EXCEPT !.sealed = TRUE]
  /\ UNCHANGED <<spawnVars, row, proj, grouped, memory, history>>

(* seal_group, after the last child, and its completion check.             *)
SealGroup ==
  /\ grp.status # "none" /\ ~grp.sealed /\ ~booted
  /\ \A b \in Batch : pc[b] \notin Spawning \cup {"new"}
  /\ grp' = [grp EXCEPT !.sealed = TRUE]
  /\ check' = [check EXCEPT ![Seal] = "load"]
  /\ UNCHANGED <<spawnVars, row, proj, grouped, flag, queue, sched, call,
                 fetched, history>>

-----------------------------------------------------------------------------
(* launch_subagent_run and the task it spawns.                             *)

(* The flag is the one registered when the run was parked.  The scheduler, *)
(* when it is the caller, has spent a slot.  The first write of the task   *)
(* it spawns is not guarded by the status of the row.                      *)
Launch(r) ==
  /\ pc[r] = "launch"
  /\ Register(r)
  /\ sched' = IF sched.held = r THEN [free |-> sched.free - 1, held |-> NoRun]
              ELSE sched
  /\ row' = [row EXCEPT ![r] = "running"]
  /\ SyncTo(r, "running")
  /\ Goto(r, "exec")
  /\ UNCHANGED <<out, grouped, grp, queue, check, call, fetched, history>>

(* execute_subagent returns, fails, panics or runs out of time.  An engine *)
(* whose flag is tripped before its last look at it returns an error, and  *)
(* an error with the flag tripped is a kill; a timeout and a panic are     *)
(* not.  update_subagent_status writes the row, again unguarded, then the  *)
(* projection, and goes on to the group.                                   *)
TaskEnds(r, o) ==
  /\ pc[r] = "exec"
  /\ o = "completed" => flag[r] # "tripped"
  /\ o = "killed" => flag[r] = "tripped"
  /\ out' = [out EXCEPT ![r] = o]
  /\ row' = [row EXCEPT ![r] = o]
  /\ SyncTo(r, o)
  /\ CheckAfter(r, r)
  /\ Goto(r, "checking")
  /\ UNCHANGED <<grouped, grp, flag, queue, sched, call, fetched, history>>

(* The flag is removed.  An ungrouped run that was not killed is injected  *)
(* on its own, unless the parent has read it (ParentInjection has the      *)
(* rest).                                                                  *)
TaskCleansUp(r) ==
  LET mine == r \notin grouped /\ out[r] # "killed"
  IN /\ pc[r] = "checking" /\ check[r] = "none"
     /\ flag' = [flag EXCEPT ![r] = "none"]
     /\ fetched' = IF mine THEN fetched \ {r} ELSE fetched
     /\ solo' = [solo EXCEPT ![r] = IF mine /\ r \notin fetched THEN @ + 1 ELSE @]
     /\ Goto(r, "done")
     /\ out' = [out EXCEPT ![r] = "none"]
     /\ UNCHANGED <<tables, queue, sched, check, call, merged, seen, booted>>

-----------------------------------------------------------------------------
(* try_complete_group, in thread t.                                        *)

ToCheck(t, l) == check' = [check EXCEPT ![t] = l]

(* As LoadGroup, asking only for the children that are there.              *)
LoadGroupUnsealed(t) ==
  /\ check[t] = "load"
  /\ ToCheck(t, IF /\ grp.status = "running"
                   /\ \A r \in Children : proj[r] \in Settled
                THEN "claim" ELSE "none")
  /\ UNCHANGED <<spawnVars, tables, flag, queue, sched, call, fetched, history>>

(* Nothing to do when the group is over, not sealed or still has an open   *)
(* child.                                                                  *)
LoadGroup(t) ==
  /\ check[t] = "load"
  /\ ToCheck(t, IF /\ grp.status = "running" /\ grp.sealed
                   /\ \A r \in Children : proj[r] \in Settled
                THEN "claim" ELSE "none")
  /\ UNCHANGED <<spawnVars, tables, flag, queue, sched, call, fetched, history>>

(* take_runs_fetched drains the marks of every child; all of them read     *)
(* means that there is nothing to say.                                     *)
Report ==
  /\ fetched' = fetched \ Children
  /\ merged' = [r \in Run |->
                  IF r \in Children /\ ~(Children \subseteq fetched)
                  THEN merged[r] + 1 ELSE merged[r]]

(* claim_group_completion has one winner, who makes the merged injection.  *)
ClaimGroup(t) ==
  /\ check[t] = "claim"
  /\ ToCheck(t, "none")
  /\ \/ /\ grp.status = "running"
        /\ grp' = [grp EXCEPT !.status = "done"] /\ Report
     \/ grp.status # "running" /\ UNCHANGED <<grp, fetched, merged>>
  /\ UNCHANGED <<spawnVars, row, proj, grouped, flag, queue, sched, call, solo,
                 seen, booted>>

-----------------------------------------------------------------------------
(* run_subagent_scheduler.  It is woken by every terminal status and has a *)
(* tick, so that it is always about to look again.                         *)

(* As MayCount with the runs that wait.                                    *)
MayCountParked ==
  /\ sched = [free |-> 0, held |-> NoRun]
  /\ queue # <<>> /\ Cardinality(ActiveAndParked) < Cap

(* What the scheduler may do next: look at the session, its pass being     *)
(* over, take an entry while slots are left, and settle the entry it took. *)
MayCount ==
  /\ sched = [free |-> 0, held |-> NoRun]
  /\ queue # <<>> /\ Cardinality(Active) < Cap

MayTake == sched.free > 0 /\ sched.held = NoRun

MayPromote(r) == sched.held = r /\ pc[r] = "parked"

(* The runs are counted once for the whole pass over a session.            *)
SchedulerCounts ==
  /\ MayCount
  /\ sched' = [sched EXCEPT !.free = Cap - Cardinality(Active)]
  /\ UNCHANGED <<spawnVars, tables, flag, queue, check, call, fetched, history>>

(* take_for_session.                                                       *)
SchedulerTakes ==
  /\ MayTake
  /\ \/ /\ queue = <<>>
        /\ sched' = [sched EXCEPT !.free = 0] /\ UNCHANGED queue
     \/ /\ queue # <<>>
        /\ sched' = [sched EXCEPT !.held = Head(queue)]
        /\ queue' = Tail(queue)
  /\ UNCHANGED <<spawnVars, tables, flag, check, call, fetched, history>>

(* As Promote with the status taken for granted.                           *)
PromoteBlindly(r) ==
  /\ MayPromote(r)
  /\ row' = [row EXCEPT ![r] = "spawning"]
  /\ SyncTo(r, "spawning")
  /\ Goto(r, "launch")
  /\ UNCHANGED <<out, grouped, grp, memory, history>>

(* promote: Queued to Spawning if the row is still Queued.                 *)
Promote(r) ==
  /\ MayPromote(r)
  /\ row[r] = "queued"
  /\ row' = [row EXCEPT ![r] = "spawning"]
  /\ SyncTo(r, "spawning")
  /\ Goto(r, "launch")
  /\ UNCHANGED <<out, grouped, grp, memory, history>>

(* A cancel call has stamped the row: the entry is dropped, the slot kept. *)
PromoteLost(r) ==
  /\ MayPromote(r)
  /\ row[r] # "queued"
  /\ sched' = [sched EXCEPT !.held = NoRun]
  /\ Goto(r, "rejected")
  /\ UNCHANGED <<out, tables, flag, queue, check, call, fetched, history>>

-----------------------------------------------------------------------------
(* Cancelling.                                                             *)

Begin(c, k, l, r) ==
  /\ call[c].at = "idle"
  /\ call' = [call EXCEPT ![c] = [@ EXCEPT !.kind = k, !.at = l, !.run = r]]

Step(c, l) == call' = [call EXCEPT ![c].at = l]

(* cancel_job of a projection: mark_cancelling, then request_cancel_run.   *)
CancelProjection(c, r) ==
  /\ proj[r] \in {"queued", "running", "cancelling"}
  /\ Begin(c, "job", "claim", r)
  /\ proj' = [proj EXCEPT ![r] = IF @ = "queued" THEN @ ELSE "cancelling"]
  /\ UNCHANGED <<spawnVars, row, grouped, grp, flag, queue, sched, check,
                 fetched, history>>

(* cancel_job of a group.                                                  *)
CancelGroup(c) ==
  /\ grp.status = "running"
  /\ Begin(c, "group", "mark", NoRun)
  /\ UNCHANGED <<spawnVars, tables, flag, queue, sched, check, fetched, history>>

(* As MarkGroup, the group left running while its children are cancelled.  *)
MarkGroupLater(c) ==
  /\ call[c].at = "mark"
  /\ call' = [call EXCEPT ![c] = [@ EXCEPT !.at = "next", !.todo = Children]]
  /\ UNCHANGED <<spawnVars, tables, flag, queue, sched, check, fetched, history>>

(* The group is terminal before any of its children is cancelled.          *)
MarkGroup(c) ==
  /\ call[c].at = "mark"
  /\ grp' = IF grp.status = "running" THEN [grp EXCEPT !.status = "cancelled"]
            ELSE grp
  /\ call' = [call EXCEPT ![c] = [@ EXCEPT !.at = "next", !.todo = Children]]
  /\ UNCHANGED <<spawnVars, row, proj, grouped, flag, queue, sched, check,
                 fetched, history>>

(* action_kill reads the row, then looks for the flag.                     *)
Kill(c, r) ==
  /\ row[r] \in {"queued", "spawning", "running"}
  /\ Begin(c, "kill", "signal", r)
  /\ UNCHANGED <<spawnVars, tables, flag, queue, sched, check, fetched, history>>

(* action_kill_all trips the flags of the active runs ...                  *)
KillAll(c) ==
  /\ Begin(c, "kill_all", "purge", NoRun)
  /\ flag' = [r \in Run |->
                IF r \in Active /\ flag[r] # "none" THEN "tripped" ELSE flag[r]]
  /\ UNCHANGED <<spawnVars, tables, queue, sched, check, fetched, history>>

(* ... and empties the queue, to cancel what was in it one by one.         *)
PurgeParked(c) ==
  /\ call[c].at = "purge"
  /\ queue' = <<>>
  /\ call' = [call EXCEPT ![c] = [@ EXCEPT !.at = "next", !.todo = ToSet(queue)]]
  /\ seen' = [seen EXCEPT !.dropped = @ \cup ToSet(queue)]
  /\ UNCHANGED <<spawnVars, tables, flag, sched, check, fetched, solo, merged,
                 booted>>

NextChild(c) ==
  /\ call[c].at = "next" /\ check[c] = "none"
  /\ \/ \E r \in call[c].todo :
          call' = [call EXCEPT ![c] = [@ EXCEPT !.at = "claim", !.run = r,
                                                !.todo = call[c].todo \ {r}]]
     \/ call[c].todo = {} /\ Step(c, "done")
  /\ UNCHANGED <<spawnVars, tables, flag, queue, sched, check, fetched, history>>

AfterCancel(c) == IF call[c].kind \in {"job", "kill"} THEN "done" ELSE "next"

(* request_cancel_run: remove_for_run takes a parked run from the          *)
(* scheduler; it has no engine to read its flag.                           *)
Unpark(c, after) ==
  LET r == call[c].run
      parked == r \in ToSet(queue)
  IN /\ call[c].at = "claim"
     /\ queue' = Without(queue, {r})
     /\ flag' = IF parked THEN [flag EXCEPT ![r] = "none"] ELSE flag
     /\ Step(c, IF parked THEN after ELSE "signal")
     /\ seen' = [seen EXCEPT !.withdrawn =
                   @ \/ (call[c].kind = "group" /\ proj[r] \notin Settled)]
     /\ UNCHANGED <<spawnVars, tables, sched, check, fetched, solo, merged,
                    booted>>

ClaimParked(c) == Unpark(c, "stamp")

(* A run with a flag settles by itself.  Without one it is stamped, by     *)
(* request_cancel_run after another look at the row.                       *)
Signal(c) ==
  LET r == call[c].run
      over == call[c].kind # "kill" /\ row[r] \in Terminal
  IN /\ call[c].at = "signal"
     /\ flag' = [flag EXCEPT ![r] = IF @ = "none" THEN @ ELSE "tripped"]
     /\ Step(c, IF flag[r] # "none" \/ over THEN AfterCancel(c) ELSE "stamp")
     /\ UNCHANGED <<spawnVars, tables, queue, sched, check, fetched, history>>

(* stamp_run_killed: update_subagent_status writes whatever the row is.    *)
Stamp(c) ==
  LET r == call[c].run
  IN /\ call[c].at = "stamp"
     /\ row' = [row EXCEPT ![r] = "killed"]
     /\ SyncTo(r, "killed")
     /\ CheckAfter(c, r)
     /\ Step(c, AfterCancel(c))
     /\ seen' = [seen EXCEPT !.stamped =
                   IF row[r] = "queued" THEN @ \cup {r} ELSE @]
     /\ UNCHANGED <<spawnVars, grouped, grp, flag, queue, sched, fetched, solo,
                    merged, booted>>

-----------------------------------------------------------------------------
(* The parent reads a result (action_check, action_result, wait_all).      *)
MarkFetched(r) ==
  /\ r \in Readable /\ row[r] \in Terminal /\ solo[r] + merged[r] = 0
  /\ fetched' = fetched \cup {r}
  /\ UNCHANGED <<spawnVars, tables, flag, queue, sched, check, call, history>>

(* The program stops and starts again as Primary: cleanup_orphan_runs      *)
(* fails the runs that had not ended, replay_pending_jobs interrupts their *)
(* projections and the group.  Nothing else of it is left, and what comes  *)
(* next is another history.                                                *)
Restart ==
  /\ MayRestart /\ ~booted /\ booted' = TRUE
  /\ row' = [r \in Run |-> IF row[r] = "none" \/ row[r] \in Terminal THEN row[r]
                           ELSE "failed"]
  /\ proj' = [r \in Run |-> IF proj[r] = "none" \/ proj[r] \in Settled THEN proj[r]
                            ELSE "interrupted"]
  /\ grp' = IF grp.status = "running" THEN [grp EXCEPT !.status = "interrupted"]
            ELSE grp
  /\ pc' = [r \in Run |-> IF pc[r] \in {"done", "rejected"} THEN pc[r] ELSE "lost"]
  /\ flag' = [r \in Run |-> "none"] /\ queue' = <<>>
  /\ sched' = [free |-> 0, held |-> NoRun]
  /\ check' = [t \in Thread |-> "none"] /\ fetched' = {}
  /\ call' = [c \in Call |-> [Idle EXCEPT !.at = "done"]]
  /\ out' = [r \in Run |-> "none"]
  /\ UNCHANGED <<grouped, solo, merged, seen>>

-----------------------------------------------------------------------------
SpawnStep(r) == InsertRun(r) \/ Enqueue(r) \/ EnqueueFull(r)

TaskStep(r) ==
  \/ Launch(r) \/ TaskCleansUp(r)
  \/ \E o \in Terminal : TaskEnds(r, o)

CheckStep(t) == LoadGroup(t) \/ ClaimGroup(t)

SchedulerStep ==
  \/ SchedulerCounts \/ SchedulerTakes
  \/ \E r \in Run : Promote(r) \/ PromoteLost(r)

CallBegins(c) ==
  \/ \E r \in Target : CancelProjection(c, r) \/ Kill(c, r)
  \/ CancelGroup(c) \/ KillAll(c)

CallStep(c) ==
  \/ MarkGroup(c) \/ PurgeParked(c) \/ NextChild(c) \/ ClaimParked(c)
  \/ Signal(c) \/ Stamp(c)

Next ==
  \/ SpawnGroup \/ SealGroup \/ SchedulerStep \/ Restart
  \/ \E r \in Run : CountActive(r) \/ SpawnStep(r) \/ TaskStep(r) \/ MarkFetched(r)
  \/ \E t \in Thread : CheckStep(t)
  \/ \E c \in Call : CallBegins(c) \/ CallStep(c)

Spec == Init /\ [][Next]_vars

-----------------------------------------------------------------------------
(* A result reaches the parent at most once: in the injection of the run   *)
(* or in the merged one of its batch, and that is made once.               *)
OneDelivery == \A r \in Run : solo[r] + merged[r] <= 1

(* The merged injection speaks for the whole batch: when it is made every  *)
(* child has been spawned and none is open.                                *)
MergedIsComplete ==
  \A r \in Run : merged[r] > 0 =>
    \A b \in Batch : /\ pc[b] \notin Spawning \cup {"new"}
                     /\ proj[b] \in Settled \cup {"none"}

(* A parked run that a cancel call stamped is never launched, whether the  *)
(* call came before the queue, in it or while the scheduler held the run.  *)
KilledParkedNeverRuns ==
  \A r \in seen.stamped : pc[r] \notin Tasked \cup {"done"}

(* A batch the user cancelled while a child was open sends no message.     *)
CancelledGroupSilent == seen.withdrawn => \A r \in Run : merged[r] = 0

(* A run whose row says Queued is in the queue, or a thread is about to    *)
(* put it there, to promote it or to stamp it, unless kill_all dropped it. *)
Tracked(r) ==
  \/ r \in ToSet(queue) \/ sched.held = r \/ pc[r] \in Spawning
  \/ \E c \in Call : call[c].run = r /\ call[c].at = "stamp"

QueuedIsTracked ==
  \A r \in Run : row[r] = "queued" => Tracked(r) \/ r \in seen.dropped

(* What action_kill_all says of the parked runs it purges ("stamp each     *)
(* terminal"): when the call is over none of them is left Queued.          *)
KillAllStampsParked ==
  \A r \in seen.dropped :
    row[r] = "queued" => \E c \in Call : call[c].kind = "kill_all" /\ call[c].at # "done"

(* A batch comes to an end: when it is sealed and its last open child has  *)
(* settled, some thread is about to find that out, whichever it is.        *)
GroupIsNoticed ==
  (/\ grp.status = "running" /\ grp.sealed
   /\ \A r \in Children : proj[r] \in Settled) => \E t \in Thread : check[t] # "none"

(* A parked run is not left waiting: either a guard of the scheduler holds *)
(* (with TypeOK, that SchedulerStep is enabled), or a task or a spawn is   *)
(* under way, whose end will let it.                                       *)
SchedulerMayMove == MayCount \/ MayTake \/ \E r \in Run : MayPromote(r)

ParkedLeaves ==
  queue # <<>> =>
    SchedulerMayMove \/ \E r \in Run : pc[r] \in Tasked \cup Spawning

(* A row that counts against the limit belongs to a run that a thread is   *)
(* launching or executing: no slot is lost for ever.                       *)
ActiveHasTask == \A r \in Active : pc[r] \in Tasked

(* No result is stranded: a run that ended with one, and that nobody read, *)
(* was injected, or its group, which sees it, has yet to report or was     *)
(* cancelled or lost in a restart.                                         *)
NoResultStranded ==
  \A r \in Run \ Readable :
    pc[r] = "done" /\ row[r] \in {"completed", "failed"} =>
      \/ solo[r] + merged[r] > 0
      \/ /\ r \in grouped /\ proj[r] # "none"
         /\ grp.status \in {"running", "cancelled", "interrupted"}

(* The result of a run is told once, and the merged one is complete.       *)
DeliveredOnce == OneDelivery /\ MergedIsComplete

(* No run waits for ever: whatever its row says, somebody will change it.  *)
RowsAreDriven == TypeOK /\ QueuedIsTracked /\ ActiveHasTask /\ ParkedLeaves

(* No result waits for ever, in a batch or alone.                          *)
ResultsArrive == GroupIsNoticed /\ NoResultStranded
=============================================================================

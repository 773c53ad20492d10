----------------------------- MODULE Completions ------------------------------
(***************************************************************************)
(* From the end of a background job to the turn that tells it              *)
(* (crates/ha-core/src/async_jobs/injection.rs): the completion is         *)
(* buffered in the merge window of its session, and the flush dispatches   *)
(* it, alone or merged, under a claim that keeps two dispatches of one job *)
(* apart.  What a dispatch then does in the parent session is              *)
(* ParentInjection; here it tells its results, closes them untold, is      *)
(* deferred behind another injection or is abandoned.  A restart loses     *)
(* everything but the rows, which replay_pending_jobs dispatches again.    *)
(***************************************************************************)
EXTENDS Integers, Sequences, SequencesExt, FiniteSets

CONSTANTS
  Job,         \* background jobs that have a parent session
  Session,     \* parent sessions
  SessionOf,   \* the session of each job
  Mortal,      \* bound: sessions that may be deleted
  Unmarkable,  \* bound: jobs whose mark_injected may fail
  MaxCrashes   \* bound: crashes of the process

ASSUME CompletionsAssumption ==
  /\ SessionOf \in [Job -> Session]
  /\ Mortal \subseteq Session /\ Unmarkable \subseteq Job /\ MaxCrashes \in Nat

VARIABLES
  row,         \* background_jobs: also "left", active with its process dead
  injected,    \* background_jobs.injected
  alive,       \* sessions that exist
  settling,    \* finalize_job: ended jobs it has not enqueued yet
  buffer,      \* merge_buffers: an open window is one that is not empty
  timers,      \* the timer threads of each session
  dispatching, \* dispatching_set
  attempt,     \* dispatches, by origin and (first) job
  replay,      \* where replay_pending_jobs is
  listed,      \* the jobs it still has to dispatch
  told,        \* history: turns that told a result since the last restart
  abandoned,   \* history: results this process gave up telling
  relisted,    \* history: what the replay of this process listed
  crashes

toldVars == <<told, abandoned>>
memVars == <<settling, buffer, timers, dispatching, attempt>>
replayVars == <<replay, listed, relisted, crashes>>
vars == <<row, injected, alive, memVars, replayVars, toldVars>>

(* A dispatch is named by what started it: the flush of a window (or the   *)
(* immediate dispatch) that began with a job, or the replay of a job.      *)
Origin == {"live", "replay"} \X Job

NoAttempt == [pc |-> "none", jobs |-> {}, todo |-> {}, holds |-> FALSE]

TypeOK ==
  /\ row \in [Job -> {"none", "active", "left", "terminal", "gone"}]
  /\ injected \subseteq Job /\ alive \subseteq Session
  /\ settling \subseteq Job
  /\ \A s \in Session : /\ buffer[s] \in Seq(Job) /\ IsInjective(buffer[s])
                        /\ \A j \in ToSet(buffer[s]) : SessionOf[j] = s
  /\ timers \in [Session -> Nat]
  /\ dispatching \subseteq Job
  /\ attempt \in [Origin -> [
       pc : {"none", "single", "batch", "claim", "running", "deferred",
             "marking"},
       jobs : SUBSET Job, todo : SUBSET Job, holds : BOOLEAN]]
  /\ replay \in {"interrupt", "list", "dispatch", "done"}
  /\ listed \subseteq Job /\ relisted \subseteq Job
  /\ abandoned \subseteq Job /\ told \in [Job -> Nat] /\ crashes \in 0 .. MaxCrashes

Init ==
  /\ row = [j \in Job |-> "none"]
  /\ injected = {} /\ alive = Session
  /\ settling = {}
  /\ buffer = [s \in Session |-> <<>>]
  /\ timers = [s \in Session |-> 0]
  /\ dispatching = {}
  /\ attempt = [a \in Origin |-> NoAttempt]
  /\ replay = "done" /\ listed = {} /\ relisted = {}
  /\ told = [j \in Job |-> 0] /\ abandoned = {} /\ crashes = 0

-----------------------------------------------------------------------------
(* The job, and finalize_job.                                              *)

Spawn(j) ==
  /\ row[j] = "none" /\ SessionOf[j] \in alive
  /\ row' = [row EXCEPT ![j] = "active"]
  /\ UNCHANGED <<injected, alive, memVars, replayVars, toldVars>>

(* update_terminal; it does nothing to a row that is not active.           *)
Settle(j) ==
  /\ row[j] = "active"
  /\ row' = [row EXCEPT ![j] = "terminal"]
  /\ settling' = settling \cup {j}
  /\ UNCHANGED <<injected, alive, buffer, timers, dispatching,
                 attempt, replayVars, toldVars>>

(* dispatch_injection and dispatch_merged_injection begin.                 *)
StartAttempt(a, pc, J) ==
  attempt' = [attempt EXCEPT ![a] =
    [pc |-> pc, jobs |-> J, todo |-> J, holds |-> FALSE]]

(* As JoinWindow replacing what the window holds.                          *)
JoinWindowOver(j) ==
  /\ j \in settling /\ buffer[SessionOf[j]] # <<>>
  /\ settling' = settling \ {j}
  /\ buffer' = [buffer EXCEPT ![SessionOf[j]] = <<j>>]
  /\ UNCHANGED <<row, injected, alive, timers, dispatching,
                 attempt, replayVars, toldVars>>

(* enqueue_injection: an open window is joined, whatever the setting is    *)
(* now; otherwise a window is opened with its timer, or, when merging is   *)
(* switched off, the job is dispatched at once.                            *)
JoinWindow(j) ==
  /\ j \in settling /\ buffer[SessionOf[j]] # <<>>
  /\ settling' = settling \ {j}
  /\ buffer' = [buffer EXCEPT ![SessionOf[j]] = Append(@, j)]
  /\ UNCHANGED <<row, injected, alive, timers, dispatching,
                 attempt, replayVars, toldVars>>

OpenWindow(j) ==
  /\ j \in settling /\ buffer[SessionOf[j]] = <<>>
  /\ settling' = settling \ {j}
  /\ buffer' = [buffer EXCEPT ![SessionOf[j]] = <<j>>]
  /\ timers' = [timers EXCEPT ![SessionOf[j]] = @ + 1]
  /\ UNCHANGED <<row, injected, alive, dispatching, attempt,
                 replayVars, toldVars>>

DispatchAtOnce(j) ==
  /\ j \in settling /\ buffer[SessionOf[j]] = <<>>
  /\ settling' = settling \ {j}
  /\ StartAttempt(<<"live", j>>, "single", {j})
  /\ UNCHANGED <<row, injected, alive, buffer, timers, dispatching,
                 replayVars, toldVars>>

(* flush_merge_buffer: take what the window holds and dispatch it.         *)
Flush(s) ==
  LET J == ToSet(buffer[s])
  IN /\ timers[s] > 0
     /\ timers' = [timers EXCEPT ![s] = @ - 1]
     /\ buffer' = [buffer EXCEPT ![s] = <<>>]
     /\ IF J = {} THEN UNCHANGED attempt
        ELSE StartAttempt(<<"live", Head(buffer[s])>>,
                          IF Cardinality(J) = 1 THEN "single" ELSE "batch", J)
     /\ UNCHANGED <<row, injected, alive, settling, dispatching,
                    replayVars, toldVars>>

-----------------------------------------------------------------------------
(* Dispatches.                                                             *)

Update(a, rec) == attempt' = [attempt EXCEPT ![a] = rec]

(* DispatchGuard: a thread that ends gives its claims back.                *)
ReleaseClaims(a) ==
  dispatching' = dispatching \ (IF attempt[a].holds THEN attempt[a].jobs ELSE {})

(* Ghost-turn gate: the parent session is gone, so every row is marked.    *)
SkipGhost(a) ==
  /\ attempt[a].pc \in {"single", "batch"}
  /\ \E j \in attempt[a].jobs : SessionOf[j] \notin alive
  /\ Update(a, [attempt[a] EXCEPT !.pc = "marking", !.todo = attempt[a].jobs])
  /\ UNCHANGED <<row, injected, alive, settling, buffer, timers,
                 dispatching, replayVars, toldVars>>

(* try_claim_dispatch in dispatch_injection: a job with a dispatch in      *)
(* flight is left to it.                                                   *)
ClaimSingle(a) ==
  /\ attempt[a].pc = "single"
  /\ IF attempt[a].jobs \cap dispatching # {}
     THEN Update(a, NoAttempt) /\ UNCHANGED dispatching
     ELSE /\ Update(a, [attempt[a] EXCEPT !.pc = "running", !.todo = {},
                                          !.holds = TRUE])
          /\ dispatching' = dispatching \cup attempt[a].jobs
  /\ UNCHANGED <<row, injected, alive, settling, buffer, timers,
                 replayVars, toldVars>>

PassGate(a) ==
  /\ attempt[a].pc = "batch"
  /\ Update(a, [attempt[a] EXCEPT !.pc = "claim"])
  /\ UNCHANGED <<row, injected, alive, settling, buffer, timers,
                 dispatching, replayVars, toldVars>>

(* One by one, a batch drops the jobs whose dispatch is in flight.         *)
ClaimBatch(a, j) ==
  /\ attempt[a].pc = "claim" /\ j \in attempt[a].todo
  /\ Update(a, [attempt[a] EXCEPT !.todo = @ \ {j}, !.holds = TRUE,
                  !.jobs = IF j \in dispatching THEN @ \ {j} ELSE @])
  /\ dispatching' = dispatching \cup {j}
  /\ UNCHANGED <<row, injected, alive, settling, buffer, timers,
                 replayVars, toldVars>>

(* None is left; or one, which gives its claim back and is dispatched as a *)
(* single job; or the batch goes on.                                       *)
SortOut(a) ==
  LET J == attempt[a].jobs
  IN /\ attempt[a].pc = "claim" /\ attempt[a].todo = {}
     /\ dispatching' = IF Cardinality(J) = 1 THEN dispatching \ J ELSE dispatching
     /\ CASE J = {} -> Update(a, NoAttempt)
          [] Cardinality(J) = 1 -> StartAttempt(a, "single", J)
          [] OTHER -> Update(a, [attempt[a] EXCEPT !.pc = "running"])
     /\ UNCHANGED <<row, injected, alive, settling, buffer, timers,
                    replayVars, toldVars>>

(* inject_and_run_parent, in the thread of the dispatch or, once deferred, *)
(* in that of a later flush.  The turn ends well and on_injected is called.*)
Injecting(a) == attempt[a].pc \in {"running", "deferred"}

StartMarking(a) ==
  Update(a, [attempt[a] EXCEPT !.pc = "marking", !.todo = attempt[a].jobs])

Turn(a) ==
  /\ Injecting(a)
  /\ \A j \in attempt[a].jobs : SessionOf[j] \in alive
  /\ told' = [j \in Job |-> told[j] + (IF j \in attempt[a].jobs THEN 1 ELSE 0)]
  /\ StartMarking(a)
  /\ UNCHANGED <<row, injected, alive, settling, buffer, timers,
                 dispatching, replayVars, abandoned>>

(* The session left meanwhile: handled without a turn.                     *)
CloseUntold(a) ==
  /\ Injecting(a)
  /\ \E j \in attempt[a].jobs : SessionOf[j] \notin alive
  /\ StartMarking(a)
  /\ UNCHANGED <<row, injected, alive, settling, buffer, timers,
                 dispatching, replayVars, toldVars>>

(* Queued behind another injection, or cancelled by a user's turn: the     *)
(* thread ends, and its guard with it; the callback stays in the queue.    *)
Defer(a) ==
  /\ attempt[a].pc = "running"
  /\ Update(a, [attempt[a] EXCEPT !.pc = "deferred", !.holds = FALSE])
  /\ ReleaseClaims(a)
  /\ UNCHANGED <<row, injected, alive, settling, buffer, timers,
                 replayVars, toldVars>>

(* As Abandon calling on_injected.                                         *)
AbandonAsDone(a) ==
  /\ Injecting(a)
  /\ StartMarking(a)
  /\ UNCHANGED <<row, injected, alive, settling, buffer, timers,
                 dispatching, replayVars, toldVars>>

(* The parent never became idle: the rows stay for the next replay.        *)
Abandon(a) ==
  /\ Injecting(a)
  /\ Update(a, NoAttempt)
  /\ ReleaseClaims(a)
  /\ abandoned' = abandoned \cup attempt[a].jobs
  /\ UNCHANGED <<row, injected, alive, settling, buffer, timers, replayVars,
                 told>>

(* mark_injected_with_retry: one row after the other; it may give up.      *)
MarkInjected(a, j) ==
  /\ attempt[a].pc = "marking" /\ j \in attempt[a].todo
  /\ Update(a, [attempt[a] EXCEPT !.todo = @ \ {j}])
  /\ \/ injected' = IF row[j] = "gone" THEN injected ELSE injected \cup {j}
     \/ j \in Unmarkable /\ UNCHANGED injected
  /\ UNCHANGED <<row, alive, settling, buffer, timers, dispatching,
                 replayVars, toldVars>>

EndAttempt(a) ==
  /\ attempt[a].pc = "marking" /\ attempt[a].todo = {}
  /\ Update(a, NoAttempt)
  /\ ReleaseClaims(a)
  /\ UNCHANGED <<row, injected, alive, settling, buffer, timers,
                 replayVars, toldVars>>

-----------------------------------------------------------------------------
(* Sessions that leave; crash and replay.                                  *)

DeleteSession(s) ==
  /\ s \in alive \cap Mortal
  /\ alive' = alive \ {s}
  /\ UNCHANGED <<row, injected, memVars, replayVars, toldVars>>

(* purge_jobs_for_session: the window's contents, then the rows.           *)
PurgeSession(s) ==
  /\ s \notin alive
  /\ \E j \in Job : SessionOf[j] = s /\ row[j] \notin {"none", "gone"}
  /\ buffer' = [buffer EXCEPT ![s] = <<>>]
  /\ row' = [j \in Job |->
       IF SessionOf[j] = s /\ row[j] # "none" THEN "gone" ELSE row[j]]
  /\ injected' = {j \in injected : SessionOf[j] # s}
  /\ UNCHANGED <<alive, settling, timers, dispatching, attempt,
                 replayVars, toldVars>>

(* The process dies and starts again: only the tables survive.             *)
Crash ==
  /\ crashes < MaxCrashes
  /\ crashes' = crashes + 1
  /\ settling' = {}
  /\ buffer' = [s \in Session |-> <<>>]
  /\ timers' = [s \in Session |-> 0]
  /\ dispatching' = {}
  /\ attempt' = [a \in Origin |-> NoAttempt]
  /\ replay' = "interrupt" /\ listed' = {} /\ relisted' = {}
  /\ told' = [j \in Job |-> 0] /\ abandoned' = {}
  /\ row' = [j \in Job |-> IF row[j] = "active" THEN "left" ELSE row[j]]
  /\ UNCHANGED <<injected, alive>>

(* Every active row: the ones left behind, and those of jobs this process  *)
(* started before the replay ran.                                          *)
ReplayInterrupt ==
  /\ replay = "interrupt"
  /\ row' = [j \in Job |->
       IF row[j] \in {"active", "left"} THEN "terminal" ELSE row[j]]
  /\ replay' = "list"
  /\ UNCHANGED <<injected, alive, memVars, listed, relisted, crashes, toldVars>>

ReplayList ==
  /\ replay = "list"
  /\ listed' = {j \in Job : row[j] = "terminal" /\ j \notin injected}
  /\ relisted' = listed' /\ replay' = "dispatch"
  /\ UNCHANGED <<row, injected, alive, memVars, crashes, toldVars>>

ReplayDispatch(j) ==
  /\ replay = "dispatch" /\ j \in listed
  /\ \A i \in Job : attempt[<<"replay", i>>].pc # "single"
  /\ listed' = listed \ {j}
  /\ StartAttempt(<<"replay", j>>, "single", {j})
  /\ UNCHANGED <<row, injected, alive, settling, buffer, timers,
                 dispatching, replay, relisted, crashes,
                 toldVars>>

ReplayEnds ==
  /\ replay = "dispatch" /\ listed = {}
  /\ replay' = "done"
  /\ UNCHANGED <<row, injected, alive, memVars, listed, relisted, crashes,
                 toldVars>>

-----------------------------------------------------------------------------
Dispatch(a) ==
  \/ SkipGhost(a) \/ ClaimSingle(a) \/ PassGate(a) \/ SortOut(a)
  \/ \E j \in Job : ClaimBatch(a, j) \/ MarkInjected(a, j)
  \/ Turn(a) \/ CloseUntold(a) \/ Defer(a) \/ Abandon(a) \/ EndAttempt(a)

Next ==
  \/ \E j \in Job : \/ Spawn(j) \/ Settle(j) \/ JoinWindow(j)
                    \/ OpenWindow(j) \/ DispatchAtOnce(j) \/ ReplayDispatch(j)
  \/ \E s \in Session : Flush(s) \/ DeleteSession(s) \/ PurgeSession(s)
  \/ \E a \in Origin : Dispatch(a)
  \/ Crash \/ ReplayInterrupt \/ ReplayList \/ ReplayEnds

Spec == Init /\ [][Next]_vars

-----------------------------------------------------------------------------
(* The jobs a dispatch has claimed.                                        *)
ClaimedBy(a) ==
  {j \in attempt[a].jobs :
     attempt[a].holds /\ (attempt[a].pc = "claim" => j \notin attempt[a].todo)}

(* A claim is held by one dispatch, whose thread is alive: no path out of  *)
(* the merged or the single dispatch leaves a job claimed, which nothing   *)
(* could then deliver before a restart.                                    *)
ClaimsAreHeld ==
  \A j \in Job :
    Cardinality({a \in Origin : j \in ClaimedBy(a)}) =
      (IF j \in dispatching THEN 1 ELSE 0)

(* Every completion that was put in a window is taken out of it: an open   *)
(* window has a timer.                                                     *)
WindowCloses == \A s \in Session : buffer[s] # <<>> => timers[s] > 0

(* A result that no turn told yet is on its way to one: about to be        *)
(* buffered, in a window, in a dispatch or on the list of the replay.  A   *)
(* completion that joins a window while it is flushed, and a dispatch that *)
(* leaves a job to the one in flight, lose nothing.                        *)
NoResultDropped ==
  \A j \in Job :
    row[j] = "terminal" /\ j \notin injected /\ told[j] = 0
      /\ SessionOf[j] \in alive /\ j \notin abandoned
    => \/ j \in settling \cup ToSet(buffer[SessionOf[j]]) \cup listed
       \/ replay \in {"interrupt", "list"}
       \/ \E a \in Origin : j \in attempt[a].jobs

(* No completion is stuck between the window, the claims and the replay.   *)
NothingStuck == TypeOK /\ ClaimsAreHeld /\ WindowCloses /\ NoResultDropped

(* Where the result of a job is, for Deliveries.                           *)
Result(j) ==
  IF row[j] \in {"none", "active", "left"} THEN "working"
  ELSE IF row[j] = "gone" \/ j \in injected THEN "closed"
  ELSE IF told[j] > 0 THEN "told" ELSE "owed"

Results == [j \in Job |-> Result(j)]

(* What the replay listed and may still tell once more.                    *)
Again == {j \in relisted : told[j] < 2}

(* A result is told in a turn of its session, its row is marked only then, *)
(* and it is told again only after a restart, or once more when the replay *)
(* listed it: the window, the claims and the replay implement Deliveries.  *)
Delivery == INSTANCE Deliveries WITH
  present <- alive, again <- Again, result <- Results

ImplementsDelivery == Delivery!Spec

(* docs/architecture/background-jobs.md:158: a job is injected once.       *)
ToldOnce == \A j \in Job : told[j] <= 1
================================================================================

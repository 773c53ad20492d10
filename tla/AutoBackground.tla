--------------------------- MODULE AutoBackground ---------------------------
(***************************************************************************)
(* dispatch_with_auto_background (async_jobs/spawn.rs): a tool call runs   *)
(* on a worker thread while its caller, the awaiter, races it against the  *)
(* synchronous budget.  When the budget wins the call becomes a background *)
(* job in place.  Worker and awaiter agree through a Phase behind a mutex; *)
(* cancel_job may come from a third thread, or from another process, as    *)
(* soon as the row exists.                                                 *)
(*                                                                         *)
(* BackgroundJobs takes the whole handover as its action Detach.           *)
(***************************************************************************)
EXTENDS JobRows, FiniteSets

CONSTANTS
  Call,        \* tool calls
  DbFaults,    \* TRUE: the database may be missing or refuse the INSERT
  BuildFaults  \* TRUE: the worker's runtime may fail to build

ASSUME FaultsAssumption == DbFaults \in BOOLEAN /\ BuildFaults \in BOOLEAN

VARIABLES
  phase,       \* the Phase of each call
  permit,      \* the permit of its Notify
  awaiter,     \* where the caller is
  worker,      \* where the worker thread is
  verdict,     \* how the tool ended
  rows,        \* its row of background_jobs
  registered,  \* its entry in CANCELS
  tripped,     \* its CancellationToken
  box,         \* a SlotReservation is in autobg_slot
  answer,      \* what the caller got
  canc         \* a cancel_job call on it

awaiterVars == <<awaiter, answer>>
workerVars  == <<worker, verdict>>
jobVars     == <<rows, registered, tripped, box, canc>>
vars == <<phase, permit, awaiterVars, workerVars, jobVars>>

Phase == {"Pending", "ResultReady", "DetachedRunning", "DetachedDone",
          "Consumed"}

TypeOK ==
  /\ phase \in [Call -> Phase]
  /\ permit \in [Call -> BOOLEAN]
  /\ awaiter \in [Call -> {"check", "select", "register", "insert", "commit",
                           "slot", "rollback", "returned", "dropped"}]
  /\ worker \in [Call -> {"start", "run", "publish", "finalize", "token",
                          "exit", "gone"}]
  /\ verdict \in [Call -> {"none", "completed", "failed", "cancelled"}]
  /\ rows \in [Call -> Row]
  /\ registered \in [Call -> BOOLEAN] /\ tripped \in [Call -> BOOLEAN]
  /\ box \in [Call -> BOOLEAN]
  /\ answer \in [Call -> {"none", "inline", "started", "error"}]
  /\ canc \in [Call -> {"idle", "trip", "elsewhere", "signalled", "unsignalled",
                        "foreign", "force", "forceForeign",
                        "announce"}]

Init ==
  /\ phase = [c \in Call |-> "Pending"]
  /\ permit = [c \in Call |-> FALSE]
  /\ awaiter = [c \in Call |-> "check"]
  /\ worker = [c \in Call |-> "start"]
  /\ verdict = [c \in Call |-> "none"]
  /\ rows = [c \in Call |-> NoRow]
  /\ registered = [c \in Call |-> FALSE]
  /\ tripped = [c \in Call |-> FALSE]
  /\ box = [c \in Call |-> FALSE]
  /\ answer = [c \in Call |-> "none"]
  /\ canc = [c \in Call |-> "idle"]

(* The awaiter keeps the phase lock from its look at Pending to the        *)
(* reservation; nobody else sees the phase meanwhile.                      *)
Locked(c) == awaiter[c] \in {"register", "insert", "commit", "slot"}

SetPhase(c, p) == phase' = [phase EXCEPT ![c] = p]

Await(c, l) == awaiter' = [awaiter EXCEPT ![c] = l]

Work(c, l) == worker' = [worker EXCEPT ![c] = l]

Return(c, what) ==
  Await(c, "returned") /\ answer' = [answer EXCEPT ![c] = what]

-----------------------------------------------------------------------------
(* The worker thread.                                                      *)

(* The runtime could not be built: an error is published whatever the      *)
(* phase is by now, and the thread ends.                                   *)
BuildFails(c) ==
  /\ BuildFaults /\ worker[c] = "start" /\ ~Locked(c)
  /\ SetPhase(c, "ResultReady")
  /\ permit' = [permit EXCEPT ![c] = TRUE]
  /\ verdict' = [verdict EXCEPT ![c] = "failed"]
  /\ Work(c, "exit")
  /\ UNCHANGED <<awaiterVars, jobVars>>

StartTool(c) ==
  /\ worker[c] = "start"
  /\ Work(c, "run")
  /\ UNCHANGED <<phase, permit, awaiterVars, verdict, jobVars>>

(* run_tool_with_retry returned.  Its token is a child of the turn's, so   *)
(* it may be tripped with or without cancel_job.                           *)
ToolEnds(c) ==
  /\ worker[c] = "run"
  /\ \E v \in (IF tripped[c] THEN {"completed", "cancelled"}
                             ELSE {"completed", "failed"}) :
       verdict' = [verdict EXCEPT ![c] = v]
  /\ Work(c, "publish")
  /\ UNCHANGED <<phase, permit, awaiterVars, jobVars>>

(* As Publish treating a detached call like one still awaited.             *)
PublishAlways(c) ==
  /\ worker[c] = "publish" /\ ~Locked(c)
  /\ SetPhase(c, "ResultReady")
  /\ permit' = [permit EXCEPT ![c] = TRUE]
  /\ Work(c, "exit")
  /\ UNCHANGED <<awaiterVars, verdict, jobVars>>

(* As Publish taking the caller's word before its lock is released.        *)
PublishUnlocked(c) ==
  /\ worker[c] = "publish"
  /\ IF phase[c] = "Pending" /\ ~Locked(c)
       THEN /\ SetPhase(c, "ResultReady") /\ Work(c, "exit")
            /\ permit' = [permit EXCEPT ![c] = TRUE]
       ELSE IF phase[c] = "DetachedRunning" \/ Locked(c)
       THEN /\ SetPhase(c, "DetachedDone") /\ Work(c, "finalize")
            /\ UNCHANGED permit
       ELSE Work(c, "exit") /\ UNCHANGED <<phase, permit>>
  /\ UNCHANGED <<awaiterVars, verdict, jobVars>>

(* Still awaited: hand the result over.  Detached: finalize it here.       *)
(* Consumed: nobody wants it.                                              *)
Publish(c) ==
  /\ worker[c] = "publish" /\ ~Locked(c)
  /\ \/ /\ phase[c] = "Pending"
        /\ SetPhase(c, "ResultReady") /\ Work(c, "exit")
        /\ permit' = [permit EXCEPT ![c] = TRUE]
     \/ /\ phase[c] = "DetachedRunning"
        /\ SetPhase(c, "DetachedDone") /\ Work(c, "finalize")
        /\ UNCHANGED permit
     \/ /\ phase[c] \notin {"Pending", "DetachedRunning"}
        /\ Work(c, "exit") /\ UNCHANGED <<phase, permit>>
  /\ UNCHANGED <<awaiterVars, verdict, jobVars>>

(* As FinalizeRow whoever settled the row before.                          *)
FinalizeRowAnyway(c) ==
  /\ worker[c] = "finalize"
  /\ rows' = [rows EXCEPT ![c].status = verdict[c]]
  /\ Work(c, "token")
  /\ UNCHANGED <<phase, permit, awaiterVars, verdict, registered, tripped, box,
                 canc>>

(* finalize_job: the guarded UPDATE, then the token.                       *)
FinalizeRow(c) ==
  /\ worker[c] = "finalize"
  /\ rows' = [rows EXCEPT ![c] = Settle(@, verdict[c])]
  /\ Work(c, "token")
  /\ UNCHANGED <<phase, permit, awaiterVars, verdict, registered, tripped, box,
                 canc>>

FinalizeToken(c) ==
  /\ worker[c] = "token"
  /\ registered' = [registered EXCEPT ![c] = FALSE]
  /\ Work(c, "exit")
  /\ UNCHANGED <<phase, permit, awaiterVars, verdict, rows, tripped, box, canc>>

(* The thread ends and drops its clone of autobg_slot.  The awaiter has    *)
(* dropped the other one unless it has yet to return.                      *)
WorkerExits(c) ==
  /\ worker[c] = "exit"
  /\ Work(c, "gone")
  /\ box' = [box EXCEPT ![c] = FALSE]
  /\ UNCHANGED <<phase, permit, awaiterVars, verdict, rows, registered, tripped,
                 canc>>

-----------------------------------------------------------------------------
(* The awaiter.                                                            *)

(* The fast path before each select.                                       *)
TakeInline(c) ==
  /\ awaiter[c] = "check" /\ phase[c] = "ResultReady"
  /\ SetPhase(c, "Consumed")
  /\ Return(c, "inline")
  /\ UNCHANGED <<permit, workerVars, jobVars>>

Select(c) ==
  /\ awaiter[c] = "check" /\ phase[c] # "ResultReady"
  /\ Await(c, "select")
  /\ UNCHANGED <<phase, permit, answer, workerVars, jobVars>>

Notified(c) ==
  /\ awaiter[c] = "select" /\ permit[c]
  /\ permit' = [permit EXCEPT ![c] = FALSE]
  /\ Await(c, "check")
  /\ UNCHANGED <<phase, answer, workerVars, jobVars>>

(* As BudgetOver without putting back the result that mem::replace took.   *)
BudgetOverLoses(c) ==
  /\ awaiter[c] = "select"
  /\ IF phase[c] = "ResultReady"
       THEN SetPhase(c, "Pending") /\ Await(c, "check")
       ELSE Await(c, "register") /\ UNCHANGED phase
  /\ UNCHANGED <<permit, answer, workerVars, jobVars>>

(* The budget is over: take a result that is there, else detach.           *)
BudgetOver(c) ==
  /\ awaiter[c] = "select"
  /\ IF phase[c] = "ResultReady"
       THEN SetPhase(c, "Consumed") /\ Return(c, "inline")
       ELSE Await(c, "register") /\ UNCHANGED <<phase, answer>>
  /\ UNCHANGED <<permit, workerVars, jobVars>>

(* Detaching, step by step: token, row, phase, slot.                       *)
NoDatabase(c) ==
  /\ DbFaults /\ awaiter[c] = "register"
  /\ SetPhase(c, "Consumed")
  /\ tripped' = [tripped EXCEPT ![c] = TRUE]
  /\ Return(c, "error")
  /\ UNCHANGED <<permit, workerVars, rows, registered, box, canc>>

RegisterToken(c) ==
  /\ awaiter[c] = "register"
  /\ registered' = [registered EXCEPT ![c] = TRUE]
  /\ Await(c, "insert")
  /\ UNCHANGED <<phase, permit, answer, workerVars, rows, tripped, box, canc>>

InsertRow(c) ==
  /\ awaiter[c] = "insert"
  /\ rows' = [rows EXCEPT ![c] = NewRow("running")]
  /\ Await(c, "commit")
  /\ UNCHANGED <<phase, permit, answer, workerVars, registered, tripped, box,
                 canc>>

InsertFails(c) ==
  /\ DbFaults /\ awaiter[c] = "insert"
  /\ SetPhase(c, "Consumed")
  /\ Await(c, "rollback")
  /\ UNCHANGED <<permit, answer, workerVars, jobVars>>

Rollback(c) ==
  /\ awaiter[c] = "rollback"
  /\ registered' = [registered EXCEPT ![c] = FALSE]
  /\ tripped' = [tripped EXCEPT ![c] = TRUE]
  /\ Return(c, "error")
  /\ UNCHANGED <<phase, permit, workerVars, rows, box, canc>>

CommitDetach(c) ==
  /\ awaiter[c] = "commit"
  /\ SetPhase(c, "DetachedRunning")
  /\ Await(c, "slot")
  /\ UNCHANGED <<permit, answer, workerVars, jobVars>>

ReserveForced(c) ==
  /\ awaiter[c] = "slot"
  /\ box' = [box EXCEPT ![c] = TRUE]
  /\ Return(c, "started")
  /\ UNCHANGED <<phase, permit, workerVars, rows, registered, tripped, canc>>

(* The turn is stopped: its future is dropped at its only await.           *)
DropCall(c) ==
  /\ awaiter[c] = "select"
  /\ Await(c, "dropped")
  /\ UNCHANGED <<phase, permit, answer, workerVars, jobVars>>

StopTurn(c) ==
  /\ ~tripped[c] /\ worker[c] # "gone"
  /\ tripped' = [tripped EXCEPT ![c] = TRUE]
  /\ UNCHANGED <<phase, permit, awaiterVars, workerVars, rows, registered, box,
                 canc>>

-----------------------------------------------------------------------------
(* cancel_job, once the row is there, from a third thread of this process  *)
(* ("trip") or from another process ("elsewhere"), which has no token.     *)

CancelGoto(c, l) == canc' = [canc EXCEPT ![c] = l]

BeginCancel(c) ==
  /\ canc[c] = "idle" /\ rows[c].status \in Active
  /\ CancelGoto(c, "trip") \/ CancelGoto(c, "elsewhere")
  /\ UNCHANGED <<phase, permit, awaiterVars, workerVars, rows, registered,
                 tripped, box>>

(* set_cancel_requested, then the token if there is one.                   *)
CancelTrip(c) ==
  /\ canc[c] \in {"trip", "elsewhere"}
  /\ rows' = [rows EXCEPT ![c] = RequestCancel(@)]
  /\ IF canc[c] = "elsewhere"
       THEN CancelGoto(c, "foreign") /\ UNCHANGED tripped
       ELSE /\ tripped' = [tripped EXCEPT ![c] = @ \/ registered[c]]
            /\ CancelGoto(c, IF registered[c] THEN "signalled"
                                              ELSE "unsignalled")
  /\ UNCHANGED <<phase, permit, awaiterVars, workerVars, registered, box>>

CancelMark(c) ==
  /\ rows' = [rows EXCEPT ![c] = MarkCancelling(@)]
  /\ \/ canc[c] = "signalled" /\ CancelGoto(c, "idle")
     \/ /\ canc[c] \in {"unsignalled", "foreign"}
        /\ CancelGoto(c, IF ~CanMarkCancelling(rows[c]) THEN "idle"
                         ELSE IF canc[c] = "foreign" THEN "forceForeign"
                                                     ELSE "force")
  /\ UNCHANGED <<phase, permit, awaiterVars, workerVars, registered, tripped,
                 box>>

(* No token here: settle the row.  The worker finds out at its guarded     *)
(* UPDATE.                                                                 *)
CancelSettle(c) ==
  /\ canc[c] \in {"force", "forceForeign"}
  /\ rows' = [rows EXCEPT ![c] = Settle(@, "cancelled")]
  /\ CancelGoto(c, "announce")
  /\ UNCHANGED <<phase, permit, awaiterVars, workerVars, registered, tripped,
                 box>>

(* Then close it, whoever settled it.                                      *)
CancelAnnounce(c) ==
  /\ canc[c] = "announce"
  /\ rows' = [rows EXCEPT ![c] = MarkInjected(@)]
  /\ CancelGoto(c, "idle")
  /\ UNCHANGED <<phase, permit, awaiterVars, workerVars, registered, tripped,
                 box>>

-----------------------------------------------------------------------------
WorkerStep(c) ==
  \/ BuildFails(c) \/ StartTool(c) \/ Publish(c) \/ FinalizeRow(c)
  \/ FinalizeToken(c) \/ WorkerExits(c)

AwaiterStep(c) ==
  \/ TakeInline(c) \/ Select(c) \/ Notified(c) \/ BudgetOver(c)
  \/ NoDatabase(c) \/ RegisterToken(c) \/ InsertRow(c) \/ InsertFails(c)
  \/ Rollback(c) \/ CommitDetach(c) \/ ReserveForced(c)

CancelStep(c) ==
  CancelTrip(c) \/ CancelMark(c) \/ CancelSettle(c) \/ CancelAnnounce(c)

Next ==
  \E c \in Call :
    \/ WorkerStep(c) \/ ToolEnds(c) \/ AwaiterStep(c) \/ DropCall(c)
    \/ StopTurn(c) \/ BeginCancel(c) \/ CancelStep(c)

Spec == Init /\ [][Next]_vars

(* Both threads run; the tool ends, by itself or because its budget or its *)
(* token ended it.                                                         *)
FairSpec ==
  /\ Spec
  /\ \A c \in Call :
       WF_vars(WorkerStep(c)) /\ WF_vars(ToolEnds(c)) /\ WF_vars(AwaiterStep(c))

-----------------------------------------------------------------------------
(* Properties.                                                             *)

(* A worker that finalizes finds the row of its job (unless a cancel call  *)
(* settled it), still has its token registered and its slot counted: the   *)
(* lock keeps it from overtaking the caller.                               *)
FinalizeFindsAll ==
  \A c \in Call :
    worker[c] = "finalize" =>
      rows[c].status # "absent" /\ registered[c] /\ box[c]

(* An active row always has a token that reaches its worker, so that       *)
(* cancel_job in this process never forces the row of a worker that goes   *)
(* on (in another process it does).                                        *)
RowHasToken ==
  \A c \in Call :
    /\ rows[c].status \in Active => registered[c]
    /\ canc[c] # "force"

(* The result goes one way: to the caller, or into the row, or nowhere     *)
(* when the caller is gone or was told of an error.                        *)
Finalizing(c) == worker[c] \in {"finalize", "token"}

OneWay ==
  \A c \in Call :
    /\ answer[c] = "inline" => verdict[c] # "none" /\ rows[c] = NoRow
                               /\ ~Finalizing(c)
    /\ worker[c] \in {"exit", "gone"} /\ answer[c] = "none" =>
         awaiter[c] \in {"dropped", "rollback"} \/ phase[c] = "ResultReady"

(* The pool counts a detached call exactly as long as its thread lives.    *)
SlotFollowsWorker ==
  \A c \in Call : box[c] <=> answer[c] = "started" /\ worker[c] # "gone"

(* Whoever of worker and caller comes second finds the handover complete:  *)
(* row, token and slot of the job are there as long as they are needed.    *)
HandoverComplete ==
  TypeOK /\ FinalizeFindsAll /\ RowHasToken /\ SlotFollowsWorker

(* The handover is one step to everybody else: with the row the job has    *)
(* its token and, since the worker cannot end while the caller holds the   *)
(* lock, as good as its place in the pool.                                 *)
Jobs == {c \in Call : rows[c].status # "absent"}

Runner(c) ==
  CASE worker[c] \in {"start", "run", "publish"} -> "dispatch"
    [] worker[c] = "finalize" -> "settle" [] worker[c] = "token" -> "wrapup"
    [] worker[c] = "exit" -> "exit"       [] worker[c] = "gone" -> "done"

AsOneStep == INSTANCE DetachedJobs WITH
  token   <- {c \in Jobs : registered[c]},
  counted <- {c \in Jobs : box[c] \/ awaiter[c] \in {"commit", "slot"}},
  runner  <- [c \in Call |-> IF c \in Jobs THEN Runner(c) ELSE "none"]

(* Token, row, phase and slot are set one after the other, and a cancel    *)
(* call may come between; it sees what it would see after a Detach that    *)
(* sets them at once.                                                      *)
ImplementsDetach == AsOneStep!Spec

(* A job that was announced to the model is finalized by whoever the phase *)
(* names (spawn.rs: "the worker and the awaiter agree on who finalizes the *)
(* job").                                                                  *)
DetachedIsFinalized ==
  \A c \in Call :
    answer[c] = "started" /\ worker[c] = "gone" => rows[c].status \in Terminal

(* Every call is answered or dropped, and every job announced settles,     *)
(* unless its worker failed to start and overwrote the phase (what         *)
(* DetachedIsFinalized is about).                                          *)
Ended(c) ==
  \/ rows[c].status \in Terminal
  \/ phase[c] = "ResultReady" /\ verdict[c] = "failed"

EveryCallEnds ==
  \A c \in Call :
    /\ awaiter[c] = "check" ~> awaiter[c] \in {"returned", "dropped"}
    /\ answer[c] = "started" ~> Ended(c)
=============================================================================

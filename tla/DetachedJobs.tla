----------------------------- MODULE DetachedJobs -----------------------------
(***************************************************************************)
(* What the rest of the job subsystem sees of a tool call that becomes a   *)
(* background job (async_jobs/spawn.rs, dispatch_with_auto_background):    *)
(* one step, after which the job has its row, its token and its place in   *)
(* the pool, and a runner that ends the dispatch, settles the row, drops   *)
(* the token and leaves the pool, in this order.  Cancel calls write to    *)
(* the row meanwhile, from wherever they come.                             *)
(*                                                                         *)
(* BackgroundJobs takes the handover for such a step, its action Detach;   *)
(* AutoBackground implements it with two threads and a lock.               *)
(***************************************************************************)
EXTENDS JobRows

CONSTANTS
  Call,        \* tool calls
  BuildFaults  \* TRUE: the runner's runtime may fail to build

VARIABLES
  rows,     \* the row of each call's job
  token,    \* jobs with a row and a registered token
  counted,  \* jobs the pool counts
  runner    \* what the runner has yet to do

Init ==
  /\ rows = [c \in Call |-> NoRow]
  /\ token = {} /\ counted = {}
  /\ runner = [c \in Call |-> "none"]

Run(c, from, to) ==
  /\ runner[c] = from
  /\ runner' = [runner EXCEPT ![c] = to]

(* The handover, all at once.                                              *)
Detach(c) ==
  /\ rows[c] = NoRow
  /\ rows' = [rows EXCEPT ![c] = NewRow("running")]
  /\ token' = token \cup {c} /\ counted' = counted \cup {c}
  /\ Run(c, "none", "dispatch")

(* The tool ends, by itself or because its token was tripped.              *)
EndDispatch(c) ==
  /\ Run(c, "dispatch", "settle")
  /\ UNCHANGED <<rows, token, counted>>

(* A runner that lost the row to a cancel call leaves it as it is.         *)
SettleRow(c) ==
  /\ \E v \in {"completed", "failed", "cancelled"} :
       rows' = [rows EXCEPT ![c] = Settle(@, v)]
  /\ Run(c, "settle", "wrapup")
  /\ UNCHANGED <<token, counted>>

WrapUp(c) ==
  /\ token' = token \ {c}
  /\ Run(c, "wrapup", "exit")
  /\ UNCHANGED <<rows, counted>>

ExitRunner(c) ==
  /\ counted' = counted \ {c}
  /\ Run(c, "exit", "done")
  /\ UNCHANGED <<rows, token>>

(* A runtime that could not be built leaves row and token as they are.     *)
Abandon(c) ==
  /\ BuildFaults
  /\ Run(c, "dispatch", "exit")
  /\ UNCHANGED <<rows, token, counted>>

(* The statements of a cancel call.                                        *)
Statement(c, row) ==
  /\ rows[c] # NoRow
  /\ rows' = [rows EXCEPT ![c] = row]
  /\ UNCHANGED <<token, counted, runner>>

RequestRow(c) == Statement(c, RequestCancel(rows[c]))

MarkRow(c) == Statement(c, MarkCancelling(rows[c]))

ForceRow(c) == Statement(c, Settle(rows[c], "cancelled"))

CloseRow(c) ==
  /\ rows[c].status \in Terminal
  /\ Statement(c, MarkInjected(rows[c]))

Next ==
  \E c \in Call :
    \/ Detach(c) \/ EndDispatch(c) \/ SettleRow(c) \/ WrapUp(c) \/ ExitRunner(c)
    \/ Abandon(c) \/ RequestRow(c) \/ MarkRow(c) \/ ForceRow(c) \/ CloseRow(c)

Spec == Init /\ [][Next]_<<rows, token, counted, runner>>
================================================================================

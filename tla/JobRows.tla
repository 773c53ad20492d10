------------------------------ MODULE JobRows ------------------------------
(***************************************************************************)
(* One row of the table background_jobs, and the guarded UPDATE statements *)
(* of JobsDB (async_jobs/db.rs).  Every statement runs alone: JobsDB holds *)
(* its connection behind a mutex, and SQLite serialises the processes that *)
(* share the file.  An operator maps the row before a statement to the row *)
(* after it; the predicate CanX says whether the statement matches the row *)
(* (what the Rust method returns as Ok(true)).                             *)
(***************************************************************************)

(* JobStatus of types.rs; "absent" stands for "no such row".               *)
Terminal == {"completed", "failed", "interrupted", "timed_out", "cancelled"}

Active == {"queued", "running", "awaiting_approval", "cancelling"}

Status == Terminal \cup Active \cup {"absent"}

(* The columns the control flow reads.                                     *)
Row == [status : Status, injected : BOOLEAN, cancelRequested : BOOLEAN]

NoRow == [status |-> "absent", injected |-> FALSE, cancelRequested |-> FALSE]

(* insert: a row starts its life un-injected, queued or running.           *)
NewRow(st) == [NoRow EXCEPT !.status = st]

(* mark_running: queued -> running only.                                   *)
CanMarkRunning(row) == row.status = "queued"

MarkRunning(row) ==
  IF CanMarkRunning(row) THEN [row EXCEPT !.status = "running"] ELSE row

(* mark_awaiting_approval and resume_from_awaiting_approval.               *)
Park(row) ==
  IF row.status = "running" THEN [row EXCEPT !.status = "awaiting_approval"]
                            ELSE row

(* As Resume without its WHERE clause.                                     *)
ResumeUnguarded(row) == [row EXCEPT !.status = "running"]

Resume(row) ==
  IF row.status = "awaiting_approval" THEN [row EXCEPT !.status = "running"]
                                      ELSE row

(* mark_cancelling: every active status but queued.                        *)
CanMarkCancelling(row) == row.status \in Active \ {"queued"}

MarkCancelling(row) ==
  IF CanMarkCancelling(row) THEN [row EXCEPT !.status = "cancelling"] ELSE row

(* set_cancel_requested: the flag another process's runner polls.          *)
RequestCancel(row) ==
  IF row.status \in Active THEN [row EXCEPT !.cancelRequested = TRUE] ELSE row

(* update_terminal: only an active row settles, whoever asks.              *)
CanSettle(row) == row.status \in Active

Settle(row, st) == IF CanSettle(row) THEN [row EXCEPT !.status = st] ELSE row

(* mark_injected: no guard on the status.                                  *)
MarkInjected(row) ==
  IF row.status = "absent" THEN row ELSE [row EXCEPT !.injected = TRUE]

(* The rows list_pending_injection selects.                                *)
PendingInjection(row) == row.status \in Terminal /\ ~row.injected
=============================================================================

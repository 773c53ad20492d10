----------------------------- MODULE JobLifecycle -----------------------------
(***************************************************************************)
(* What the background job subsystem promises of each job, seen through    *)
(* the table alone (the nine states of JobStatus and the WHERE clauses of  *)
(* async_jobs/db.rs): a row appears queued or running, moves forward       *)
(* between active states except for parking on an approval, settles once   *)
(* and for all, and is closed (injected) only after it settled.            *)
(* BackgroundJobs implements this specification with threads, queues,      *)
(* cancel calls, replays and crashes.                                      *)
(***************************************************************************)
EXTENDS JobRows

CONSTANT Job

VARIABLE rows

Init == rows = [j \in Job |-> NoRow]

Create(j) ==
  /\ rows[j] = NoRow
  /\ \E st \in {"queued", "running"} : rows' = [rows EXCEPT ![j] = NewRow(st)]

(* The edges between active states.                                        *)
Edges == {<<"queued", "running">>, <<"running", "awaiting_approval">>,
          <<"awaiting_approval", "running">>, <<"running", "cancelling">>,
          <<"awaiting_approval", "cancelling">>}

Progress(j) ==
  \E e \in Edges : /\ rows[j].status = e[1]
                   /\ rows' = [rows EXCEPT ![j].status = e[2]]

AskCancel(j) ==
  /\ rows[j].status \in Active
  /\ rows' = [rows EXCEPT ![j].cancelRequested = TRUE]

Finish(j) ==
  /\ rows[j].status \in Active
  /\ \E st \in Terminal : rows' = [rows EXCEPT ![j].status = st]

(* The result was delivered, or is not to be.                              *)
Close(j) ==
  /\ rows[j].status \in Terminal
  /\ rows' = [rows EXCEPT ![j].injected = TRUE]

(* Rejected by a full queue, or burned with its session.                   *)
Forget(S) == rows' = [j \in Job |-> IF j \in S THEN NoRow ELSE rows[j]]

Next ==
  \/ \E j \in Job :
       Create(j) \/ Progress(j) \/ AskCancel(j) \/ Finish(j) \/ Close(j)
  \/ \E S \in SUBSET Job : Forget(S)

Spec == Init /\ [][Next]_rows
=============================================================================

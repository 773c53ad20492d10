----------------------------- MODULE WaitRegistry -----------------------------
(***************************************************************************)
(* Blocking waits for the end of a background job: the registry of         *)
(* crates/ha-core/src/async_jobs/wait.rs and its consumers, job_status and *)
(* JobManager::wait_for_terminal.  The registry maps a job to a shared     *)
(* Notify; an Arc<Notify> is named here by the waiter that created it, as  *)
(* each waiter registers once.  notify_waiters wakes the waiters already   *)
(* parked and leaves no permit for the others.                             *)
(***************************************************************************)
EXTENDS Integers, FiniteSets

CONSTANTS
  Job,        \* background jobs
  Waiter,     \* bound: calls that wait
  NoWaiter,
  Awaits      \* the job each call waits for

ASSUME WaitAssumption ==
  NoWaiter \notin Waiter /\ Awaits \in [Waiter -> Job]

VARIABLES
  row,        \* background_jobs: "none", "active", "terminal" or "gone"
  telling,    \* jobs whose settler has yet to call notify_completion
  registry,   \* WAITERS: the handle registered for each job
  waiter,     \* where each call is
  hold        \* the handle each call holds

vars == <<row, telling, registry, waiter, hold>>

TypeOK ==
  /\ row \in [Job -> {"none", "active", "terminal", "gone"}]
  /\ telling \subseteq Job
  /\ registry \in [Job -> Waiter \cup {NoWaiter}]
  /\ waiter \in [Waiter -> {"idle", "register", "recheck", "park", "parked",
                            "reload", "cleanup", "drop", "done"}]
  /\ hold \in [Waiter -> Waiter \cup {NoWaiter}]
  /\ \A w \in Waiter : (hold[w] = NoWaiter)
                          <=> waiter[w] \in {"idle", "register", "done"}

Init ==
  /\ row = [j \in Job |-> "none"] /\ telling = {}
  /\ registry = [j \in Job |-> NoWaiter]
  /\ waiter = [w \in Waiter |-> "idle"]
  /\ hold = [w \in Waiter |-> NoWaiter]

At(w, from, to) ==
  /\ waiter[w] = from
  /\ waiter' = [waiter EXCEPT ![w] = to]

(* Arc::strong_count: the registry's reference and the waiters'.           *)
StrongCount(h) ==
  Cardinality({w \in Waiter : hold[w] = h}) +
  Cardinality({j \in Job : registry[j] = h})

(* The first load: a job that is over is reported at once.                 *)
Ask(w) ==
  /\ row[Awaits[w]] # "none"
  /\ At(w, "idle", IF row[Awaits[w]] = "active" THEN "register" ELSE "done")
  /\ UNCHANGED <<row, telling, registry, hold>>

(* register_waiter: join the registered handle, or make one.               *)
Register(w) ==
  LET j == Awaits[w]
      h == IF registry[j] = NoWaiter THEN w ELSE registry[j]
  IN /\ At(w, "register", "recheck")
     /\ registry' = [registry EXCEPT ![j] = h]
     /\ hold' = [hold EXCEPT ![w] = h]
     /\ UNCHANGED <<row, telling>>

(* The load after registering, and the one after each wake-up: the call    *)
(* ends when the job is over or its row is gone, and waits otherwise.      *)
Reload(w) ==
  /\ \E from \in {"recheck", "reload"} :
       At(w, from, IF row[Awaits[w]] = "active" THEN "park" ELSE "cleanup")
  /\ UNCHANGED <<row, telling, registry, hold>>

(* The first poll of notified(): from here on a notification reaches it.   *)
Park(w) == At(w, "park", "parked") /\ UNCHANGED <<row, telling, registry, hold>>

(* As Poll without the sleep next to the notification.                     *)
PollNever(w) ==
  At(w, "parked", "parked") /\ UNCHANGED <<row, telling, registry, hold>>

(* The backoff elapses before a notification comes.                        *)
Poll(w) ==
  At(w, "parked", "reload") /\ UNCHANGED <<row, telling, registry, hold>>

(* The deadline of the call.                                               *)
Expire(w) ==
  At(w, "parked", "cleanup") /\ UNCHANGED <<row, telling, registry, hold>>

(* WaiterGuard::drop: cleanup_if_last_waiter, under the registry's lock.   *)
Cleanup(w) ==
  LET j == Awaits[w]
      last == registry[j] = hold[w] /\ StrongCount(hold[w]) <= 2
  IN /\ At(w, "cleanup", "drop")
     /\ registry' = [registry EXCEPT ![j] = IF last THEN NoWaiter ELSE @]
     /\ UNCHANGED <<row, telling, hold>>

(* ... and the guard's field, dropped after its body without the lock.     *)
DropHandle(w) ==
  /\ At(w, "drop", "done")
  /\ hold' = [hold EXCEPT ![w] = NoWaiter]
  /\ UNCHANGED <<row, telling, registry>>

WaiterStep(w) ==
  \/ Ask(w) \/ Register(w) \/ Reload(w) \/ Park(w) \/ Poll(w) \/ Expire(w)
  \/ Cleanup(w) \/ DropHandle(w)

(* The row of a job; a sweep or a purge deletes it.                        *)
Begin(j) ==
  /\ row[j] = "none"
  /\ row' = [row EXCEPT ![j] = "active"]
  /\ UNCHANGED <<telling, registry, waiter, hold>>

(* update_terminal commits before the waiters are notified.                *)
End(j) ==
  /\ row[j] = "active"
  /\ row' = [row EXCEPT ![j] = "terminal"]
  /\ telling' = telling \cup {j}
  /\ UNCHANGED <<registry, waiter, hold>>

Purge(j) ==
  /\ row[j] \in {"active", "terminal"}
  /\ row' = [row EXCEPT ![j] = "gone"]
  /\ UNCHANGED <<telling, registry, waiter, hold>>

(* notify_completion: remove the handle and wake who is parked on it.      *)
Notify(j) ==
  /\ j \in telling
  /\ telling' = telling \ {j}
  /\ registry' = [registry EXCEPT ![j] = NoWaiter]
  /\ waiter' = [w \in Waiter |->
       IF waiter[w] = "parked" /\ hold[w] = registry[j] THEN "reload"
       ELSE waiter[w]]
  /\ UNCHANGED <<row, hold>>

Next ==
  \/ \E j \in Job : Begin(j) \/ End(j) \/ Purge(j) \/ Notify(j)
  \/ \E w \in Waiter : WaiterStep(w)

Spec == Init /\ [][Next]_vars

(* Tasks are scheduled and sleeps end; calls may come at any time and need *)
(* no deadline (wait_for_terminal without a timeout).                      *)
Fairness ==
  /\ \A w \in Waiter : WF_vars(Register(w) \/ Reload(w) \/ Park(w) \/ Poll(w)
                               \/ Cleanup(w) \/ DropHandle(w))
  /\ \A j \in Job : WF_vars(Notify(j))

FairSpec == Spec /\ Fairness

-----------------------------------------------------------------------------
(* A call between its registration and its clean-up holds the handle that  *)
(* the end of its job is going to notify, until it is notified: no other   *)
(* call's return removes it.  The call whose handle is gone is one whose   *)
(* next look at the row ends it.                                           *)
Waiting(w) == waiter[w] \in {"recheck", "park", "parked", "reload"}

WaitingIsReachable ==
  \A w \in Waiter :
    Waiting(w) /\ registry[Awaits[w]] # hold[w]
      => row[Awaits[w]] \in {"terminal", "gone"} /\ Awaits[w] \notin telling

(* A call without a deadline returns once its job is over, or its row      *)
(* deleted, even when the notification fell between its load and its first *)
(* poll and was lost.                                                      *)
CallsReturn ==
  \A w \in Waiter :
    waiter[w] \notin {"idle", "done"} /\ row[Awaits[w]] # "active"
      ~> waiter[w] = "done"

(* wait.rs:15-24 (invariants 2 and 4): a handle stays in the registry only *)
(* while some call holds it.                                               *)
NoOrphanHandle ==
  \A j \in Job : registry[j] # NoWaiter
                   => \E w \in Waiter : hold[w] = registry[j]
================================================================================

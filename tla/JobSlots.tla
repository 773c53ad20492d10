------------------------------ MODULE JobSlots ------------------------------
(***************************************************************************)
(* The concurrency pool of background tool jobs (async_jobs/slots.rs): two *)
(* layers of slots, one for the process and one for each session, and the  *)
(* bounded wait queue.  A pool is the SlotManager of one process; every    *)
(* function of slots.rs takes its mutex once, so each is one operator from *)
(* the pool before to the pool after.                                      *)
(***************************************************************************)
EXTENDS Integers, Sequences, SequencesExt, FiniteSets

CONSTANTS
  Job,          \* background tool jobs
  Session,      \* the keys of per_session, NoSession among them
  NoSession,    \* the key "" of a job without a parent session
  SessionOf,    \* the session of each job
  Cap,          \* max_concurrent_jobs, 0 = unlimited
  SessionCap,   \* max_concurrent_jobs_per_session, 0 = unlimited
  MaxQueued     \* max_queued_jobs after clamp_queued: at least 1

ASSUME PoolAssumption ==
  /\ NoSession \in Session
  /\ SessionOf \in [Job -> Session]
  /\ Cap \in Nat
  /\ SessionCap \in Nat
  /\ MaxQueued \in Nat \ {0}

Pool == [total : Nat, perSession : [Session -> Nat], queue : Seq(Job)]

EmptyPool == [total |-> 0, perSession |-> [s \in Session |-> 0], queue |-> <<>>]

InQueue(pool, j) == j \in ToSet(pool.queue)

(* The queue at the positions of S, in order (VecDeque's remove, retain).  *)
(* The n-th element left is the one of rank n.                             *)
Rank(S, i) == Cardinality({k \in S : k <= i})

Keep(queue, S) ==
  [n \in 1..Cardinality(S) |-> queue[CHOOSE i \in S : Rank(S, i) = n]]

SessionAtCap(pool, s) == SessionCap # 0 /\ pool.perSession[s] >= SessionCap

AtCap(pool) == Cap # 0 /\ pool.total >= Cap

(* reserve_forced_inner: count the slot whatever the caps say.             *)
ReserveForced(pool, s) ==
  [pool EXCEPT !.total = @ + 1, !.perSession[s] = @ + 1]

(* As CanReserve without the session's cap.                                *)
CanReserveOverSession(pool, s) == pool.queue = <<>> /\ ~AtCap(pool)

(* try_reserve, its two cap checks and its first line: nobody jumps the    *)
(* queue.                                                                  *)
CanReserve(pool, s) ==
  pool.queue = <<>> /\ ~AtCap(pool) /\ ~SessionAtCap(pool, s)

(* As Release, forgetting the session's own count.                         *)
ReleaseTotalOnly(pool, s) == [pool EXCEPT !.total = IF @ > 0 THEN @ - 1 ELSE 0]

(* release: both counts, saturating at zero.                               *)
Release(pool, s) ==
  [pool EXCEPT !.total = IF @ > 0 THEN @ - 1 ELSE 0,
               !.perSession[s] = IF @ > 0 THEN @ - 1 ELSE 0]

CanEnqueue(pool) == Len(pool.queue) < MaxQueued

Enqueue(pool, j) == [pool EXCEPT !.queue = Append(@, j)]

(* pick_fair_index: of the queued jobs whose session is below its cap, the *)
(* first one of those whose session runs the fewest jobs.                  *)
Eligible(pool) ==
  {i \in DOMAIN pool.queue : ~SessionAtCap(pool, SessionOf[pool.queue[i]])}

Load(pool, i) == pool.perSession[SessionOf[pool.queue[i]]]

(* As PickFair with ties going to the youngest (>= turned into > in the    *)
(* scan).                                                                  *)
PickYoungest(pool) ==
  CHOOSE i \in Eligible(pool) :
    \A k \in Eligible(pool) :
      \/ Load(pool, i) < Load(pool, k)
      \/ Load(pool, i) = Load(pool, k) /\ i >= k

PickFair(pool) ==
  CHOOSE i \in Eligible(pool) :
    \A k \in Eligible(pool) :
      \/ Load(pool, i) < Load(pool, k)
      \/ Load(pool, i) = Load(pool, k) /\ i <= k

(* take_next_inner.                                                        *)
CanTake(pool) == ~AtCap(pool) /\ Eligible(pool) # {}

NextJob(pool) == pool.queue[PickFair(pool)]

Take(pool) ==
  ReserveForced(
    [pool EXCEPT !.queue = Keep(@, DOMAIN pool.queue \ {PickFair(pool)})],
    SessionOf[NextJob(pool)])

(* As RemoveQueued, finding the job and leaving it in the queue.           *)
PeekQueued(pool, j) == pool

(* remove_queued and remove_queued_for_session.                            *)
RemoveQueued(pool, j) ==
  [pool EXCEPT !.queue =
     Keep(@, {i \in DOMAIN pool.queue : pool.queue[i] # j})]

RemoveQueuedForSession(pool, s) ==
  [pool EXCEPT !.queue =
     Keep(@, {i \in DOMAIN pool.queue : SessionOf[pool.queue[i]] # s})]
=============================================================================

------------------------ MODULE BackgroundJobsProofs ------------------------
(***************************************************************************)
(* What holds of the background jobs of BackgroundJobs for any number of   *)
(* jobs, sessions and processes and any caps.  First, what each operator   *)
(* of the pool (JobSlots) does to the two counts and to the queue; then    *)
(* the types, the slots, the order of the queue, the rows and their        *)
(* lifecycle, the tokens, the wake-ups, the results, who settles a row and *)
(* who hands its result over, and the hooks.                               *)
(***************************************************************************)
EXTENDS BackgroundJobs, FiniteSetTheorems, SequenceTheorems, TLAPS

-----------------------------------------------------------------------------
(* The pool of JobSlots.                                                   *)

(* A non-empty set of naturals has a least element.                        *)
LEMMA LeastNatural ==
  ASSUME NEW T \in SUBSET Nat, T # {}
  PROVE  \E m \in T : \A k \in T : m <= k
<1> DEFINE Below(n) == {k \in Nat : k < n}
           R == StrictSubsetOrdering(Nat)
           U == {Below(n) : n \in T}
<1>1. \A n \in Nat : Below(n) = 0..(n-1)
  OBVIOUS
<1>2. ASSUME NEW n \in Nat
      PROVE  IsFiniteSet(Below(n))
  <2>1. n - 1 \in Int
    OBVIOUS
  <2>2. IsFiniteSet(0..(n-1))
    BY <2>1, FS_Interval
  <2> QED BY <2>2, <1>1
<1>3. U \subseteq FiniteSubsetsOf(Nat) /\ U # {}
  BY <1>2 DEF FiniteSubsetsOf
<1>4. IsWellFoundedOn(R, FiniteSubsetsOf(Nat))
  BY FS_StrictSubsetOrderingWellFounded
<1>5. PICK x \in U : \A y \in U : ~ (<<y, x>> \in R)
  <2> HIDE DEF U, R
  <2> QED BY <1>3, <1>4, WFMin
<1>6. PICK m \in T : x = Below(m)
  BY <1>5
<1>7. ASSUME NEW k \in T, k < m
      PROVE  FALSE
  <2>1. Below(k) \subseteq Below(m) /\ Below(k) # Below(m)
    <3>1. k \in Below(m) /\ k \notin Below(k)
      BY <1>7
    <3> QED BY <3>1, <1>7
  <2>2. <<Below(k), Below(m)>> \in R
    BY <2>1 DEF StrictSubsetOrdering
  <2> QED BY <2>2, <1>5, <1>6
<1> QED BY <1>6, <1>7

-----------------------------------------------------------------------------
(* Keep.                                                                   *)

(* Every rank up to the number of positions is taken by one position.      *)
LEMMA RankOnto ==
  ASSUME NEW m \in Nat, NEW S \in SUBSET (1..m)
  PROVE  /\ Cardinality(S) \in Nat
         /\ \A n \in 1..Cardinality(S) : \E i \in S : Rank(S, i) = n
<1> DEFINE Upto(i) == {k \in S : k <= i}
           C == Cardinality(S)
           r == [i \in S |-> Rank(S, i)]
<1>1. IsFiniteSet(S) /\ C \in Nat
  <2>1. IsFiniteSet(1..m)
    BY FS_Interval
  <2>2. IsFiniteSet(S)
    BY <2>1, FS_Subset
  <2> QED BY <2>2, FS_CardinalityType
<1>2. \A i \in S : IsFiniteSet(Upto(i)) /\ Cardinality(Upto(i)) \in Nat
  BY <1>1, FS_Subset, FS_CardinalityType
<1>3. \A i \in S : Rank(S, i) = Cardinality(Upto(i))
  BY DEF Rank
<1>4. \A i \in S : Cardinality(Upto(i)) \in 1..C
  <2> TAKE i \in S
  <2>1. Cardinality(Upto(i)) <= C
    <3>1. Upto(i) \in SUBSET S
      OBVIOUS
    <3> HIDE DEF Upto
    <3> QED BY <3>1, <1>1, FS_Subset
  <2>2. Upto(i) # {}
    <3>1. i \in Upto(i)
      OBVIOUS
    <3> QED BY <3>1
  <2>3. Cardinality(Upto(i)) # 0
    <3> HIDE DEF Upto
    <3> QED BY <2>2, <1>2, FS_EmptySet
  <2> QED BY <2>1, <2>3, <1>1, <1>2
<1>5. r \in [S -> 1..C]
  BY <1>3, <1>4
<1>6. ASSUME NEW a \in S, NEW b \in S, a < b
      PROVE  r[a] # r[b]
  <2>1. Upto(a) \in SUBSET Upto(b)
    <3>1. \A k \in S : k \in Nat
      OBVIOUS
    <3>2. a \in Nat /\ b \in Nat /\ a < b
      BY <3>1, <1>6
    <3>3. \A k \in S : k <= a => k <= b
      BY <3>1, <3>2
    <3> QED BY <3>3
  <2>2. b \in Upto(b) /\ b \notin Upto(a)
    BY <1>6
  <2>3. Cardinality(Upto(a)) # Cardinality(Upto(b))
    <3> HIDE DEF Upto
    <3> QED BY <2>1, <2>2, <1>2, FS_Subset
  <2> QED BY <2>3, <1>3
<1>7. IsInjective(r)
  <2> SUFFICES ASSUME NEW a \in S, NEW b \in S, r[a] = r[b], a # b
               PROVE  FALSE
    BY DEF IsInjective
  <2>1. a < b \/ b < a
    OBVIOUS
  <2> HIDE DEF r
  <2> QED BY <2>1, <1>6
<1>8. r \in Injection(S, 1..C)
  BY <1>5, <1>7 DEF Injection
<1>9. IsFiniteSet(1..C) /\ Cardinality(1..C) = C
  BY <1>1, FS_Interval
<1>10. r \in Surjection(S, 1..C)
  <2> HIDE DEF r
  <2> QED BY <1>8, <1>9, FS_Injection
<1> QED BY <1>10, <1>1 DEF Surjection

(* Keep yields a sequence of the elements at the positions kept, each of   *)
(* them as often as it was kept.                                           *)
LEMMA KeepProperties ==
  ASSUME NEW A, NEW q \in Seq(A), NEW S \in SUBSET (DOMAIN q)
  PROVE  /\ Keep(q, S) \in Seq(A)
         /\ ToSet(Keep(q, S)) = {q[i] : i \in S}
         /\ IsInjective(q) => IsInjective(Keep(q, S))
<1> DEFINE C == Cardinality(S)
           At(n) == CHOOSE i \in S : Rank(S, i) = n
<1>1. DOMAIN q = 1..Len(q) /\ Len(q) \in Nat
  BY LenProperties
<1>0. IsFiniteSet(S)
  <2>1. IsFiniteSet(1..Len(q))
    BY <1>1, FS_Interval
  <2> QED BY <2>1, <1>1, FS_Subset
<1>2. C \in Nat /\ \A n \in 1..C : \E i \in S : Rank(S, i) = n
  BY <1>1, RankOnto
<1>3. \A n \in 1..C : At(n) \in S /\ Rank(S, At(n)) = n
  BY <1>2
<1>4. Keep(q, S) = [n \in 1..C |-> q[At(n)]]
  BY DEF Keep
<1>5. \A i \in S : q[i] \in A
  BY <1>1, ElementOfSeq
<1>6. Keep(q, S) \in [1..C -> A]
  BY <1>3, <1>4, <1>5
<1>7. Keep(q, S) \in Seq(A)
  BY <1>2, <1>6, SeqDef
<1>8. \A i \in S : Rank(S, i) \in 1..C /\ At(Rank(S, i)) = i
  <2>1. ASSUME NEW i \in S
        PROVE  Rank(S, i) \in 1..C
    <3> DEFINE U == {k \in S : k <= i}
    <3>2. U \in SUBSET S /\ i \in U
      BY <1>1
    <3> HIDE DEF U
    <3>3. IsFiniteSet(U) /\ Cardinality(U) <= C /\ Cardinality(U) \in Nat
      BY <1>0, <3>2, FS_Subset, FS_CardinalityType
    <3>4. Cardinality(U) # 0
      BY <3>2, <3>3, FS_EmptySet
    <3>5. Rank(S, i) = Cardinality(U)
      BY DEF Rank, U
    <3> QED BY <3>3, <3>4, <3>5, <1>2
  <2>2. ASSUME NEW i \in S, NEW k \in S, Rank(S, i) = Rank(S, k), i < k
        PROVE  FALSE
    <3> DEFINE U(x) == {y \in S : y <= x}
    <3>2. U(i) \in SUBSET U(k) /\ U(k) \in SUBSET S /\ k \in U(k) /\ k \notin U(i)
      BY <1>1, <2>2
    <3>3. Cardinality(U(i)) = Cardinality(U(k))
      BY <2>2 DEF Rank
    <3> HIDE DEF U
    <3>4. IsFiniteSet(U(k))
      BY <1>0, <3>2, FS_Subset
    <3> QED BY <3>2, <3>3, <3>4, FS_Subset
  <2>3. ASSUME NEW i \in S
        PROVE  At(Rank(S, i)) = i
    <3>1. At(Rank(S, i)) \in S /\ Rank(S, At(Rank(S, i))) = Rank(S, i)
      BY <2>1, <1>3
    <3>2. At(Rank(S, i)) \in Nat /\ i \in Nat
      BY <3>1, <1>1
    <3> QED BY <3>1, <3>2, <2>2
  <2> QED BY <2>1, <2>3
<1>9. ToSet(Keep(q, S)) = {q[i] : i \in S}
  <2>1. ToSet(Keep(q, S)) = {q[At(n)] : n \in 1..C}
    BY <1>4 DEF ToSet
  <2> QED BY <2>1, <1>3, <1>8
<1>10. ASSUME IsInjective(q)
       PROVE  IsInjective(Keep(q, S))
  <2> SUFFICES ASSUME NEW a \in 1..C, NEW b \in 1..C, q[At(a)] = q[At(b)]
               PROVE  a = b
    BY <1>4 DEF IsInjective
  <2>1. At(a) \in DOMAIN q /\ At(b) \in DOMAIN q
    BY <1>3
  <2>2. At(a) = At(b)
    BY <2>1, <1>10 DEF IsInjective
  <2> QED BY <2>2, <1>3
<1> QED BY <1>7, <1>9, <1>10

-----------------------------------------------------------------------------
(* The queue.                                                              *)

(* Positions of the queue, and what ToSet sees of them.                    *)
LEMMA QueuePositions ==
  ASSUME NEW p \in Pool
  PROVE  /\ p.queue \in Seq(Job)
         /\ DOMAIN p.queue \subseteq Nat
         /\ \A i \in DOMAIN p.queue : p.queue[i] \in Job
         /\ ToSet(p.queue) = {p.queue[i] : i \in DOMAIN p.queue}
         /\ ToSet(p.queue) \subseteq Job
<1>1. p.queue \in Seq(Job)
  BY DEF Pool
<1>2. DOMAIN p.queue = 1..Len(p.queue) /\ Len(p.queue) \in Nat
  BY <1>1, LenProperties
<1>3. \A i \in DOMAIN p.queue : p.queue[i] \in Job
  BY <1>1, <1>2, ElementOfSeq
<1>4. ToSet(p.queue) = {p.queue[i] : i \in DOMAIN p.queue}
  BY DEF ToSet
<1>5. ToSet(p.queue) \subseteq Job
  BY <1>3, <1>4
<1> QED BY <1>1, <1>2, <1>3, <1>4, <1>5

(* pick_fair_index finds a job whenever one is eligible: one of a session  *)
(* that runs the fewest jobs, the first of those in the queue, and so of   *)
(* the eligible jobs of its session the one that has waited longest.       *)
THEOREM PickFairOldest ==
  ASSUME NEW p \in Pool, Eligible(p) # {}
  PROVE  /\ PickFair(p) \in Eligible(p)
         /\ \A k \in Eligible(p) :
              \/ Load(p, PickFair(p)) < Load(p, k)
              \/ Load(p, PickFair(p)) = Load(p, k) /\ PickFair(p) <= k
         /\ \A k \in Eligible(p) :
              SessionOf[p.queue[k]] = SessionOf[p.queue[PickFair(p)]]
                => PickFair(p) <= k
<1> DEFINE E == Eligible(p)
           L == {Load(p, i) : i \in E}
           Fair(i) == \A k \in E : \/ Load(p, i) < Load(p, k)
                                   \/ Load(p, i) = Load(p, k) /\ i <= k
<1>1. E \in SUBSET (DOMAIN p.queue)
  BY DEF Eligible
<1>2. E \in SUBSET Nat
  BY <1>1, QueuePositions
<1>3. \A i \in E : Load(p, i) \in Nat
  BY <1>1, QueuePositions, PoolAssumption DEF Load, Pool
<1>4. L \in SUBSET Nat /\ L # {}
  BY <1>3
<1>5. PICK l \in L : \A k \in L : l <= k
  <2> HIDE DEF L
  <2> QED BY <1>4, LeastNatural
<1> DEFINE M == {i \in E : Load(p, i) = l}
<1>6. M \in SUBSET Nat /\ M # {}
  BY <1>2, <1>5
<1>7. PICK m \in M : \A k \in M : m <= k
  <2> HIDE DEF M
  <2> QED BY <1>6, LeastNatural
<1>8. m \in E /\ Fair(m)
  <2> HIDE DEF E
  <2> SUFFICES ASSUME NEW k \in E
               PROVE  \/ Load(p, m) < Load(p, k)
                      \/ Load(p, m) = Load(p, k) /\ m <= k
    BY <1>7
  <2>1. Load(p, m) = l /\ Load(p, m) <= Load(p, k)
    BY <1>5, <1>7
  <2>2. CASE Load(p, k) = l
    BY <2>1, <2>2, <1>7
  <2>3. CASE Load(p, k) # l
    BY <2>1, <2>3, <1>3, <1>7
  <2> QED BY <2>2, <2>3
<1>9. PickFair(p) \in E /\ Fair(PickFair(p))
  <2>1. PickFair(p) = CHOOSE i \in E : Fair(i)
    BY DEF PickFair
  <2> HIDE DEF E, Fair
  <2> QED BY <2>1, <1>8
<1>10. ASSUME NEW k \in E, SessionOf[p.queue[k]] = SessionOf[p.queue[PickFair(p)]]
       PROVE  PickFair(p) <= k
  <2>1. Load(p, k) = Load(p, PickFair(p))
    BY <1>10 DEF Load
  <2> QED BY <2>1, <1>9, <1>3
<1> QED BY <1>9, <1>10

-----------------------------------------------------------------------------
(* What each function of slots.rs does to the counts and to the queue.     *)
LEMMA EmptyPoolType ==
  /\ EmptyPool \in Pool
  /\ ToSet(EmptyPool.queue) = {} /\ IsInjective(EmptyPool.queue)
<1>1. <<>> \in Seq(Job) /\ ToSet(<<>>) = {} /\ IsInjective(<<>>)
  BY DEF ToSet, IsInjective
<1> QED BY <1>1 DEF EmptyPool, Pool

(* reserve_forced counts one job more in both layers.                      *)
LEMMA ReserveEffect ==
  ASSUME NEW p \in Pool, NEW s \in Session
  PROVE  /\ ReserveForced(p, s) \in Pool
         /\ ReserveForced(p, s).total = p.total + 1
         /\ ReserveForced(p, s).perSession =
              [t \in Session |-> p.perSession[t] + (IF t = s THEN 1 ELSE 0)]
         /\ ReserveForced(p, s).queue = p.queue
<1> DEFINE P == [p.perSession EXCEPT ![s] = @ + 1]
<1>1. /\ P \in [Session -> Nat]
      /\ P = [t \in Session |-> p.perSession[t] + (IF t = s THEN 1 ELSE 0)]
  BY DEF Pool
<1>2. p.total + 1 \in Nat /\ p.queue \in Seq(Job)
  BY DEF Pool
<1>3. ReserveForced(p, s) = [p EXCEPT !.total = p.total + 1, !.perSession = P]
  BY DEF ReserveForced, Pool
<1> HIDE DEF P
<1> QED BY <1>1, <1>2, <1>3 DEF Pool

(* release counts one job less in both layers; the saturation never        *)
(* matters where the slot was counted before.                              *)
LEMMA ReleaseEffect ==
  ASSUME NEW p \in Pool, NEW s \in Session
  PROVE  /\ Release(p, s) \in Pool
         /\ p.total > 0 => Release(p, s).total = p.total - 1
         /\ p.perSession[s] > 0 =>
              Release(p, s).perSession =
                [t \in Session |-> p.perSession[t] - (IF t = s THEN 1 ELSE 0)]
         /\ Release(p, s).queue = p.queue
<1> DEFINE T == IF p.total > 0 THEN p.total - 1 ELSE 0
           P == [p.perSession EXCEPT ![s] = IF @ > 0 THEN @ - 1 ELSE 0]
<1>1. P \in [Session -> Nat] /\ T \in Nat
  BY DEF Pool
<1>2. p.total > 0 => T = p.total - 1
  OBVIOUS
<1>3. p.perSession[s] > 0 =>
        P = [t \in Session |-> p.perSession[t] - (IF t = s THEN 1 ELSE 0)]
  BY DEF Pool
<1>4. Release(p, s) = [p EXCEPT !.total = T, !.perSession = P]
  BY DEF Release, Pool
<1> HIDE DEF P, T
<1> QED BY <1>1, <1>2, <1>3, <1>4 DEF Pool

(* enqueue adds the job at the end.                                        *)
LEMMA EnqueueEffect ==
  ASSUME NEW p \in Pool, NEW j \in Job
  PROVE  /\ Enqueue(p, j) \in Pool
         /\ Enqueue(p, j).total = p.total
         /\ Enqueue(p, j).perSession = p.perSession
         /\ ToSet(Enqueue(p, j).queue) = ToSet(p.queue) \cup {j}
         /\ IsInjective(p.queue) /\ j \notin ToSet(p.queue)
              => IsInjective(Enqueue(p, j).queue)
<1> DEFINE q == p.queue
           r == Append(q, j)
<1>1. q \in Seq(Job)
  BY DEF Pool
<1>2. /\ r \in Seq(Job)
      /\ DOMAIN r = 1..(Len(q) + 1) /\ DOMAIN q = 1..Len(q) /\ Len(q) \in Nat
      /\ \A i \in 1..Len(q) : r[i] = q[i]
      /\ r[Len(q) + 1] = j
  BY <1>1, AppendProperties, LenProperties
<1>3. /\ Enqueue(p, j) \in Pool
      /\ Enqueue(p, j).total = p.total
      /\ Enqueue(p, j).perSession = p.perSession
      /\ Enqueue(p, j).queue = r
  BY <1>2 DEF Enqueue, Pool
<1> HIDE DEF r
<1>4. ToSet(r) = ToSet(q) \cup {j}
  BY <1>2 DEF ToSet
<1>5. ASSUME IsInjective(q), j \notin ToSet(q)
      PROVE  IsInjective(r)
  <2>1. \A i \in 1..Len(q) : q[i] # j
    BY <1>2, <1>5 DEF ToSet
  <2> SUFFICES ASSUME NEW a \in DOMAIN r, NEW b \in DOMAIN r, r[a] = r[b]
               PROVE  a = b
    BY DEF IsInjective
  <2>2. CASE a \in 1..Len(q) /\ b \in 1..Len(q)
    BY <2>2, <1>2, <1>5 DEF IsInjective
  <2>3. CASE a = Len(q) + 1 \/ b = Len(q) + 1
    BY <2>1, <2>3, <1>2
  <2> QED BY <2>2, <2>3, <1>2
<1> QED BY <1>3, <1>4, <1>5

(* remove_queued and remove_queued_for_session keep the other jobs.        *)
LEMMA FilterEffect ==
  ASSUME NEW p \in Pool, NEW S \in SUBSET (DOMAIN p.queue)
  PROVE  LET r == [p EXCEPT !.queue = Keep(@, S)] IN
         /\ r \in Pool /\ r.total = p.total /\ r.perSession = p.perSession
         /\ ToSet(r.queue) = {p.queue[i] : i \in S}
         /\ IsInjective(p.queue) => IsInjective(r.queue)
<1> DEFINE K == Keep(p.queue, S)
<1>1. p.queue \in Seq(Job)
  BY DEF Pool
<1>2. /\ K \in Seq(Job)
      /\ ToSet(K) = {p.queue[i] : i \in S}
      /\ IsInjective(p.queue) => IsInjective(K)
  BY <1>1, KeepProperties
<1> HIDE DEF K
<1>3. /\ [p EXCEPT !.queue = K] \in Pool
      /\ [p EXCEPT !.queue = K].total = p.total
      /\ [p EXCEPT !.queue = K].perSession = p.perSession
      /\ [p EXCEPT !.queue = K].queue = K
  BY <1>2 DEF Pool
<1> QED BY <1>2, <1>3 DEF K

(* remove_queued takes the job out of the queue and leaves the counts and  *)
(* the order of the others.                                                *)
LEMMA RemoveQueuedEffect ==
  ASSUME NEW p \in Pool, NEW j \in Job
  PROVE  /\ RemoveQueued(p, j) \in Pool
         /\ RemoveQueued(p, j).total = p.total
         /\ RemoveQueued(p, j).perSession = p.perSession
         /\ ToSet(RemoveQueued(p, j).queue) = ToSet(p.queue) \ {j}
         /\ IsInjective(p.queue) => IsInjective(RemoveQueued(p, j).queue)
<1> DEFINE S == {i \in DOMAIN p.queue : p.queue[i] # j}
<1>1. RemoveQueued(p, j) = [p EXCEPT !.queue = Keep(@, S)]
  BY DEF RemoveQueued
<1>2. S \in SUBSET (DOMAIN p.queue)
  OBVIOUS
<1>3. {p.queue[i] : i \in S} = ToSet(p.queue) \ {j}
  <2>1. ToSet(p.queue) = {p.queue[i] : i \in DOMAIN p.queue}
    BY QueuePositions
  <2> QED BY <2>1
<1> HIDE DEF S
<1> QED BY <1>1, <1>2, <1>3, FilterEffect

(* remove_queued_for_session takes out exactly the jobs of the session.    *)
LEMMA RemoveSessionEffect ==
  ASSUME NEW p \in Pool, NEW s \in Session
  PROVE  LET r == RemoveQueuedForSession(p, s) IN
         /\ r \in Pool /\ r.total = p.total /\ r.perSession = p.perSession
         /\ ToSet(r.queue) = {j \in ToSet(p.queue) : SessionOf[j] # s}
         /\ IsInjective(p.queue) => IsInjective(r.queue)
<1> DEFINE S == {i \in DOMAIN p.queue : SessionOf[p.queue[i]] # s}
<1>1. RemoveQueuedForSession(p, s) = [p EXCEPT !.queue = Keep(@, S)]
  BY DEF RemoveQueuedForSession
<1>2. S \in SUBSET (DOMAIN p.queue)
  OBVIOUS
<1>3. {p.queue[i] : i \in S} = {j \in ToSet(p.queue) : SessionOf[j] # s}
  <2>1. ToSet(p.queue) = {p.queue[i] : i \in DOMAIN p.queue}
    BY QueuePositions
  <2> QED BY <2>1
<1> HIDE DEF S
<1> QED BY <1>1, <1>2, <1>3, FilterEffect

(* take_next takes a job of the queue out of it and counts it.             *)
LEMMA TakeEffect ==
  ASSUME NEW p \in Pool, CanTake(p), IsInjective(p.queue)
  PROVE  LET j == NextJob(p) IN
         /\ Take(p) \in Pool /\ j \in ToSet(p.queue) /\ j \in Job
         /\ Take(p).total = p.total + 1
         /\ Take(p).perSession =
              [t \in Session |->
                 p.perSession[t] + (IF t = SessionOf[j] THEN 1 ELSE 0)]
         /\ ToSet(Take(p).queue) = ToSet(p.queue) \ {j}
         /\ IsInjective(Take(p).queue)
<1> DEFINE n == PickFair(p)
           S == DOMAIN p.queue \ {n}
           r == [p EXCEPT !.queue = Keep(@, S)]
           j == NextJob(p)
<1>1. n \in DOMAIN p.queue
  BY PickFairOldest DEF CanTake, Eligible
<1>2. j = p.queue[n] /\ j \in ToSet(p.queue) /\ j \in Job
  BY <1>1, QueuePositions DEF NextJob
<1>3. {p.queue[i] : i \in S} = ToSet(p.queue) \ {j}
  <2>1. \A i \in S : p.queue[i] # j
    BY <1>1, <1>2 DEF IsInjective
  <2>2. ToSet(p.queue) = {p.queue[i] : i \in DOMAIN p.queue}
    BY QueuePositions
  <2>3. \A x : x \in {p.queue[i] : i \in S} <=> x \in ToSet(p.queue) /\ x # j
    BY <2>1, <2>2, <1>2
  <2> QED BY <2>3
<1>4. S \in SUBSET (DOMAIN p.queue)
  OBVIOUS
<1>5. Take(p) = ReserveForced(r, SessionOf[j])
  BY DEF Take
<1> HIDE DEF S, n, j
<1>6. /\ r \in Pool /\ r.total = p.total /\ r.perSession = p.perSession
      /\ ToSet(r.queue) = ToSet(p.queue) \ {j}
      /\ IsInjective(r.queue)
  BY <1>3, <1>4, FilterEffect
<1>7. SessionOf[j] \in Session
  BY <1>2, PoolAssumption
<1> HIDE DEF r
<1>8. /\ Take(p) \in Pool /\ Take(p).total = r.total + 1
      /\ Take(p).perSession =
           [t \in Session |->
              r.perSession[t] + (IF t = SessionOf[j] THEN 1 ELSE 0)]
      /\ Take(p).queue = r.queue
  BY <1>5, <1>6, <1>7, ReserveEffect
<1> QED BY <1>2, <1>6, <1>8 DEF j

-----------------------------------------------------------------------------
(* The row operators stay within the table's type.                         *)
LEMMA RowTypes ==
  /\ NoRow \in Row /\ NewRow("queued") \in Row /\ NewRow("running") \in Row
  /\ \A row \in Row :
       /\ MarkRunning(row) \in Row /\ Park(row) \in Row /\ Resume(row) \in Row
       /\ MarkCancelling(row) \in Row /\ RequestCancel(row) \in Row
       /\ MarkInjected(row) \in Row
       /\ \A st \in Terminal : Settle(row, st) \in Row
<1>1. NoRow \in Row /\ NewRow("queued") \in Row /\ NewRow("running") \in Row
  BY DEF NoRow, NewRow, Row, Status, Terminal, Active
<1> SUFFICES ASSUME NEW row \in Row
             PROVE  /\ MarkRunning(row) \in Row /\ Park(row) \in Row
                    /\ Resume(row) \in Row /\ MarkCancelling(row) \in Row
                    /\ RequestCancel(row) \in Row /\ MarkInjected(row) \in Row
                    /\ \A st \in Terminal : Settle(row, st) \in Row
  BY <1>1
<1>2. ASSUME NEW st \in Status
      PROVE  [row EXCEPT !.status = st] \in Row
  BY DEF Row
<1>3. /\ [row EXCEPT !.injected = TRUE] \in Row
      /\ [row EXCEPT !.cancelRequested = TRUE] \in Row
  BY DEF Row
<1>4. /\ {"running", "awaiting_approval", "cancelling"} \subseteq Status
      /\ Terminal \subseteq Status
  BY DEF Status, Terminal, Active
<1>5. MarkRunning(row) \in Row /\ Park(row) \in Row /\ Resume(row) \in Row
  BY <1>2, <1>4 DEF MarkRunning, Park, Resume
<1>6. MarkCancelling(row) \in Row
  BY <1>2, <1>4 DEF MarkCancelling
<1>7. RequestCancel(row) \in Row /\ MarkInjected(row) \in Row
  BY <1>3 DEF RequestCancel, MarkInjected
<1>8. \A st \in Terminal : Settle(row, st) \in Row
  BY <1>2, <1>4 DEF Settle
<1> QED BY <1>5, <1>6, <1>7, <1>8

(* The pool operators, as the actions use them.                            *)
LEMMA PoolTypes ==
  /\ EmptyPool \in Pool
  /\ \A p \in Pool : \A j \in Job :
       /\ ReserveForced(p, SessionOf[j]) \in Pool
       /\ Release(p, SessionOf[j]) \in Pool
       /\ Enqueue(p, j) \in Pool /\ RemoveQueued(p, j) \in Pool
  /\ \A p \in Pool : \A s \in Session : RemoveQueuedForSession(p, s) \in Pool
<1>1. \A j \in Job : SessionOf[j] \in Session
  BY PoolAssumption
<1> QED
  BY <1>1, EmptyPoolType, ReserveEffect, ReleaseEffect, EnqueueEffect,
     RemoveQueuedEffect, RemoveSessionEffect

(* The job the scheduler would take is a job, and taking it keeps a pool.  *)
LEMMA TakeTypes ==
  ASSUME NEW p \in Pool, CanTake(p)
  PROVE  NextJob(p) \in Job /\ Take(p) \in Pool
<1> DEFINE S == DOMAIN p.queue \ {PickFair(p)}
           r == [p EXCEPT !.queue = Keep(@, S)]
           j == NextJob(p)
<1>1. PickFair(p) \in DOMAIN p.queue
  BY PickFairOldest DEF CanTake, Eligible
<1>2. j \in Job /\ SessionOf[j] \in Session
  BY <1>1, QueuePositions, PoolAssumption DEF NextJob
<1>3. S \in SUBSET (DOMAIN p.queue)
  OBVIOUS
<1>4. r \in Pool
  <2> HIDE DEF S
  <2> QED BY <1>3, FilterEffect
<1>5. Take(p) = ReserveForced(r, SessionOf[j])
  BY DEF Take
<1> HIDE DEF r, j
<1> QED BY <1>2, <1>4, <1>5, ReserveEffect DEF j

-----------------------------------------------------------------------------
(* Type correctness.  finalize_job writes the verdict of the dispatch into *)
(* the row, so the type of the table also needs to know that a dispatch    *)
(* that has ended has a verdict.                                           *)

VerdictKnown == \A j \in Job : pc[j] = "settle" => verdict[j] # "none"

Typed == TypeOK /\ VerdictKnown

(* The initial state is typed (SlotManager::new, an empty table).          *)
LEMMA TypedInit == Init => Typed
BY RowTypes, PoolTypes, ProcAssumption
   DEF Init, Typed, TypeOK, VerdictKnown, PC, CancelPC, Verdict, Idle, NoReplay

(* The pieces of actions that several of them share.                       *)
LEMMA DropSlotTypes ==
  ASSUME TypeOK, NEW j \in Job, DropSlot(j)
  PROVE  /\ slot' \in [Job -> {"none", "admitted", "forced"}]
         /\ pool' \in [Proc -> Pool]
         /\ wake' \in [Proc -> BOOLEAN]
<1>1. CASE home[j] \in Proc
  <2>1. Release(pool[home[j]], SessionOf[j]) \in Pool
    BY <1>1, PoolTypes DEF TypeOK
  <2> QED BY <2>1 DEF TypeOK, DropSlot
<1>2. CASE home[j] \notin Proc
  BY <1>2 DEF TypeOK, DropSlot
<1> QED BY <1>1, <1>2

(* Moving a call of cancel_job to its next step keeps the type of canc.    *)
LEMMA CancelGotoTypes ==
  ASSUME TypeOK, NEW j \in Job, NEW l \in CancelPC, CancelGoto(j, l)
  PROVE  canc' \in [Job -> [pc : CancelPC, proc : Proc \cup {NoProc},
                           signalled : BOOLEAN]]
<1> DEFINE c == canc[j]
           C == [pc : CancelPC, proc : Proc \cup {NoProc}, signalled : BOOLEAN]
<1>1. c \in C /\ canc \in [Job -> C]
  BY DEF TypeOK
<1>2. canc' = [canc EXCEPT ![j] = [c EXCEPT !.pc = l]]
  BY DEF CancelGoto
<1>3. [c EXCEPT !.pc = l] \in C
  BY <1>1
<1> QED BY <1>1, <1>2, <1>3

(* Writing a row of the right type keeps the type of the table.            *)
LEMMA UpdateTypes ==
  ASSUME TypeOK, NEW j \in Job, NEW row \in Row, Update(j, row)
  PROVE  rows' \in [Job -> Row]
BY DEF TypeOK, Update

(* Firing a terminal hook keeps the count within its bound.                *)
LEMMA FireHookTypes ==
  ASSUME TypeOK, NEW j \in Job, FireHook(j)
  PROVE  hooks' \in [Job -> 0..2]
<1>1. hooks[j] \in 0..2 /\ hooks \in [Job -> 0..2]
  BY DEF TypeOK
<1>2. (IF hooks[j] < 2 THEN hooks[j] + 1 ELSE 2) \in 0..2
  BY <1>1
<1> QED BY <1>1, <1>2 DEF FireHook

(* Every step keeps every variable in its type: one case per action of     *)
(* spawn.rs, slots.rs and mod.rs.                                          *)
LEMMA TypedStep ==
  ASSUME Typed, [Next]_vars
  PROVE  Typed'
<1> USE DEF Typed, TypeOK, VerdictKnown, jobVars, poolVars, procVars
<1>1. ASSUME NEW j \in Job, InsertRow(j)
      PROVE  Typed'
  BY <1>1, RowTypes, PoolTypes DEF InsertRow, Update, Goto, PC
<1>2. ASSUME NEW j \in Job, InsertFails(j)
      PROVE  Typed'
  <2>1. CASE slot[j] = "none"
    BY <1>2, <2>1 DEF InsertFails, Goto, PC
  <2>2. CASE slot[j] # "none"
    BY <1>2, <2>2, DropSlotTypes DEF InsertFails, Goto, PC
  <2> QED BY <2>1, <2>2
<1>3. ASSUME NEW j \in Job, EnqueueJob(j)
      PROVE  Typed'
  BY <1>3, RowTypes, PoolTypes DEF EnqueueJob, Goto, PC
<1>4. ASSUME NEW j \in Job, RejectJob(j)
      PROVE  Typed'
  BY <1>4, RowTypes, PoolTypes DEF RejectJob, Update, Goto, PC
<1>5. ASSUME NEW j \in Job, PromoteRow(j)
      PROVE  Typed'
  <2>1. rows' \in [Job -> Row]
    BY <1>5, UpdateTypes, RowTypes DEF PromoteRow
  <2>2. CASE CanMarkRunning(rows[j])
    BY <1>5, <2>1, <2>2 DEF PromoteRow, Goto, PC
  <2>3. CASE ~CanMarkRunning(rows[j])
    <3>1. DropSlot(j) /\ pc' = [pc EXCEPT ![j] = "dropped"]
      <4> HIDE DEF TypeOK, VerdictKnown, jobVars, poolVars, procVars
      <4>1. Goto(j, "dropped") /\ DropSlot(j)
        BY <1>5, <2>3, Zenon DEF PromoteRow
      <4> QED BY <4>1 DEF Goto
    <3>2. pc' \in [Job -> PC]
      BY <3>1 DEF PC
    <3>3. /\ slot' \in [Job -> {"none", "admitted", "forced"}]
          /\ pool' \in [Proc -> Pool] /\ wake' \in [Proc -> BOOLEAN]
      BY <3>1, DropSlotTypes
    <3>4. UNCHANGED <<home, registered, tripped, verdict, expired, sched,
                      canc, handed, hooks, procVars>>
      BY <1>5 DEF PromoteRow
    <3>5. \A i \in Job : pc'[i] = "settle" => verdict'[i] # "none"
      BY <3>1, <3>4
    <3> QED BY <2>1, <3>2, <3>3, <3>4, <3>5
  <2> QED BY <2>2, <2>3
<1>6. ASSUME NEW j \in Job, PromoteFails(j)
      PROVE  Typed'
  BY <1>6, DropSlotTypes DEF PromoteFails, Goto, PC
<1>7. ASSUME NEW j \in Job, StartRunner(j)
      PROVE  Typed'
  BY <1>7, RowTypes, PoolTypes DEF StartRunner, Goto, PC
<1>8. ASSUME NEW j \in Job, RunnerFails(j)
      PROVE  Typed'
  BY <1>8, RowTypes, PoolTypes DEF RunnerFails, Update, Goto, PC, Verdict,
     Terminal
<1>9. ASSUME NEW j \in Job, SettleRow(j)
      PROVE  Typed'
  BY <1>9, RowTypes, PoolTypes DEF SettleRow, Update, Goto, PC, Verdict,
     Terminal
<1>10. ASSUME NEW j \in Job, SettleLost(j)
      PROVE  Typed'
  BY <1>10, RowTypes, PoolTypes DEF SettleLost, Goto, PC
<1>11. ASSUME NEW j \in Job, WrapUp(j)
      PROVE  Typed'
  <2>1. rows' \in [Job -> Row] /\ hooks' \in [Job -> 0..2]
    BY <1>11, UpdateTypes, FireHookTypes, RowTypes DEF WrapUp
  <2>2. handed' \in [Proc -> SUBSET Job]
    BY <1>11 DEF WrapUp
  <2> QED BY <1>11, <2>1, <2>2 DEF WrapUp, Goto, PC
<1>12. ASSUME NEW j \in Job, ExitRunner(j)
      PROVE  Typed'
  BY <1>12, DropSlotTypes DEF ExitRunner, Goto, PC
<1>13. ASSUME NEW j \in Job, ToolReturns(j)
      PROVE  Typed'
  <2>1. PICK v \in {"completed", "failed", "cancelled"} : EndDispatch(j, v)
    BY <1>13 DEF ToolReturns, Classify
  <2> QED BY <1>13, <2>1 DEF ToolReturns, EndDispatch, Goto, PC, Verdict
<1>14. ASSUME NEW j \in Job, BudgetExpires(j)
      PROVE  Typed'
  BY <1>14, RowTypes, PoolTypes DEF BudgetExpires, EndDispatch, Goto,
     Classify, PC, Verdict
<1>15. ASSUME NEW j \in Job, ParkApproval(j)
      PROVE  Typed'
  BY <1>15, RowTypes, PoolTypes DEF ParkApproval, Update, Goto, PC
<1>16. ASSUME NEW j \in Job, ResumeApproval(j)
      PROVE  Typed'
  BY <1>16, RowTypes, PoolTypes DEF ResumeApproval, Update, Goto, PC
<1>17. ASSUME NEW j \in Job, DenyApproval(j)
      PROVE  Typed'
  BY <1>17, RowTypes, PoolTypes DEF DenyApproval, EndDispatch, Goto, Classify,
     PC, Verdict
<1>18. ASSUME NEW j \in Job, CancelUnqueue(j)
      PROVE  Typed'
  <2>1. CASE InQueue(pool[canc[j].proc], j)
    <3>1. pool' \in [Proc -> Pool]
      <4>1. canc[j].proc \in Proc =>
              RemoveQueued(pool[canc[j].proc], j) \in Pool
        BY PoolTypes
      <4>2. pool' = [pool EXCEPT ![canc[j].proc] =
                       RemoveQueued(pool[canc[j].proc], j)]
        BY <1>18, <2>1 DEF CancelUnqueue
      <4> QED BY <4>1, <4>2
    <3>2. CancelGoto(j, "settle") /\ "settle" \in CancelPC
      BY <1>18, <2>1 DEF CancelUnqueue, CancelPC
    <3> QED BY <1>18, <2>1, <3>1, <3>2, CancelGotoTypes
            DEF CancelUnqueue, Goto, PC
  <2>2. CASE ~InQueue(pool[canc[j].proc], j)
    <3>1. CancelGoto(j, "flag") /\ "flag" \in CancelPC
      BY <1>18, <2>2 DEF CancelUnqueue, CancelPC
    <3> QED BY <1>18, <2>2, <3>1, CancelGotoTypes DEF CancelUnqueue
  <2> QED BY <2>1, <2>2
<1>19. ASSUME NEW j \in Job, CancelFlag(j)
      PROVE  Typed'
  <2>1. CancelGoto(j, "trip") /\ "trip" \in CancelPC
    BY <1>19 DEF CancelFlag, CancelPC
  <2>2. rows' \in [Job -> Row]
    BY <1>19, UpdateTypes, RowTypes DEF CancelFlag
  <2> QED BY <1>19, <2>1, <2>2, CancelGotoTypes DEF CancelFlag
<1>20. ASSUME NEW j \in Job, CancelTrip(j)
      PROVE  Typed'
  <2> DEFINE found == Owned(j) /\ registered[j]
             c == canc[j]
             C == [pc : CancelPC, proc : Proc \cup {NoProc},
                   signalled : BOOLEAN]
  <2>1. found \in BOOLEAN
    BY DEF Owned
  <2>2. c \in C /\ "dismiss" \in CancelPC
    BY DEF CancelPC
  <2>3. /\ tripped' = [tripped EXCEPT ![j] = @ \/ found]
        /\ canc' = [canc EXCEPT ![j] =
                      [c EXCEPT !.pc = "dismiss", !.signalled = found]]
    BY <1>20 DEF CancelTrip
  <2> HIDE DEF found
  <2>4. [c EXCEPT !.pc = "dismiss", !.signalled = found] \in C
    BY <2>1, <2>2
  <2>5. canc' \in [Job -> C]
    BY <2>3, <2>4
  <2>6. tripped' \in [Job -> BOOLEAN]
    BY <2>1, <2>3
  <2> QED BY <1>20, <2>5, <2>6 DEF CancelTrip
<1>21. ASSUME NEW j \in Job, CancelDismiss(j)
      PROVE  Typed'
  <2>1. CancelGoto(j, "mark") /\ "mark" \in CancelPC
    BY <1>21 DEF CancelDismiss, CancelPC
  <2> QED BY <1>21, <2>1, CancelGotoTypes DEF CancelDismiss, Goto, PC
<1>22. ASSUME NEW j \in Job, CancelMark(j)
      PROVE  Typed'
  <2>1. rows' \in [Job -> Row]
    BY <1>22, UpdateTypes, RowTypes DEF CancelMark
  <2>2. CASE CancelGoto(j, "force")
    BY <1>22, <2>1, <2>2, CancelGotoTypes DEF CancelMark, CancelPC
  <2>3. CASE canc' = [canc EXCEPT ![j] = Idle]
    BY <1>22, <2>1, <2>3 DEF CancelMark, Idle, CancelPC
  <2> QED BY <1>22, <2>2, <2>3 DEF CancelMark
<1>23. ASSUME NEW j \in Job, CancelSettle(j)
      PROVE  Typed'
  <2>1. CancelGoto(j, "announce") /\ "announce" \in CancelPC
    BY <1>23 DEF CancelSettle, CancelPC
  <2>2. rows' \in [Job -> Row]
    BY <1>23, UpdateTypes, RowTypes DEF CancelSettle, Terminal
  <2> QED BY <1>23, <2>1, <2>2, CancelGotoTypes DEF CancelSettle
<1>24. ASSUME NEW j \in Job, CancelAnnounce(j)
      PROVE  Typed'
  <2>1. rows' \in [Job -> Row] /\ hooks' \in [Job -> 0..2]
    BY <1>24, UpdateTypes, FireHookTypes, RowTypes DEF CancelAnnounce
  <2>2. canc' \in [Job -> [pc : CancelPC, proc : Proc \cup {NoProc},
                          signalled : BOOLEAN]]
    <3>1. Idle \in [pc : CancelPC, proc : Proc \cup {NoProc},
                    signalled : BOOLEAN]
      BY DEF Idle, CancelPC
    <3> QED BY <1>24, <3>1 DEF CancelAnnounce
  <2>3. pc' = pc \/ pc' = [pc EXCEPT ![j] = "done"]
    BY <1>24 DEF CancelAnnounce, Goto
  <2>4. pc' \in [Job -> PC]
    BY <2>3 DEF PC
  <2>5. \A i \in Job : pc'[i] = "settle" => verdict'[i] # "none"
    BY <1>24, <2>3 DEF CancelAnnounce
  <2> QED BY <1>24, <2>1, <2>2, <2>4, <2>5 DEF CancelAnnounce
<1>25. ASSUME NEW j \in Job, ToolCancelled(j)
      PROVE  Typed'
  BY <1>25, RowTypes, PoolTypes DEF ToolCancelled, EndDispatch, Goto, PC,
     CancelPC, Verdict
<1>26. ASSUME NEW j \in Job, PollCancelFlag(j)
      PROVE  Typed'
  BY <1>26, RowTypes, PoolTypes DEF PollCancelFlag, CancelPC
<1>27. ASSUME NEW j \in Job, NEW p \in Proc, Spawn(j, p)
      PROVE  Typed'
  <2>1. pool' \in [Proc -> Pool]
    <3>1. ReserveForced(pool[p], SessionOf[j]) \in Pool
      BY PoolTypes
    <3>2. \/ pool' = [pool EXCEPT ![p] = ReserveForced(pool[p], SessionOf[j])]
          \/ pool' = pool
      BY <1>27 DEF Spawn
    <3> QED BY <3>1, <3>2
  <2>2. slot' \in [Job -> {"none", "admitted", "forced"}]
    BY <1>27 DEF Spawn
  <2> QED BY <1>27, <2>1, <2>2 DEF Spawn, Goto, PC
<1>28. ASSUME NEW j \in Job, NEW p \in Proc, Detach(j, p)
      PROVE  Typed'
  BY <1>28, RowTypes, PoolTypes DEF Detach, Update, Goto, PC
<1>29. ASSUME NEW j \in Job, NEW p \in Proc, BeginCancel(j, p)
      PROVE  Typed'
  BY <1>29, RowTypes, PoolTypes DEF BeginCancel, CancelOf, CancelPC, Idle
<1>30. ASSUME NEW p \in Proc, NEW j \in Job, InjectResult(p, j)
      PROVE  Typed'
  BY <1>30, RowTypes, PoolTypes DEF InjectResult, Update
<1>31. ASSUME NEW p \in Proc, WakeScheduler(p)
      PROVE  Typed'
  BY <1>31, RowTypes, PoolTypes DEF WakeScheduler
<1>32. ASSUME NEW p \in Proc, TakeJob(p)
      PROVE  Typed'
  BY <1>32, RowTypes, PoolTypes, TakeTypes DEF TakeJob, Goto, PC
<1>33. ASSUME NEW p \in Proc, SchedulerParks(p)
      PROVE  Typed'
  BY <1>33, RowTypes, PoolTypes DEF SchedulerParks
<1>34. ASSUME NEW p \in Proc, ReplayList(p)
      PROVE  Typed'
  BY <1>34, RowTypes, PoolTypes DEF ReplayList, ReplayGoto, PC
<1>35. ASSUME NEW p \in Proc, ReplayPending(p)
      PROVE  Typed'
  BY <1>35, RowTypes, PoolTypes DEF ReplayPending, ReplayGoto, PC
<1>36. ASSUME NEW p \in Proc, ReplayEnds(p)
      PROVE  Typed'
  BY <1>36, RowTypes, PoolTypes DEF ReplayEnds, NoReplay
<1>37. ASSUME NEW p \in Proc, NEW j \in Job, ReplayInterrupt(p, j)
      PROVE  Typed'
  BY <1>37, RowTypes, PoolTypes DEF ReplayInterrupt, ReplayGoto, Update, PC,
     Terminal
<1>38. ASSUME NEW p \in Proc, NEW j \in Job, ReplayDispatch(p, j)
      PROVE  Typed'
  <2>1. rows' \in [Job -> Row] /\ hooks' \in [Job -> 0..2]
    BY <1>38, UpdateTypes, FireHookTypes, RowTypes DEF ReplayDispatch
  <2>2. handed' \in [Proc -> SUBSET Job]
    <3>1. \/ handed' = [handed EXCEPT ![p] = handed[p] \cup {j}]
          \/ handed' = handed
      BY <1>38 DEF ReplayDispatch
    <3>2. handed[p] \cup {j} \in SUBSET Job
      OBVIOUS
    <3> QED BY <3>1, <3>2
  <2> QED BY <1>38, <2>1, <2>2 DEF ReplayDispatch, ReplayGoto
<1>39. ASSUME NEW p \in Proc, StartProcess(p)
      PROVE  Typed'
  <2>1. replay' \in [Proc -> [pc : {"off", "list", "interrupt", "pending",
                                  "dispatch"},
                            work : SUBSET Job]]
    <3> DEFINE r == [NoReplay EXCEPT !.pc = "list"]
           R == [pc : {"off", "list", "interrupt", "pending", "dispatch"},
                 work : SUBSET Job]
    <3>0. NoReplay \in R
      BY DEF NoReplay
    <3>1. r \in R
      BY <3>0
    <3>2. CASE primary = NoProc
      <4>1. replay' = [replay EXCEPT ![p] = r]
        BY <1>39, <3>2 DEF StartProcess
      <4> HIDE DEF r
      <4> QED BY <3>1, <4>1
    <3>3. CASE primary # NoProc
      BY <1>39, <3>3 DEF StartProcess
    <3> QED BY <3>2, <3>3
  <2> QED BY <1>39, <2>1 DEF StartProcess
<1>40. ASSUME NEW p \in Proc, Crash(p)
      PROVE  Typed'
  <2>1. /\ pool' \in [Proc -> Pool] /\ pc' \in [Job -> PC]
        /\ registered' \in [Job -> BOOLEAN]
        /\ slot' \in [Job -> {"none", "admitted", "forced"}]
    BY <1>40, PoolTypes DEF Crash, PC
  <2>2. /\ wake' \in [Proc -> BOOLEAN]
        /\ sched' \in [Proc -> {"parked", "draining"}]
        /\ handed' \in [Proc -> SUBSET Job]
    BY <1>40 DEF Crash
  <2>3. canc' \in [Job -> [pc : CancelPC, proc : Proc \cup {NoProc},
                          signalled : BOOLEAN]]
    BY <1>40 DEF Crash, Idle, CancelPC
  <2>4. replay' \in [Proc -> [pc : {"off", "list", "interrupt", "pending",
                                  "dispatch"},
                            work : SUBSET Job]]
    BY <1>40 DEF Crash, NoReplay
  <2>5. /\ up' \in SUBSET Proc /\ primary' \in Proc \cup {NoProc}
        /\ crashes' \in 0..MaxCrashes
    BY <1>40, ProcAssumption DEF Crash
  <2>6. \A i \in Job : pc'[i] = "settle" => verdict[i] # "none"
    BY <1>40 DEF Crash
  <2> QED BY <1>40, <2>1, <2>2, <2>3, <2>4, <2>5, <2>6 DEF Crash
<1>41. ASSUME NEW s \in Session, NEW p \in Proc, PurgeSession(s, p)
      PROVE  Typed'
  BY <1>41, RowTypes, PoolTypes DEF PurgeSession, PC
<1>42. CASE UNCHANGED vars
  BY <1>42 DEF vars
<1> QED
  BY <1>1, <1>2, <1>3, <1>4, <1>5, <1>6, <1>7, <1>8, <1>9, <1>10, <1>11,
     <1>12, <1>13, <1>14, <1>15, <1>16, <1>17, <1>18, <1>19, <1>20, <1>21,
     <1>22, <1>23, <1>24, <1>25, <1>26, <1>27, <1>28, <1>29, <1>30, <1>31,
     <1>32, <1>33, <1>34, <1>35, <1>36, <1>37, <1>38, <1>39, <1>40, <1>41,
     <1>42
     DEF Next, SpawnStep, RunnerStep, ToolStep, CancelStep, SchedulerStep,
         ReplayStep

(* Every variable keeps its type in every behaviour.                       *)
THEOREM TypeCorrect == Spec => []TypeOK
<1>1. Spec => []Typed
  BY TypedInit, TypedStep, PTL DEF Spec
<1>2. Typed => TypeOK
  BY DEF Typed
<1> QED BY <1>1, <1>2, PTL

-----------------------------------------------------------------------------
(* Slot accounting.  The balance of slots and the shape of the queue are   *)
(* not inductive by themselves: a reservation is dropped at the program    *)
(* points where the code knows that it has one, so the invariant also says *)
(* at which points a job has one.  It says too that the holders are finite *)
(* in number, although the jobs may not be.                                *)

Seated == {"taken", "start", "run", "parked", "dismissed", "settle",
           "wrapup", "exit"}

Waiting == {"enqueue", "unqueued", "done", "dropped", "gone"}

SeatFollowsPc ==
  \A j \in Job :
    /\ pc[j] \in Seated => slot[j] # "none"
    /\ pc[j] \notin Seated \cup {"insert"} => slot[j] = "none"
    /\ pc[j] # "idle" => home[j] \in Proc

FiniteHolders == \A p \in Proc : IsFiniteSet(Holders(p))

Counted == FiniteHolders /\ SlotsBalanced /\ AdmissionCaps

SlotInv == Counted /\ QueueExclusive /\ SeatFollowsPc

(* One more, or one less.                                                  *)
LEMMA OneMore ==
  ASSUME NEW S, IsFiniteSet(S), NEW x, x \notin S, NEW T, T = S \cup {x}
  PROVE  Cardinality(T) = Cardinality(S) + 1
BY FS_AddElement

(* Taking one element away lowers a cardinality by one: a reservation that *)
(* drops is one holder less.                                               *)
LEMMA OneLess ==
  ASSUME NEW S, IsFiniteSet(S), NEW x, x \in S, NEW T, T = S \ {x}
  PROVE  /\ IsFiniteSet(T) /\ Cardinality(T) = Cardinality(S) - 1
         /\ Cardinality(S) \in Nat \ {0}
<1>1. Cardinality(S) # 0
  BY FS_EmptySet
<1>2. IsFiniteSet(T) /\ Cardinality(T) = Cardinality(S) - 1
  BY FS_RemoveElement
<1> QED BY <1>1, <1>2, FS_CardinalityType

(* Nothing was reserved or released.                                       *)
LEMMA CountsStay ==
  ASSUME Counted, UNCHANGED slot,
         \A i \in Job : slot[i] # "none" => home'[i] = home[i],
         \A q \in Proc : /\ pool'[q].total = pool[q].total
                         /\ pool'[q].perSession = pool[q].perSession
  PROVE  Counted'
<1>1. \A q \in Proc : Holders(q)' = Holders(q)
  BY DEF Holders
<1>2. \A q \in Proc, s \in Session : HoldersIn(q, s)' = HoldersIn(q, s)
  BY <1>1 DEF HoldersIn
<1>3. FiniteHolders'
  BY <1>1 DEF Counted, FiniteHolders
<1>4. SlotsBalanced'
  BY <1>1, <1>2 DEF Counted, SlotsBalanced
<1>5. AdmissionCaps'
  BY <1>1 DEF Counted, AdmissionCaps
<1> QED BY <1>3, <1>4, <1>5 DEF Counted

(* A job got a slot in process p.                                          *)
LEMMA CountsGrow ==
  ASSUME TypeOK, Counted, NEW j \in Job, NEW p \in Proc,
         NEW x \in {"admitted", "forced"},
         slot[j] = "none", slot' = [slot EXCEPT ![j] = x],
         home'[j] = p, \A i \in Job \ {j} : home'[i] = home[i],
         x = "admitted" =>
           ~AtCap(pool[p]) /\ ~SessionAtCap(pool[p], SessionOf[j]),
         pool'[p].total = pool[p].total + 1,
         pool'[p].perSession =
           [t \in Session |->
              pool[p].perSession[t] + (IF t = SessionOf[j] THEN 1 ELSE 0)],
         \A q \in Proc \ {p} : pool'[q] = pool[q]
  PROVE  Counted'
<1> DEFINE Admitted(q) == {i \in Holders(q) : slot[i] = "admitted"}
           AdmittedIn(q, s) == {i \in Admitted(q) : SessionOf[i] = s}
<1>1. Holders(p)' = Holders(p) \cup {j} /\ j \notin Holders(p)
  BY DEF Holders, TypeOK
<1>2. \A q \in Proc \ {p} : Holders(q)' = Holders(q)
  BY DEF Holders, TypeOK
<1>3. \A q \in Proc : IsFiniteSet(Holders(q))
  BY DEF Counted, FiniteHolders
<1>4. \A q \in Proc : IsFiniteSet(Holders(q)')
  <2>1. IsFiniteSet(Holders(p)')
    BY <1>1, <1>3, FS_AddElement
  <2> QED BY <2>1, <1>2, <1>3
<1>5. Cardinality(Holders(p)') = Cardinality(Holders(p)) + 1
  BY <1>1, <1>3, OneMore
<1>6. \A s \in Session : Cardinality(HoldersIn(p, s)') =
        Cardinality(HoldersIn(p, s)) + (IF s = SessionOf[j] THEN 1 ELSE 0)
  <2> TAKE s \in Session
  <2>1. HoldersIn(p, s) \in SUBSET Holders(p)
    BY DEF HoldersIn
  <2>2. IsFiniteSet(HoldersIn(p, s)) /\ Cardinality(HoldersIn(p, s)) \in Nat
    BY <2>1, <1>3, FS_Subset, FS_CardinalityType
  <2>3. CASE s = SessionOf[j]
    <3>1. /\ HoldersIn(p, s)' = HoldersIn(p, s) \cup {j}
          /\ j \notin HoldersIn(p, s)
      BY <1>1, <2>3 DEF HoldersIn
    <3> QED BY <3>1, <2>2, <2>3, OneMore
  <2>4. CASE s # SessionOf[j]
    <3>1. HoldersIn(p, s)' = HoldersIn(p, s)
      BY <1>1, <2>4 DEF HoldersIn
    <3> QED BY <3>1, <2>2, <2>4
  <2> QED BY <2>3, <2>4
<1>7. SlotsBalanced'
  <2>1. pool'[p].total = Cardinality(Holders(p)')
    BY <1>5 DEF Counted, SlotsBalanced
  <2>2. \A s \in Session :
          pool'[p].perSession[s] = Cardinality(HoldersIn(p, s)')
    BY <1>6 DEF Counted, SlotsBalanced
  <2>3. ASSUME NEW q \in Proc \ {p}
        PROVE  /\ pool'[q].total = Cardinality(Holders(q)')
               /\ \A s \in Session :
                    pool'[q].perSession[s] = Cardinality(HoldersIn(q, s)')
    <3>1. \A s \in Session : HoldersIn(q, s)' = HoldersIn(q, s)
      BY <1>2 DEF HoldersIn
    <3> QED BY <3>1, <1>2 DEF Counted, SlotsBalanced
  <2> QED BY <2>1, <2>2, <2>3 DEF SlotsBalanced
<1>8. AdmissionCaps'
  <2>1. ASSUME NEW q \in Proc, q # p \/ x = "forced"
        PROVE  Admitted(q)' = Admitted(q)
    <3>1. CASE q # p
      <4>1. Holders(q)' = Holders(q) /\ j \notin Holders(q)
        BY <3>1, <1>2 DEF Holders
      <4> QED BY <4>1 DEF TypeOK
    <3>2. CASE q = p /\ x = "forced"
      <4>1. Holders(q)' = Holders(q) \cup {j} /\ slot'[j] = "forced"
        BY <3>2, <1>1 DEF TypeOK
      <4> QED BY <4>1, <1>1, <3>2 DEF TypeOK
    <3> QED BY <2>1, <3>1, <3>2
  <2>2. ASSUME x = "admitted"
        PROVE  /\ Cap # 0 => Cardinality(Admitted(p)') <= Cap
               /\ SessionCap # 0 => \A s \in Session :
                    Cardinality(AdmittedIn(p, s)') <= SessionCap
    <3>1. pool[p] \in Pool
      BY DEF TypeOK
    <3>2. ASSUME Cap # 0
          PROVE  Cardinality(Admitted(p)') <= Cap
      <4>1. Admitted(p)' \in SUBSET Holders(p)'
        OBVIOUS
      <4>2. Cardinality(Admitted(p)') <= Cardinality(Holders(p)')
        <5> HIDE DEF Admitted
        <5> QED BY <4>1, <1>4, FS_Subset
      <4>3. IsFiniteSet(Admitted(p)') /\ Cardinality(Admitted(p)') \in Nat
        <5> HIDE DEF Admitted
        <5> QED BY <4>1, <1>4, FS_Subset, FS_CardinalityType
      <4>4. Cardinality(Holders(p)') = pool[p].total + 1
        BY <1>5 DEF Counted, SlotsBalanced
      <4>5. pool[p].total \in Nat /\ pool[p].total < Cap
        BY <2>2, <3>1, <3>2, PoolAssumption DEF Pool, AtCap
      <4> HIDE DEF Admitted
      <4> QED BY <4>2, <4>3, <4>4, <4>5, PoolAssumption
    <3>3. ASSUME SessionCap # 0, NEW s \in Session
          PROVE  Cardinality(AdmittedIn(p, s)') <= SessionCap
      <4>1. CASE s # SessionOf[j]
        <5>1. AdmittedIn(p, s)' = AdmittedIn(p, s)
          <6>1. \A i : i \in AdmittedIn(p, s)' <=> i \in AdmittedIn(p, s)
            BY <4>1, <1>1 DEF TypeOK
          <6> HIDE DEF AdmittedIn
          <6> QED BY <6>1
        <5> QED BY <5>1, <3>3 DEF Counted, AdmissionCaps
      <4>2. CASE s = SessionOf[j]
        <5>1. AdmittedIn(p, s)' \in SUBSET HoldersIn(p, s)'
          BY DEF HoldersIn
        <5>2. HoldersIn(p, s)' \in SUBSET Holders(p)'
          BY DEF HoldersIn
        <5>3. IsFiniteSet(HoldersIn(p, s)')
          BY <5>2, <1>4, FS_Subset
        <5>4. /\ IsFiniteSet(AdmittedIn(p, s)')
              /\ Cardinality(AdmittedIn(p, s)') \in Nat
              /\ Cardinality(AdmittedIn(p, s)') <= Cardinality(HoldersIn(p, s)')
          <6> HIDE DEF AdmittedIn
          <6> QED BY <5>1, <5>3, FS_Subset, FS_CardinalityType
        <5>5. Cardinality(HoldersIn(p, s)') = pool[p].perSession[s] + 1
          BY <4>2, <1>6 DEF Counted, SlotsBalanced
        <5>6. pool[p].perSession[s] \in Nat /\ pool[p].perSession[s] < SessionCap
          BY <2>2, <4>2, <3>1, <3>3, PoolAssumption DEF Pool, SessionAtCap
        <5> HIDE DEF AdmittedIn
        <5> QED BY <5>4, <5>5, <5>6, PoolAssumption
      <4> QED BY <4>1, <4>2
    <3> QED BY <3>2, <3>3
  <2>3. ASSUME NEW q \in Proc
        PROVE  /\ Cap # 0 => Cardinality(Admitted(q)') <= Cap
               /\ SessionCap # 0 => \A s \in Session :
                    Cardinality(AdmittedIn(q, s)') <= SessionCap
    <3>1. CASE q = p /\ x = "admitted"
      BY <3>1, <2>2
    <3>2. CASE q # p \/ x = "forced"
      BY <3>2, <2>1 DEF Counted, AdmissionCaps
    <3> QED BY <3>1, <3>2
  <2> QED BY <2>3 DEF AdmissionCaps
<1> QED BY <1>4, <1>7, <1>8 DEF Counted, FiniteHolders

(* A reservation was dropped.                                              *)
LEMMA CountsShrink ==
  ASSUME TypeOK, Counted, NEW j \in Job, home[j] \in Proc, slot[j] # "none",
         DropSlot(j), UNCHANGED home
  PROVE  Counted' /\ \A q \in Proc : pool'[q].queue = pool[q].queue
<1> DEFINE p == home[j]
           Admitted(q) == {i \in Holders(q) : slot[i] = "admitted"}
           AdmittedIn(q, s) == {i \in Admitted(q) : SessionOf[i] = s}
<1>1. /\ slot' = [slot EXCEPT ![j] = "none"]
      /\ pool' = [pool EXCEPT ![p] = Release(pool[p], SessionOf[j])]
      /\ p \in Proc
  BY DEF DropSlot
<1>2. Holders(p)' = Holders(p) \ {j} /\ j \in Holders(p)
  BY <1>1 DEF Holders, TypeOK
<1>3. \A q \in Proc \ {p} : Holders(q)' = Holders(q)
  BY <1>1 DEF Holders, TypeOK
<1>4. \A q \in Proc : IsFiniteSet(Holders(q))
  BY DEF Counted, FiniteHolders
<1>5. /\ IsFiniteSet(Holders(p)')
      /\ Cardinality(Holders(p)') = Cardinality(Holders(p)) - 1
      /\ Cardinality(Holders(p)) \in Nat \ {0}
  BY <1>1, <1>2, <1>4, OneLess
<1>6. \A s \in Session :
        /\ Cardinality(HoldersIn(p, s)') =
             Cardinality(HoldersIn(p, s)) - (IF s = SessionOf[j] THEN 1 ELSE 0)
        /\ s = SessionOf[j] => Cardinality(HoldersIn(p, s)) > 0
  <2> TAKE s \in Session
  <2>1. HoldersIn(p, s) \in SUBSET Holders(p)
    BY DEF HoldersIn
  <2>2. IsFiniteSet(HoldersIn(p, s)) /\ Cardinality(HoldersIn(p, s)) \in Nat
    BY <2>1, <1>1, <1>4, FS_Subset, FS_CardinalityType
  <2>3. CASE s = SessionOf[j]
    <3>1. /\ HoldersIn(p, s)' = HoldersIn(p, s) \ {j}
          /\ j \in HoldersIn(p, s)
      BY <1>2, <2>3 DEF HoldersIn
    <3>2. /\ Cardinality(HoldersIn(p, s)') = Cardinality(HoldersIn(p, s)) - 1
          /\ Cardinality(HoldersIn(p, s)) \in Nat \ {0}
      BY <3>1, <2>2, OneLess
    <3> QED BY <3>2, <2>3
  <2>4. CASE s # SessionOf[j]
    <3>1. HoldersIn(p, s)' = HoldersIn(p, s)
      BY <1>2, <2>4 DEF HoldersIn
    <3> QED BY <3>1, <2>2, <2>4
  <2> QED BY <2>3, <2>4
<1>7. SessionOf[j] \in Session /\ pool[p] \in Pool
  BY <1>1, PoolAssumption DEF TypeOK
<1>8. pool[p].total > 0 /\ pool[p].perSession[SessionOf[j]] > 0
  BY <1>1, <1>5, <1>6, <1>7 DEF Counted, SlotsBalanced
<1>9. /\ pool'[p] = Release(pool[p], SessionOf[j])
      /\ \A q \in Proc \ {p} : pool'[q] = pool[q]
  BY <1>1 DEF TypeOK
<1>10. /\ pool'[p].total = pool[p].total - 1
       /\ pool'[p].perSession =
            [t \in Session |->
               pool[p].perSession[t] - (IF t = SessionOf[j] THEN 1 ELSE 0)]
       /\ pool'[p].queue = pool[p].queue
  BY <1>7, <1>8, <1>9, ReleaseEffect
<1>11. FiniteHolders'
  BY <1>3, <1>4, <1>5 DEF FiniteHolders
<1>12. SlotsBalanced'
  <2>1. pool'[p].total = Cardinality(Holders(p)')
    BY <1>1, <1>5, <1>10 DEF Counted, SlotsBalanced
  <2>2. \A s \in Session :
          pool'[p].perSession[s] = Cardinality(HoldersIn(p, s)')
    BY <1>1, <1>6, <1>10 DEF Counted, SlotsBalanced
  <2>3. ASSUME NEW q \in Proc \ {p}
        PROVE  /\ pool'[q].total = Cardinality(Holders(q)')
               /\ \A s \in Session :
                    pool'[q].perSession[s] = Cardinality(HoldersIn(q, s)')
    <3>1. \A s \in Session : HoldersIn(q, s)' = HoldersIn(q, s)
      BY <1>3 DEF HoldersIn
    <3> QED BY <3>1, <1>3, <1>9 DEF Counted, SlotsBalanced
  <2> QED BY <2>1, <2>2, <2>3 DEF SlotsBalanced
<1>13. AdmissionCaps'
  <2>1. ASSUME NEW q \in Proc
        PROVE  /\ IsFiniteSet(Admitted(q))
               /\ Admitted(q)' \in SUBSET Admitted(q)
    <3>1. Admitted(q) \in SUBSET Holders(q)
      OBVIOUS
    <3>2. IsFiniteSet(Admitted(q))
      <4> HIDE DEF Admitted
      <4> QED BY <3>1, <1>4, FS_Subset
    <3>3. \A i : i \in Holders(q)' => i \in Holders(q) /\ i # j
      BY <1>2, <1>3 DEF Holders
    <3>4. \A i \in Holders(q)' : slot'[i] = slot[i]
      BY <3>3, <1>1 DEF Holders, TypeOK
    <3> QED BY <3>2, <3>3, <3>4
  <2>2. ASSUME NEW q \in Proc
        PROVE  /\ Cardinality(Admitted(q)) \in Nat
               /\ Cardinality(Admitted(q)') \in Nat
               /\ Cardinality(Admitted(q)') <= Cardinality(Admitted(q))
    <3> HIDE DEF Admitted
    <3> QED BY <2>1, FS_Subset, FS_CardinalityType
  <2>3. ASSUME NEW q \in Proc, NEW s \in Session
        PROVE  /\ Cardinality(AdmittedIn(q, s)) \in Nat
               /\ Cardinality(AdmittedIn(q, s)') \in Nat
               /\ Cardinality(AdmittedIn(q, s)') <= Cardinality(AdmittedIn(q, s))
    <3>1. AdmittedIn(q, s) \in SUBSET Admitted(q)
      OBVIOUS
    <3>2. AdmittedIn(q, s)' \in SUBSET AdmittedIn(q, s)
      <4> HIDE DEF Admitted
      <4> QED BY <2>1
    <3> HIDE DEF Admitted, AdmittedIn
    <3>3. IsFiniteSet(AdmittedIn(q, s))
      BY <2>1, <3>1, FS_Subset
    <3> QED BY <3>2, <3>3, FS_Subset, FS_CardinalityType
  <2>4. ASSUME NEW q \in Proc, Cap # 0
        PROVE  Cardinality(Admitted(q)') <= Cap
    <3>1. Cardinality(Admitted(q)) <= Cap
      BY <2>4 DEF Counted, AdmissionCaps
    <3> HIDE DEF Admitted
    <3> QED BY <3>1, <2>2, PoolAssumption
  <2>5. ASSUME NEW q \in Proc, SessionCap # 0, NEW s \in Session
        PROVE  Cardinality(AdmittedIn(q, s)') <= SessionCap
    <3>1. Cardinality(AdmittedIn(q, s)) <= SessionCap
      BY <2>5 DEF Counted, AdmissionCaps
    <3> HIDE DEF AdmittedIn
    <3> QED BY <3>1, <2>3, PoolAssumption
  <2> QED BY <2>4, <2>5 DEF AdmissionCaps
<1> QED BY <1>9, <1>10, <1>11, <1>12, <1>13 DEF Counted

(* The queues did not change, nor did what is said of the jobs in them.    *)
LEMMA QueueStays ==
  ASSUME TypeOK, QueueExclusive,
         \A q \in Proc : pool'[q].queue = pool[q].queue,
         \A i \in Job :
           /\ pc'[i] = "queued" <=> pc[i] = "queued"
           /\ pc[i] = "queued" => home'[i] = home[i] /\ slot'[i] = slot[i]
  PROVE  QueueExclusive'
<1>1. ASSUME NEW q \in Proc
      PROVE  /\ IsInjective(pool'[q].queue)
             /\ \A i \in Job : i \in ToSet(pool'[q].queue)
                              <=> pc'[i] = "queued" /\ home'[i] = q
             /\ \A i \in ToSet(pool'[q].queue) : slot'[i] = "none"
  <2>1. pool[q] \in Pool
    BY DEF TypeOK
  <2>2. ToSet(pool[q].queue) \subseteq Job
    BY <2>1, QueuePositions
  <2>3. /\ IsInjective(pool[q].queue)
        /\ \A i \in Job : i \in ToSet(pool[q].queue)
                         <=> pc[i] = "queued" /\ home[i] = q
        /\ \A i \in ToSet(pool[q].queue) : slot[i] = "none"
    BY DEF QueueExclusive, InQueue
  <2>4. pool'[q].queue = pool[q].queue
    OBVIOUS
  <2> QED BY <2>2, <2>3, <2>4
<1> QED BY <1>1 DEF QueueExclusive, InQueue

(* A step that touches neither slots nor queues, and moves threads only    *)
(* between points with a slot or between points without.                   *)
LEMMA QuietStep ==
  ASSUME TypeOK, SlotInv, UNCHANGED <<slot, home, pool>>,
         \A i \in Job : \/ pc'[i] = pc[i]
                        \/ pc[i] \in Seated /\ pc'[i] \in Seated
                        \/ pc[i] \in Waiting /\ pc'[i] \in Waiting
                        \/ /\ pc[i] = "insert" /\ slot[i] = "none"
                           /\ pc'[i] \in Waiting
                        \/ /\ pc[i] = "insert" /\ slot[i] # "none"
                           /\ pc'[i] \in Seated
  PROVE  SlotInv'
<1>1. Counted'
  BY CountsStay DEF SlotInv
<1>2. QueueExclusive'
  <2>1. \A i \in Job : pc'[i] = "queued" <=> pc[i] = "queued"
    BY DEF Seated, Waiting
  <2> QED BY <2>1, QueueStays DEF SlotInv
<1>3. SeatFollowsPc'
  BY DEF SlotInv, SeatFollowsPc, Seated, Waiting
<1> QED BY <1>1, <1>2, <1>3 DEF SlotInv

(* A thread drops its reservation and is done.                             *)
LEMMA DropStep ==
  ASSUME TypeOK, SlotInv, NEW j \in Job, NEW l \in {"done", "dropped"},
         home[j] \in Proc, slot[j] # "none", pc[j] # "queued",
         Goto(j, l), DropSlot(j), UNCHANGED home
  PROVE  SlotInv'
<1>1. Counted' /\ \A q \in Proc : pool'[q].queue = pool[q].queue
  BY CountsShrink DEF SlotInv
<1>2. slot' = [slot EXCEPT ![j] = "none"] /\ pc' = [pc EXCEPT ![j] = l]
  BY DEF DropSlot, Goto
<1>3. QueueExclusive'
  <2>1. \A i \in Job :
          /\ pc'[i] = "queued" <=> pc[i] = "queued"
          /\ pc[i] = "queued" => home'[i] = home[i] /\ slot'[i] = slot[i]
    BY <1>2 DEF TypeOK
  <2> QED BY <1>1, <2>1, QueueStays DEF SlotInv
<1>4. SeatFollowsPc'
  BY <1>2 DEF SlotInv, SeatFollowsPc, Seated, TypeOK
<1> QED BY <1>1, <1>3, <1>4 DEF SlotInv

(* Nobody holds a slot and nothing is queued when a process starts.        *)
LEMMA SlotInvInit == Init => SlotInv
<1> SUFFICES ASSUME Init PROVE SlotInv
  OBVIOUS
<1>1. \A p \in Proc : Holders(p) = {}
  BY DEF Init, Holders
<1>2. \A p \in Proc, s \in Session : HoldersIn(p, s) = {}
  BY <1>1 DEF HoldersIn
<1>3. IsFiniteSet({}) /\ Cardinality({}) = 0
  BY FS_EmptySet
<1>4. \A p \in Proc : pool[p].total = 0 /\ \A s \in Session : pool[p].perSession[s] = 0
  BY DEF Init, EmptyPool
<1>5. FiniteHolders /\ SlotsBalanced
  BY <1>1, <1>2, <1>3, <1>4 DEF FiniteHolders, SlotsBalanced
<1>6. AdmissionCaps
  <2>1. ASSUME NEW p \in Proc
        PROVE  /\ Cardinality({j \in Holders(p) : slot[j] = "admitted"}) = 0
               /\ \A s \in Session :
                    Cardinality({j \in {i \in Holders(p) : slot[i] = "admitted"} :
                                   SessionOf[j] = s}) = 0
    <3>1. /\ {j \in Holders(p) : slot[j] = "admitted"} = {}
          /\ \A s \in Session : {j \in {i \in Holders(p) : slot[i] = "admitted"} :
                                   SessionOf[j] = s} = {}
      BY <1>1
    <3> QED BY <3>1, <1>3
  <2> QED BY <2>1, PoolAssumption DEF AdmissionCaps
<1>7. QueueExclusive
  <2>1. \A p \in Proc : ToSet(pool[p].queue) = {} /\ IsInjective(pool[p].queue)
    BY EmptyPoolType DEF Init
  <2> QED BY <2>1 DEF QueueExclusive, InQueue, Init
<1>8. SeatFollowsPc
  BY DEF SeatFollowsPc, Init, Seated
<1> QED BY <1>5, <1>6, <1>7, <1>8 DEF SlotInv, Counted

(* A cancel call is made by some process.                                  *)
CallerKnown == \A j \in Job : canc[j].pc # "idle" => canc[j].proc \in Proc

(* A call of cancel_job that is under way was made in some process.        *)
LEMMA CallerStep ==
  ASSUME TypeOK, CallerKnown, [Next]_vars
  PROVE  CallerKnown'
<1> USE DEF jobVars, poolVars, procVars
<1>1. ASSUME NEW j \in Job, CancelStep(j)
      PROVE  CallerKnown'
  <2>1. canc[j].pc # "idle"
    BY <1>1 DEF CancelStep, CancelOf, CancelUnqueue, CancelFlag, CancelTrip,
                CancelDismiss, CancelMark, CancelSettle, CancelAnnounce
  <2>2. \A i \in Job \ {j} : canc'[i] = canc[i]
    BY <1>1 DEF CancelStep, CancelGoto, CancelUnqueue, CancelFlag, CancelTrip,
                CancelDismiss, CancelMark, CancelSettle, CancelAnnounce, TypeOK
  <2>3. canc'[j].proc = canc[j].proc \/ canc'[j] = Idle
    BY <1>1 DEF CancelStep, CancelGoto, CancelUnqueue, CancelFlag, CancelTrip,
                CancelDismiss, CancelMark, CancelSettle, CancelAnnounce, TypeOK
  <2> QED BY <2>1, <2>2, <2>3 DEF CallerKnown, Idle
<1>2. ASSUME NEW j \in Job, NEW p \in Proc, BeginCancel(j, p)
      PROVE  CallerKnown'
  BY <1>2 DEF BeginCancel, CallerKnown, TypeOK, Idle
<1>3. ASSUME NEW p \in Proc, Crash(p)
      PROVE  CallerKnown'
  BY <1>3 DEF Crash, CallerKnown, Idle
<1>4. CASE UNCHANGED canc
  BY <1>4 DEF CallerKnown
<1>5. ASSUME NEW j \in Job, SpawnStep(j) \/ RunnerStep(j) \/ ToolStep(j)
      PROVE  UNCHANGED canc
  BY <1>5 DEF SpawnStep, InsertRow, InsertFails, EnqueueJob, RejectJob,
              RunnerStep, PromoteRow, PromoteFails, StartRunner, RunnerFails,
              SettleRow, SettleLost, WrapUp, ExitRunner, ToolStep, ToolReturns,
              BudgetExpires, ParkApproval, ResumeApproval, DenyApproval,
              EndDispatch
<1>6. ASSUME NEW j \in Job, NEW p \in Proc,
             Spawn(j, p) \/ Detach(j, p) \/ InjectResult(p, j)
      PROVE  UNCHANGED canc
  BY <1>6 DEF Spawn, Detach, InjectResult
<1>7. ASSUME NEW p \in Proc, SchedulerStep(p) \/ ReplayStep(p) \/ StartProcess(p)
      PROVE  UNCHANGED canc
  BY <1>7 DEF SchedulerStep, WakeScheduler, TakeJob, SchedulerParks, ReplayStep,
              ReplayList, ReplayPending, ReplayEnds, ReplayInterrupt,
              ReplayDispatch, StartProcess
<1>8. ASSUME NEW p \in Proc, NEW s \in Session, PurgeSession(s, p)
      PROVE  UNCHANGED canc
  BY <1>8 DEF PurgeSession
<1>9. CASE UNCHANGED vars
  BY <1>9, <1>4 DEF vars
<1>10. ASSUME NEW j \in Job, ToolCancelled(j) \/ PollCancelFlag(j)
       PROVE  UNCHANGED canc
  BY <1>10 DEF ToolCancelled, EndDispatch, PollCancelFlag
<1> QED BY <1>1, <1>2, <1>3, <1>4, <1>5, <1>6, <1>7, <1>8, <1>9, <1>10 DEF Next

(* Every step keeps the counts, the queue and the place of each job in     *)
(* step: one case per action.                                              *)
LEMMA SlotInvStep ==
  ASSUME TypeOK, SlotInv, CallerKnown, [Next]_vars
  PROVE  SlotInv'
<1> USE DEF jobVars, poolVars, procVars
<1>1. ASSUME NEW j \in Job, InsertRow(j)
      PROVE  SlotInv'
  BY <1>1, QuietStep DEF InsertRow, Goto, TypeOK, Seated, Waiting
<1>2. ASSUME NEW j \in Job, InsertFails(j)
      PROVE  SlotInv'
  <2>1. CASE slot[j] = "none"
    BY <1>2, <2>1, QuietStep DEF InsertFails, Goto, TypeOK, Waiting
  <2>2. CASE slot[j] # "none"
    <3>1. DropSlot(j) /\ Goto(j, "done") /\ UNCHANGED home /\ pc[j] = "insert"
      BY <1>2, <2>2 DEF InsertFails
    <3>2. home[j] \in Proc
      BY <3>1 DEF SlotInv, SeatFollowsPc
    <3> QED BY <2>2, <3>1, <3>2, DropStep
  <2> QED BY <2>1, <2>2
<1>3. ASSUME NEW j \in Job, EnqueueJob(j)
      PROVE  SlotInv'
  <2> DEFINE p == home[j]
  <2>1. /\ pc[j] = "enqueue" /\ p \in Proc /\ slot[j] = "none"
        /\ pool[p] \in Pool
        /\ pool' = [pool EXCEPT ![p] = Enqueue(pool[p], j)]
        /\ pc' = [pc EXCEPT ![j] = "queued"]
        /\ UNCHANGED <<home, slot>>
    BY <1>3 DEF EnqueueJob, Goto, SlotInv, SeatFollowsPc, Seated, TypeOK
  <2>2. j \notin ToSet(pool[p].queue)
    BY <2>1 DEF SlotInv, QueueExclusive, InQueue
  <2>3. /\ pool'[p].total = pool[p].total
        /\ pool'[p].perSession = pool[p].perSession
        /\ ToSet(pool'[p].queue) = ToSet(pool[p].queue) \cup {j}
        /\ IsInjective(pool'[p].queue)
        /\ \A q \in Proc \ {p} : pool'[q] = pool[q]
    <3>1. IsInjective(pool[p].queue)
      BY <2>1 DEF SlotInv, QueueExclusive
    <3>2. /\ pool'[p] = Enqueue(pool[p], j)
          /\ \A q \in Proc \ {p} : pool'[q] = pool[q]
      BY <2>1 DEF TypeOK
    <3>3. pool[p] \in Pool
      BY <2>1 DEF TypeOK
    <3>4. /\ Enqueue(pool[p], j).total = pool[p].total
          /\ Enqueue(pool[p], j).perSession = pool[p].perSession
          /\ ToSet(Enqueue(pool[p], j).queue) = ToSet(pool[p].queue) \cup {j}
          /\ IsInjective(Enqueue(pool[p], j).queue)
      BY <2>2, <3>1, <3>3, EnqueueEffect
    <3> QED BY <3>2, <3>4
  <2>4. Counted'
    BY <2>1, <2>3, CountsStay DEF SlotInv
  <2>5. QueueExclusive'
    <3>1. ASSUME NEW q \in Proc
          PROVE  /\ IsInjective(pool'[q].queue)
                 /\ \A i \in Job : i \in ToSet(pool'[q].queue)
                                  <=> pc'[i] = "queued" /\ home'[i] = q
                 /\ \A i \in ToSet(pool'[q].queue) : slot'[i] = "none"
      <4>0. ASSUME NEW i \in Job
            PROVE  /\ i \in ToSet(pool[q].queue) <=> pc[i] = "queued" /\ home[i] = q
                   /\ i \in ToSet(pool[q].queue) => slot[i] = "none"
                   /\ i # j => pc'[i] = pc[i]
                   /\ pc'[j] = "queued"
        BY <2>1 DEF SlotInv, QueueExclusive, InQueue, TypeOK
      <4>1. CASE q = p
        <5>1. ToSet(pool[p].queue) \subseteq Job
          BY <2>1, QueuePositions
        <5> QED BY <5>1, <4>0, <4>1, <2>1, <2>3
      <4>2. CASE q # p
        BY <4>2, <2>1, <2>3 DEF SlotInv, QueueExclusive, InQueue, TypeOK
      <4> QED BY <4>1, <4>2
    <3> QED BY <3>1 DEF QueueExclusive, InQueue
  <2>6. SeatFollowsPc'
    BY <2>1 DEF SlotInv, SeatFollowsPc, Seated, TypeOK
  <2> QED BY <2>4, <2>5, <2>6 DEF SlotInv
<1>4. ASSUME NEW j \in Job, RejectJob(j)
      PROVE  SlotInv'
  BY <1>4, QuietStep DEF RejectJob, Goto, TypeOK, Seated, Waiting
<1>5. ASSUME NEW j \in Job, PromoteRow(j)
      PROVE  SlotInv'
  <2>1. CASE CanMarkRunning(rows[j])
    BY <1>5, <2>1, QuietStep DEF PromoteRow, Goto, TypeOK, Seated
  <2>2. CASE ~CanMarkRunning(rows[j])
    <3>1. DropSlot(j) /\ Goto(j, "dropped") /\ UNCHANGED home /\ pc[j] = "taken"
      BY <1>5, <2>2 DEF PromoteRow
    <3>2. home[j] \in Proc /\ slot[j] # "none"
      BY <3>1 DEF SlotInv, SeatFollowsPc, Seated
    <3> QED BY <3>1, <3>2, DropStep
  <2> QED BY <2>1, <2>2
<1>6. ASSUME NEW j \in Job, PromoteFails(j)
      PROVE  SlotInv'
  <2>1. DropSlot(j) /\ Goto(j, "dropped") /\ UNCHANGED home /\ pc[j] = "taken"
    BY <1>6 DEF PromoteFails
  <2>2. home[j] \in Proc /\ slot[j] # "none"
    BY <2>1 DEF SlotInv, SeatFollowsPc, Seated
  <2> QED BY <2>1, <2>2, DropStep
<1>7. ASSUME NEW j \in Job, StartRunner(j)
      PROVE  SlotInv'
  BY <1>7, QuietStep DEF StartRunner, Goto, TypeOK, Seated, Waiting
<1>8. ASSUME NEW j \in Job, RunnerFails(j)
      PROVE  SlotInv'
  BY <1>8, QuietStep DEF RunnerFails, Goto, TypeOK, Seated, Waiting
<1>9. ASSUME NEW j \in Job, SettleRow(j)
      PROVE  SlotInv'
  BY <1>9, QuietStep DEF SettleRow, Goto, TypeOK, Seated, Waiting
<1>10. ASSUME NEW j \in Job, SettleLost(j)
      PROVE  SlotInv'
  BY <1>10, QuietStep DEF SettleLost, Goto, TypeOK, Seated, Waiting
<1>11. ASSUME NEW j \in Job, WrapUp(j)
      PROVE  SlotInv'
  BY <1>11, QuietStep DEF WrapUp, Goto, TypeOK, Seated, Waiting
<1>12. ASSUME NEW j \in Job, ExitRunner(j)
      PROVE  SlotInv'
  <2>1. DropSlot(j) /\ Goto(j, "done") /\ UNCHANGED home /\ pc[j] = "exit"
    BY <1>12 DEF ExitRunner
  <2>2. home[j] \in Proc /\ slot[j] # "none"
    BY <2>1 DEF SlotInv, SeatFollowsPc, Seated
  <2> QED BY <2>1, <2>2, DropStep
<1>13. ASSUME NEW j \in Job, ToolReturns(j)
      PROVE  SlotInv'
  BY <1>13, QuietStep DEF ToolReturns, EndDispatch, Goto, TypeOK, Seated,
     Waiting
<1>14. ASSUME NEW j \in Job, BudgetExpires(j)
      PROVE  SlotInv'
  BY <1>14, QuietStep DEF BudgetExpires, EndDispatch, Goto, TypeOK, Seated,
     Waiting
<1>15. ASSUME NEW j \in Job, ParkApproval(j)
      PROVE  SlotInv'
  BY <1>15, QuietStep DEF ParkApproval, Goto, TypeOK, Seated, Waiting
<1>16. ASSUME NEW j \in Job, ResumeApproval(j)
      PROVE  SlotInv'
  BY <1>16, QuietStep DEF ResumeApproval, Goto, TypeOK, Seated, Waiting
<1>17. ASSUME NEW j \in Job, DenyApproval(j)
      PROVE  SlotInv'
  BY <1>17, QuietStep DEF DenyApproval, EndDispatch, Goto, TypeOK, Seated,
     Waiting
<1>18. ASSUME NEW j \in Job, CancelUnqueue(j)
      PROVE  SlotInv'
  <2>1. CASE ~InQueue(pool[canc[j].proc], j)
    BY <1>18, <2>1, QuietStep DEF CancelUnqueue
  <2>2. CASE InQueue(pool[canc[j].proc], j)
    <3> DEFINE p == canc[j].proc
    <3>1. /\ pool' = [pool EXCEPT ![p] = RemoveQueued(pool[p], j)]
          /\ pc' = [pc EXCEPT ![j] = "unqueued"]
          /\ UNCHANGED <<home, slot>>
      BY <1>18, <2>2 DEF CancelUnqueue, Goto
    <3>2. ASSUME NEW q \in Proc
          PROVE  /\ pool'[q].total = pool[q].total
                 /\ pool'[q].perSession = pool[q].perSession
                 /\ ToSet(pool'[q].queue) =
                      IF q = p THEN ToSet(pool[q].queue) \ {j}
                               ELSE ToSet(pool[q].queue)
                 /\ IsInjective(pool[q].queue) => IsInjective(pool'[q].queue)
      <4>1. pool[q] \in Pool
        BY DEF TypeOK
      <4>2. pool'[q] = IF q = p THEN RemoveQueued(pool[q], j) ELSE pool[q]
        BY <3>1 DEF TypeOK
      <4>3. CASE q = p
        <5> DEFINE r == RemoveQueued(pool[q], j)
        <5>1. /\ r.total = pool[q].total
              /\ r.perSession = pool[q].perSession
              /\ ToSet(r.queue) = ToSet(pool[q].queue) \ {j}
              /\ IsInjective(pool[q].queue) => IsInjective(r.queue)
          BY <4>1, RemoveQueuedEffect
        <5>2. pool'[q] = r
          BY <4>2, <4>3
        <5> QED BY <4>3, <5>1, <5>2
      <4>4. CASE q # p
        BY <4>2, <4>4
      <4> QED BY <4>3, <4>4
    <3>3. Counted'
      BY <3>1, <3>2, CountsStay DEF SlotInv
    <3>4. CASE p \in Proc
      <4>1. pc[j] = "queued" /\ home[j] = p /\ slot[j] = "none"
        BY <2>2, <3>4 DEF SlotInv, QueueExclusive, InQueue, SeatFollowsPc,
           Seated
      <4>2. QueueExclusive'
        <5>1. ASSUME NEW q \in Proc
              PROVE  /\ IsInjective(pool'[q].queue)
                     /\ \A i \in Job : i \in ToSet(pool'[q].queue)
                                      <=> pc'[i] = "queued" /\ home'[i] = q
                     /\ \A i \in ToSet(pool'[q].queue) : slot'[i] = "none"
          <6>0. ASSUME NEW i \in Job
                PROVE  /\ i \in ToSet(pool[q].queue)
                            <=> pc[i] = "queued" /\ home[i] = q
                       /\ i \in ToSet(pool[q].queue) => slot[i] = "none"
                       /\ i # j => pc'[i] = pc[i]
                       /\ pc'[j] = "unqueued"
            BY <3>1 DEF SlotInv, QueueExclusive, InQueue, TypeOK
          <6>1. CASE q = p
            <7>1. pool[p] \in Pool /\ IsInjective(pool[p].queue)
              BY <3>4 DEF SlotInv, QueueExclusive, TypeOK
            <7>2. ToSet(pool[p].queue) \subseteq Job
              BY <7>1, QueuePositions
            <7>3. /\ ToSet(pool'[p].queue) = ToSet(pool[p].queue) \ {j}
                  /\ IsInjective(pool'[p].queue)
              BY <3>2, <3>4, <7>1
            <7> QED BY <6>0, <6>1, <7>2, <7>3, <3>1
          <6>2. CASE q # p
            BY <6>2, <3>1, <3>2, <4>1
               DEF SlotInv, QueueExclusive, InQueue, TypeOK
          <6> QED BY <6>1, <6>2
        <5> QED BY <5>1 DEF QueueExclusive, InQueue
      <4>3. SeatFollowsPc'
        BY <3>1, <4>1 DEF SlotInv, SeatFollowsPc, Seated, TypeOK
      <4> QED BY <3>3, <4>2, <4>3 DEF SlotInv
    <3>5. p \in Proc
      BY <1>18 DEF CancelUnqueue, CancelOf, CallerKnown
    <3> QED BY <3>4, <3>5
  <2> QED BY <2>1, <2>2
<1>19. ASSUME NEW j \in Job, CancelFlag(j)
      PROVE  SlotInv'
  BY <1>19, QuietStep DEF CancelFlag
<1>20. ASSUME NEW j \in Job, CancelTrip(j)
      PROVE  SlotInv'
  BY <1>20, QuietStep DEF CancelTrip
<1>21. ASSUME NEW j \in Job, CancelDismiss(j)
      PROVE  SlotInv'
  BY <1>21, QuietStep DEF CancelDismiss, Goto, TypeOK, Seated, Waiting
<1>22. ASSUME NEW j \in Job, CancelMark(j)
      PROVE  SlotInv'
  BY <1>22, QuietStep DEF CancelMark
<1>23. ASSUME NEW j \in Job, CancelSettle(j)
      PROVE  SlotInv'
  BY <1>23, QuietStep DEF CancelSettle
<1>24. ASSUME NEW j \in Job, CancelAnnounce(j)
      PROVE  SlotInv'
  BY <1>24, QuietStep DEF CancelAnnounce, Goto, TypeOK, Seated, Waiting
<1>25. ASSUME NEW j \in Job, ToolCancelled(j)
      PROVE  SlotInv'
  BY <1>25, QuietStep DEF ToolCancelled, Dispatching, EndDispatch, Goto,
     TypeOK, Seated, Waiting
<1>26. ASSUME NEW j \in Job, PollCancelFlag(j)
      PROVE  SlotInv'
  BY <1>26, QuietStep DEF PollCancelFlag
<1>27. ASSUME NEW j \in Job, NEW p \in Proc, Spawn(j, p)
      PROVE  SlotInv'
  <2>1. /\ pc[j] = "idle" /\ slot[j] = "none"
        /\ home' = [home EXCEPT ![j] = p]
        /\ pc' = [pc EXCEPT ![j] = "insert"]
        /\ pool[p] \in Pool /\ SessionOf[j] \in Session
    BY <1>27, PoolAssumption DEF Spawn, Goto, SlotInv, SeatFollowsPc, Seated,
       TypeOK
  <2>2. CASE CanReserve(pool[p], SessionOf[j])
    <3>1. slot' = [slot EXCEPT ![j] = "admitted"]
      BY <1>27, <2>2 DEF Spawn
    <3>2. /\ pool'[p] = ReserveForced(pool[p], SessionOf[j])
          /\ \A q \in Proc \ {p} : pool'[q] = pool[q]
      BY <1>27, <2>2 DEF Spawn, TypeOK
    <3>3. /\ pool'[p].total = pool[p].total + 1
          /\ pool'[p].perSession =
               [t \in Session |->
                  pool[p].perSession[t] + (IF t = SessionOf[j] THEN 1 ELSE 0)]
          /\ pool'[p].queue = pool[p].queue
      BY <2>1, <3>2, ReserveEffect
    <3>4. home'[j] = p /\ \A i \in Job \ {j} : home'[i] = home[i]
      BY <2>1 DEF TypeOK
    <3>5. Counted'
      BY <2>1, <2>2, <3>1, <3>2, <3>3, <3>4, CountsGrow DEF SlotInv, CanReserve
    <3>6. QueueExclusive'
      <4>1. \A i \in Job :
              /\ pc'[i] = "queued" <=> pc[i] = "queued"
              /\ pc[i] = "queued" => home'[i] = home[i] /\ slot'[i] = slot[i]
        BY <2>1, <3>1 DEF TypeOK
      <4>2. \A q \in Proc : pool'[q].queue = pool[q].queue
        BY <3>2, <3>3
      <4> QED BY <4>1, <4>2, QueueStays DEF SlotInv
    <3>7. SeatFollowsPc'
      BY <2>1, <3>1 DEF SlotInv, SeatFollowsPc, Seated, TypeOK
    <3> QED BY <3>5, <3>6, <3>7 DEF SlotInv
  <2>3. CASE ~CanReserve(pool[p], SessionOf[j])
    <3>1. UNCHANGED <<slot, pool>>
      BY <1>27, <2>3 DEF Spawn
    <3>2. Counted'
      <4>1. \A i \in Job : slot[i] # "none" => home'[i] = home[i]
        BY <2>1 DEF TypeOK
      <4> QED BY <3>1, <4>1, CountsStay DEF SlotInv
    <3>3. QueueExclusive'
      <4>1. \A i \in Job :
              /\ pc'[i] = "queued" <=> pc[i] = "queued"
              /\ pc[i] = "queued" => home'[i] = home[i] /\ slot'[i] = slot[i]
        BY <2>1, <3>1 DEF TypeOK
      <4> QED BY <3>1, <4>1, QueueStays DEF SlotInv
    <3>4. SeatFollowsPc'
      BY <2>1, <3>1 DEF SlotInv, SeatFollowsPc, Seated, TypeOK
    <3> QED BY <3>2, <3>3, <3>4 DEF SlotInv
  <2> QED BY <2>2, <2>3
<1>28. ASSUME NEW j \in Job, NEW p \in Proc, Detach(j, p)
      PROVE  SlotInv'
  <2>1. /\ pc[j] = "idle" /\ slot[j] = "none"
        /\ home' = [home EXCEPT ![j] = p]
        /\ pc' = [pc EXCEPT ![j] = "run"]
        /\ slot' = [slot EXCEPT ![j] = "forced"]
        /\ pool[p] \in Pool /\ SessionOf[j] \in Session
    BY <1>28, PoolAssumption DEF Detach, Goto, SlotInv, SeatFollowsPc, Seated,
       TypeOK
  <2>2. /\ pool'[p] = ReserveForced(pool[p], SessionOf[j])
        /\ \A q \in Proc \ {p} : pool'[q] = pool[q]
    BY <1>28 DEF Detach, TypeOK
  <2>3. /\ pool'[p].total = pool[p].total + 1
        /\ pool'[p].perSession =
             [t \in Session |->
                pool[p].perSession[t] + (IF t = SessionOf[j] THEN 1 ELSE 0)]
        /\ pool'[p].queue = pool[p].queue
    BY <2>1, <2>2, ReserveEffect
  <2>4. home'[j] = p /\ \A i \in Job \ {j} : home'[i] = home[i]
    BY <2>1 DEF TypeOK
  <2>5. Counted'
    BY <2>1, <2>2, <2>3, <2>4, CountsGrow DEF SlotInv
  <2>6. QueueExclusive'
    <3>1. \A i \in Job :
            /\ pc'[i] = "queued" <=> pc[i] = "queued"
            /\ pc[i] = "queued" => home'[i] = home[i] /\ slot'[i] = slot[i]
      BY <2>1 DEF TypeOK
    <3>2. \A q \in Proc : pool'[q].queue = pool[q].queue
      BY <2>2, <2>3
    <3> QED BY <3>1, <3>2, QueueStays DEF SlotInv
  <2>7. SeatFollowsPc'
    BY <2>1 DEF SlotInv, SeatFollowsPc, Seated, TypeOK
  <2> QED BY <2>5, <2>6, <2>7 DEF SlotInv
<1>29. ASSUME NEW j \in Job, NEW p \in Proc, BeginCancel(j, p)
      PROVE  SlotInv'
  BY <1>29, QuietStep DEF BeginCancel
<1>30. ASSUME NEW p \in Proc, NEW j \in Job, InjectResult(p, j)
      PROVE  SlotInv'
  BY <1>30, QuietStep DEF InjectResult
<1>31. ASSUME NEW p \in Proc, WakeScheduler(p)
      PROVE  SlotInv'
  BY <1>31, QuietStep DEF WakeScheduler
<1>32. ASSUME NEW p \in Proc, TakeJob(p)
      PROVE  SlotInv'
  <2> DEFINE j == NextJob(pool[p])
  <2>1. /\ CanTake(pool[p]) /\ pool[p] \in Pool
        /\ IsInjective(pool[p].queue)
    BY <1>32 DEF TakeJob, TypeOK, SlotInv, QueueExclusive
  <2>2. /\ j \in ToSet(pool[p].queue) /\ j \in Job
        /\ Take(pool[p]).total = pool[p].total + 1
        /\ Take(pool[p]).perSession =
             [t \in Session |->
                pool[p].perSession[t] + (IF t = SessionOf[j] THEN 1 ELSE 0)]
        /\ ToSet(Take(pool[p]).queue) = ToSet(pool[p].queue) \ {j}
        /\ IsInjective(Take(pool[p]).queue)
    BY <2>1, TakeEffect
  <2>3. ~AtCap(pool[p]) /\ ~SessionAtCap(pool[p], SessionOf[j])
    <3>1. PickFair(pool[p]) \in Eligible(pool[p])
      BY <2>1, PickFairOldest DEF CanTake
    <3> QED BY <2>1, <3>1 DEF CanTake, Eligible, NextJob
  <2>4. /\ pc' = [pc EXCEPT ![j] = "taken"]
        /\ slot' = [slot EXCEPT ![j] = "admitted"]
        /\ pool' = [pool EXCEPT ![p] = Take(pool[p])]
        /\ UNCHANGED home
    BY <1>32 DEF TakeJob, Goto
  <2> HIDE DEF j
  <2>5. pool'[p] = Take(pool[p]) /\ \A q \in Proc \ {p} : pool'[q] = pool[q]
    BY <2>4 DEF TypeOK
  <2>6. pc[j] = "queued" /\ home[j] = p /\ slot[j] = "none"
    BY <2>2 DEF SlotInv, QueueExclusive, InQueue
  <2>7. Counted'
    <3>1. home'[j] = p /\ \A i \in Job \ {j} : home'[i] = home[i]
      BY <2>4, <2>6
    <3>2. /\ pool'[p].total = pool[p].total + 1
          /\ pool'[p].perSession =
               [t \in Session |->
                  pool[p].perSession[t] + (IF t = SessionOf[j] THEN 1 ELSE 0)]
      BY <2>2, <2>5
    <3> QED BY <2>2, <2>3, <2>4, <2>5, <2>6, <3>1, <3>2, CountsGrow DEF SlotInv
  <2>8. QueueExclusive'
    <3>1. ASSUME NEW q \in Proc
          PROVE  /\ IsInjective(pool'[q].queue)
                 /\ \A i \in Job : i \in ToSet(pool'[q].queue)
                                  <=> pc'[i] = "queued" /\ home'[i] = q
                 /\ \A i \in ToSet(pool'[q].queue) : slot'[i] = "none"
      <4>1. CASE q = p
        BY <4>1, <2>2, <2>4, <2>5, <2>6
           DEF SlotInv, QueueExclusive, InQueue, TypeOK
      <4>2. CASE q # p
        BY <4>2, <2>2, <2>4, <2>5, <2>6
           DEF SlotInv, QueueExclusive, InQueue, TypeOK
      <4> QED BY <4>1, <4>2
    <3> QED BY <3>1 DEF QueueExclusive, InQueue
  <2>9. SeatFollowsPc'
    BY <2>2, <2>4, <2>6 DEF SlotInv, SeatFollowsPc, Seated, TypeOK
  <2> QED BY <2>7, <2>8, <2>9 DEF SlotInv
<1>33. ASSUME NEW p \in Proc, SchedulerParks(p)
      PROVE  SlotInv'
  BY <1>33, QuietStep DEF SchedulerParks
<1>34. ASSUME NEW p \in Proc, ReplayList(p)
      PROVE  SlotInv'
  BY <1>34, QuietStep DEF ReplayList
<1>35. ASSUME NEW p \in Proc, ReplayPending(p)
      PROVE  SlotInv'
  BY <1>35, QuietStep DEF ReplayPending
<1>36. ASSUME NEW p \in Proc, ReplayEnds(p)
      PROVE  SlotInv'
  BY <1>36, QuietStep DEF ReplayEnds
<1>37. ASSUME NEW p \in Proc, NEW j \in Job, ReplayInterrupt(p, j)
      PROVE  SlotInv'
  BY <1>37, QuietStep DEF ReplayInterrupt
<1>38. ASSUME NEW p \in Proc, NEW j \in Job, ReplayDispatch(p, j)
      PROVE  SlotInv'
  BY <1>38, QuietStep DEF ReplayDispatch
<1>39. ASSUME NEW p \in Proc, StartProcess(p)
      PROVE  SlotInv'
  BY <1>39, QuietStep DEF StartProcess
<1>40. ASSUME NEW p \in Proc, Crash(p)
      PROVE  SlotInv'
  <2>1. /\ pc' = [i \in Job |-> IF home[i] = p THEN "gone" ELSE pc[i]]
        /\ slot' = [i \in Job |-> IF home[i] = p THEN "none" ELSE slot[i]]
        /\ pool' = [pool EXCEPT ![p] = EmptyPool]
        /\ UNCHANGED home
    BY <1>40 DEF Crash
  <2>2. pool'[p] = EmptyPool /\ \A q \in Proc \ {p} : pool'[q] = pool[q]
    BY <2>1 DEF TypeOK
  <2>3. Holders(p)' = {} /\ \A q \in Proc \ {p} : Holders(q)' = Holders(q)
    BY <2>1 DEF Holders
  <2>4. /\ \A s \in Session : HoldersIn(p, s)' = {}
        /\ \A q \in Proc \ {p}, s \in Session :
             HoldersIn(q, s)' = HoldersIn(q, s)
    BY <2>3 DEF HoldersIn
  <2>5. IsFiniteSet({}) /\ Cardinality({}) = 0
    BY FS_EmptySet
  <2>6. FiniteHolders'
    BY <2>3, <2>5 DEF FiniteHolders, SlotInv, Counted
  <2>7. SlotsBalanced'
    <3>1. /\ pool'[p].total = 0
          /\ \A s \in Session : pool'[p].perSession[s] = 0
      BY <2>2 DEF EmptyPool
    <3>2. /\ pool'[p].total = Cardinality(Holders(p)')
          /\ \A s \in Session :
               pool'[p].perSession[s] = Cardinality(HoldersIn(p, s)')
      BY <3>1, <2>3, <2>4, <2>5
    <3>3. ASSUME NEW q \in Proc \ {p}
          PROVE  /\ pool'[q].total = Cardinality(Holders(q)')
                 /\ \A s \in Session :
                      pool'[q].perSession[s] = Cardinality(HoldersIn(q, s)')
      <4>1. /\ pool[q].total = Cardinality(Holders(q))
            /\ \A s \in Session :
                 pool[q].perSession[s] = Cardinality(HoldersIn(q, s))
        BY DEF SlotsBalanced, SlotInv, Counted
      <4> QED BY <4>1, <2>2, <2>3, <2>4
    <3> QED BY <3>2, <3>3 DEF SlotsBalanced
  <2>8. AdmissionCaps'
    <3>1. ASSUME NEW q \in Proc \ {p}, NEW i \in Holders(q)
          PROVE  slot'[i] = slot[i]
      BY <3>1, <2>1 DEF Holders
    <3>2. ASSUME NEW q \in Proc \ {p}
          PROVE  {i \in Holders(q)' : slot'[i] = "admitted"}
                   = {i \in Holders(q) : slot[i] = "admitted"}
      BY <3>1, <2>3
    <3>3. /\ {i \in Holders(p)' : slot'[i] = "admitted"} = {}
          /\ \A s \in Session :
               {k \in {i \in Holders(p)' : slot'[i] = "admitted"} :
                  SessionOf[k] = s} = {}
      BY <2>3
    <3>4. ASSUME NEW q \in Proc
          PROVE  LET admitted == {i \in Holders(q)' : slot'[i] = "admitted"} IN
                 /\ Cap # 0 => Cardinality(admitted) <= Cap
                 /\ SessionCap # 0 => \A s \in Session :
                      Cardinality({i \in admitted : SessionOf[i] = s}) <= SessionCap
      <4>1. CASE q = p
        BY <4>1, <3>3, <2>5, PoolAssumption
      <4>2. CASE q # p
        BY <4>2, <3>2 DEF AdmissionCaps, SlotInv, Counted
      <4> QED BY <4>1, <4>2
    <3> QED BY <3>4 DEF AdmissionCaps
  <2>9. QueueExclusive'
    <3>1. ASSUME NEW q \in Proc
          PROVE  /\ IsInjective(pool'[q].queue)
                 /\ \A i \in Job : i \in ToSet(pool'[q].queue)
                                  <=> pc'[i] = "queued" /\ home'[i] = q
                 /\ \A i \in ToSet(pool'[q].queue) : slot'[i] = "none"
      <4>1. CASE q = p
        BY <4>1, <2>1, <2>2, EmptyPoolType
      <4>2. CASE q # p
        <5>1. ToSet(pool[q].queue) \subseteq Job
          BY QueuePositions DEF TypeOK
        <5> QED BY <4>2, <5>1, <2>1, <2>2 DEF SlotInv, QueueExclusive, InQueue
      <4> QED BY <4>1, <4>2
    <3> QED BY <3>1 DEF QueueExclusive, InQueue
  <2>10. SeatFollowsPc'
    BY <2>1 DEF SlotInv, SeatFollowsPc, Seated
  <2> QED BY <2>6, <2>7, <2>8, <2>9, <2>10 DEF SlotInv, Counted
<1>41. ASSUME NEW s \in Session, NEW p \in Proc, PurgeSession(s, p)
      PROVE  SlotInv'
  <2> DEFINE gone == {i \in Job : SessionOf[i] = s}
  <2>1. /\ pc' = [i \in Job |-> IF i \in gone /\ InQueue(pool[p], i)
                                THEN "dropped" ELSE pc[i]]
        /\ pool' = [pool EXCEPT ![p] = RemoveQueuedForSession(pool[p], s)]
        /\ UNCHANGED <<home, slot>>
    BY <1>41 DEF PurgeSession
  <2>2. ASSUME NEW q \in Proc
        PROVE  /\ pool'[q].total = pool[q].total
               /\ pool'[q].perSession = pool[q].perSession
               /\ ToSet(pool'[q].queue) =
                    IF q = p THEN {i \in ToSet(pool[q].queue) : SessionOf[i] # s}
                             ELSE ToSet(pool[q].queue)
               /\ IsInjective(pool[q].queue) => IsInjective(pool'[q].queue)
    <3>1. pool[q] \in Pool
      BY DEF TypeOK
    <3>2. pool'[q] = IF q = p THEN RemoveQueuedForSession(pool[q], s) ELSE pool[q]
      BY <2>1 DEF TypeOK
    <3>3. CASE q = p
      <4> DEFINE r == RemoveQueuedForSession(pool[q], s)
      <4>1. /\ r.total = pool[q].total /\ r.perSession = pool[q].perSession
            /\ ToSet(r.queue) = {i \in ToSet(pool[q].queue) : SessionOf[i] # s}
            /\ IsInjective(pool[q].queue) => IsInjective(r.queue)
        BY <3>1, RemoveSessionEffect
      <4>2. pool'[q] = r
        BY <3>2, <3>3
      <4> HIDE DEF r
      <4> QED BY <3>3, <4>1, <4>2
    <3>4. CASE q # p
      BY <3>2, <3>4
    <3> QED BY <3>3, <3>4
  <2>3. Counted'
    BY <2>1, <2>2, CountsStay DEF SlotInv
  <2>4. \A i \in Job : InQueue(pool[p], i) => pc[i] = "queued" /\ home[i] = p
    BY DEF SlotInv, QueueExclusive
  <2>5. QueueExclusive'
    <3>1. ASSUME NEW q \in Proc
          PROVE  /\ IsInjective(pool'[q].queue)
                 /\ \A i \in Job : i \in ToSet(pool'[q].queue)
                                  <=> pc'[i] = "queued" /\ home'[i] = q
                 /\ \A i \in ToSet(pool'[q].queue) : slot'[i] = "none"
      <4>1. CASE q = p
        <5>1. pool[p] \in Pool /\ IsInjective(pool[p].queue)
          BY DEF SlotInv, QueueExclusive, TypeOK
        <5>2. ToSet(pool[p].queue) \subseteq Job
          BY <5>1, QueuePositions
        <5>3. /\ ToSet(pool'[p].queue) =
                  {i \in ToSet(pool[p].queue) : SessionOf[i] # s}
              /\ IsInjective(pool'[p].queue)
          BY <2>2, <5>1
        <5>4. ASSUME NEW i \in Job
              PROVE  /\ i \in ToSet(pool[p].queue)
                          <=> pc[i] = "queued" /\ home[i] = p
                     /\ i \in ToSet(pool[p].queue) => slot[i] = "none"
          BY DEF SlotInv, QueueExclusive, InQueue
        <5>5. ASSUME NEW i \in Job
              PROVE  pc'[i] = IF SessionOf[i] = s /\ i \in ToSet(pool[p].queue)
                                THEN "dropped" ELSE pc[i]
          BY <2>1 DEF InQueue
        <5> QED BY <4>1, <5>2, <5>3, <5>4, <5>5, <2>1
      <4>2. CASE q # p
        BY <4>2, <2>1, <2>2, <2>4 DEF SlotInv, QueueExclusive, InQueue
      <4> QED BY <4>1, <4>2
    <3> QED BY <3>1 DEF QueueExclusive, InQueue
  <2>6. SeatFollowsPc'
    <3>1. ASSUME NEW i \in Job
          PROVE  \/ pc'[i] = pc[i]
                 \/ pc'[i] = "dropped" /\ pc[i] = "queued"
      BY <2>1, <2>4
    <3> QED BY <2>1, <3>1 DEF SlotInv, SeatFollowsPc, Seated
  <2> QED BY <2>3, <2>5, <2>6 DEF SlotInv
<1>42. CASE UNCHANGED vars
  BY <1>42, QuietStep DEF vars
<1> QED
  BY <1>1, <1>2, <1>3, <1>4, <1>5, <1>6, <1>7, <1>8, <1>9, <1>10, <1>11,
     <1>12, <1>13, <1>14, <1>15, <1>16, <1>17, <1>18, <1>19, <1>20, <1>21,
     <1>22, <1>23, <1>24, <1>25, <1>26, <1>27, <1>28, <1>29, <1>30, <1>31,
     <1>32, <1>33, <1>34, <1>35, <1>36, <1>37, <1>38, <1>39, <1>40, <1>41,
     <1>42
     DEF Next, SpawnStep, RunnerStep, ToolStep, CancelStep, SchedulerStep,
         ReplayStep

(* Everything above holds in every behaviour.                              *)
LEMMA Invariants == Spec => [](TypeOK /\ SlotInv /\ CallerKnown)
<1>1. Init => TypeOK
  BY TypedInit DEF Typed
<1>2. Init => CallerKnown
  BY DEF Init, CallerKnown, Idle
<1>3. SlotInv /\ CallerKnown /\ TypeOK /\ [Next]_vars => SlotInv' /\ CallerKnown'
  BY SlotInvStep, CallerStep
<1> QED BY <1>1, <1>2, <1>3, SlotInvInit, TypeCorrect, PTL DEF Spec

(* The counts of every pool are exactly the reservations alive, however    *)
(* many jobs are spawned, refused, promoted, lost, purged or cancelled and *)
(* whatever processes crash (slots.rs, SlotReservation::drop).             *)
THEOREM SlotsAlwaysBalanced == Spec => []SlotsBalanced
<1>1. SlotInv => SlotsBalanced
  BY DEF SlotInv, Counted
<1> QED BY <1>1, Invariants, PTL

(* What try_reserve and try_take_next admit never exceeds the cap of the   *)
(* process or of a session, for any caps and however many detached calls   *)
(* were counted by force.                                                  *)
THEOREM CapsAlwaysHold == Spec => []AdmissionCaps
<1>1. SlotInv => AdmissionCaps
  BY DEF SlotInv, Counted
<1> QED BY <1>1, Invariants, PTL

(* A job is in the queue of the process it was spawned in exactly while it *)
(* is waiting there, once, and without a slot: it is never started twice.  *)
THEOREM QueueAlwaysExclusive == Spec => []QueueExclusive
<1>1. SlotInv => QueueExclusive
  BY DEF SlotInv
<1> QED BY <1>1, Invariants, PTL

-----------------------------------------------------------------------------
(* Order.  Only the scheduler turns a queued job into a taken one, and it  *)
(* takes the oldest of its session.                                        *)

Overtaken ==
  \E p \in Proc : \E i, j \in Job :
    /\ Ahead(p, i, j) /\ SessionOf[i] = SessionOf[j] /\ pc[i] = "queued"
    /\ pc'[j] = "taken"

(* No step gives a slot to a queued job before an older job of its session *)
(* (pick_fair_index).                                                      *)
LEMMA FifoStep ==
  ASSUME TypeOK, SlotInv, [Next]_vars
  PROVE  ~Overtaken
<1> SUFFICES ASSUME NEW p \in Proc, NEW i \in Job, NEW j \in Job,
                    Ahead(p, i, j), SessionOf[i] = SessionOf[j],
                    pc'[j] = "taken"
             PROVE  FALSE
  BY DEF Overtaken
<1> USE DEF jobVars, poolVars, procVars
<1>1. PICK m \in DOMAIN pool[p].queue, n \in DOMAIN pool[p].queue :
        m < n /\ pool[p].queue[m] = i /\ pool[p].queue[n] = j
  BY DEF Ahead
<1>2. pc[j] = "queued" /\ home[j] = p
  <2>1. j \in ToSet(pool[p].queue)
    BY <1>1 DEF ToSet
  <2> QED BY <2>1 DEF SlotInv, QueueExclusive, InQueue
<1>3. ASSUME NEW q \in Proc, TakeJob(q)
      PROVE  FALSE
  <2> DEFINE P == pool[q]
             k == PickFair(P)
  <2>1. P \in Pool /\ Eligible(P) # {} /\ IsInjective(P.queue)
    BY <1>3 DEF TakeJob, CanTake, TypeOK, SlotInv, QueueExclusive
  <2>2. /\ k \in Eligible(P)
        /\ \A l \in Eligible(P) :
             SessionOf[P.queue[l]] = SessionOf[P.queue[k]] => k <= l
    <3> HIDE DEF P
    <3> QED BY <2>1, PickFairOldest
  <2>3. pc'[j] = pc[j] \/ j = P.queue[k]
    BY <1>3 DEF TakeJob, Goto, NextJob, TypeOK
  <2>4. j = P.queue[k] /\ j \in ToSet(P.queue)
    BY <2>2, <2>3, <1>2 DEF Eligible, ToSet
  <2>5. q = p
    BY <2>4, <1>2 DEF SlotInv, QueueExclusive, InQueue
  <2>6. n = k
    BY <1>1, <2>1, <2>2, <2>4, <2>5 DEF IsInjective, Eligible
  <2>7. m \in Eligible(P) /\ SessionOf[P.queue[m]] = SessionOf[P.queue[k]]
    BY <1>1, <2>2, <2>4, <2>5 DEF Eligible
  <2>8. k <= m
    BY <2>2, <2>7
  <2>9. m \in Nat /\ n \in Nat
    BY <1>1, <2>1, <2>5, QueuePositions
  <2> QED BY <1>1, <2>6, <2>8, <2>9
<1>5. ASSUME NEW x \in Job, SpawnStep(x) \/ RunnerStep(x) \/ ToolStep(x)
      PROVE  FALSE
  BY <1>2, <1>5
     DEF SpawnStep, InsertRow, InsertFails, EnqueueJob, RejectJob, RunnerStep,
         PromoteRow, PromoteFails, StartRunner, RunnerFails, SettleRow,
         SettleLost, WrapUp, ExitRunner, ToolStep, ToolReturns, BudgetExpires,
         ParkApproval, ResumeApproval, DenyApproval, EndDispatch, Goto, TypeOK
<1>6. ASSUME NEW x \in Job, CancelStep(x)
      PROVE  FALSE
  BY <1>2, <1>6
     DEF CancelStep, CancelUnqueue, CancelFlag, CancelTrip, CancelDismiss,
         CancelMark, CancelSettle, CancelAnnounce, Goto, TypeOK
<1>7. ASSUME NEW x \in Job, ToolCancelled(x) \/ PollCancelFlag(x)
      PROVE  FALSE
  BY <1>2, <1>7 DEF ToolCancelled, EndDispatch, PollCancelFlag, Goto, TypeOK
<1>8. ASSUME NEW x \in Job, NEW q \in Proc,
             \/ Spawn(x, q) \/ Detach(x, q)
             \/ BeginCancel(x, q) \/ InjectResult(q, x)
      PROVE  FALSE
  <2>1. CASE Spawn(x, q)
    BY <1>2, <2>1 DEF Spawn, Goto, TypeOK
  <2>2. CASE Detach(x, q)
    BY <1>2, <2>2 DEF Detach, Goto, TypeOK
  <2>3. CASE BeginCancel(x, q) \/ InjectResult(q, x)
    <3>1. pc' = pc
      BY <2>3 DEF BeginCancel, InjectResult, jobVars
    <3> QED BY <1>2, <3>1
  <2> QED BY <1>8, <2>1, <2>2, <2>3
<1>9. ASSUME NEW q \in Proc, SchedulerStep(q)
      PROVE  FALSE
  <2>1. CASE TakeJob(q)
    BY <2>1, <1>3
  <2>2. CASE WakeScheduler(q) \/ SchedulerParks(q)
    BY <2>2, <1>2 DEF WakeScheduler, SchedulerParks
  <2> QED BY <2>1, <2>2, <1>9 DEF SchedulerStep
<1>10. ASSUME NEW q \in Proc, ReplayStep(q) \/ StartProcess(q) \/ Crash(q)
       PROVE  FALSE
  <2>1. CASE ReplayStep(q) \/ StartProcess(q)
    <3>1. pc' = pc
      BY <2>1 DEF ReplayStep, ReplayList, ReplayPending, ReplayEnds,
         ReplayInterrupt, ReplayDispatch, StartProcess
    <3> QED BY <1>2, <3>1
  <2>2. CASE Crash(q)
    <3>1. pc'[j] = IF home[j] = q THEN "gone" ELSE pc[j]
      BY <2>2 DEF Crash
    <3> QED BY <1>2, <3>1
  <2> QED BY <1>10, <2>1, <2>2
<1>11. ASSUME NEW q \in Proc, NEW s \in Session, PurgeSession(s, q)
       PROVE  FALSE
  BY <1>2, <1>11 DEF PurgeSession
<1>12. CASE UNCHANGED vars
  BY <1>2, <1>12 DEF vars
<1> QED
  BY <1>5, <1>6, <1>7, <1>8, <1>9, <1>10, <1>11, <1>12 DEF Next

(* Jobs of one session leave the queue in the order in which they came,    *)
(* whatever the other sessions do (pick_fair_index).                       *)
THEOREM FirstComeFirstServed == Spec => SessionFifo
<1>1. TypeOK /\ SlotInv /\ [Next]_vars =>
        [\A p \in Proc : \A i, j \in Job :
           Ahead(p, i, j) /\ SessionOf[i] = SessionOf[j] /\ pc[i] = "queued" =>
             pc'[j] # "taken"]_vars
  BY FifoStep DEF Overtaken
<1> QED BY <1>1, Invariants, PTL DEF Spec, SessionFifo

-----------------------------------------------------------------------------
(* Rows.  A job that has begun has left the point where its row is made,   *)
(* so it never gets a second one; one whose row is settled or gone is over *)
(* for good.                                                               *)

Begun(j) == pc[j] \notin {"idle", "insert"}

IsOver(j) == Begun(j) /\ rows[j].status \notin Active

RowInv ==
  /\ \A j \in Job : ~Begun(j) => rows[j] = NoRow
  /\ \A j \in Job : canc[j].pc # "idle" => Begun(j)
  /\ \A j \in Job : pc[j] = "wrapup" \/ canc[j].pc = "announce" => IsOver(j)
  /\ \A p \in Proc : \A j \in handed[p] : IsOver(j)
  /\ \A p \in Proc :
       replay[p].pc = "dispatch" => \A j \in replay[p].work : IsOver(j)

(* A job begins once: no step of a thread, a cancel, a purge or a crash    *)
(* takes it back to before its row was made.                               *)
LEMMA BegunStays ==
  ASSUME TypeOK, [Next]_vars, NEW i \in Job, Begun(i)
  PROVE  Begun(i)'
<1> USE DEF jobVars, poolVars, procVars
<1>1. ASSUME NEW j \in Job, SpawnStep(j) \/ RunnerStep(j) \/ ToolStep(j)
      PROVE  Begun(i)'
  BY <1>1
     DEF SpawnStep, InsertRow, InsertFails, EnqueueJob, RejectJob, RunnerStep,
         PromoteRow, PromoteFails, StartRunner, RunnerFails, SettleRow,
         SettleLost, WrapUp, ExitRunner, ToolStep, ToolReturns, BudgetExpires,
         ParkApproval, ResumeApproval, DenyApproval, EndDispatch, Goto, TypeOK,
         Begun
<1>2. ASSUME NEW j \in Job,
             CancelStep(j) \/ ToolCancelled(j) \/ PollCancelFlag(j)
      PROVE  Begun(i)'
  BY <1>2
     DEF CancelStep, CancelUnqueue, CancelFlag, CancelTrip, CancelDismiss,
         CancelMark, CancelSettle, CancelAnnounce, ToolCancelled, EndDispatch,
         PollCancelFlag, Goto, TypeOK, Begun
<1>3. ASSUME NEW j \in Job, NEW p \in Proc,
             \/ Spawn(j, p) \/ Detach(j, p)
             \/ BeginCancel(j, p) \/ InjectResult(p, j)
      PROVE  Begun(i)'
  BY <1>3 DEF Spawn, Detach, BeginCancel, InjectResult, Goto, TypeOK, Begun
<1>4. ASSUME NEW p \in Proc, TakeJob(p)
      PROVE  Begun(i)'
  BY <1>4 DEF TakeJob, Goto, TypeOK, Begun
<1>5. ASSUME NEW p \in Proc,
             \/ WakeScheduler(p) \/ SchedulerParks(p)
             \/ ReplayStep(p) \/ StartProcess(p)
      PROVE  Begun(i)'
  <2>1. pc' = pc
    BY <1>5 DEF WakeScheduler, SchedulerParks, ReplayStep, ReplayList,
                ReplayPending, ReplayEnds, ReplayInterrupt, ReplayDispatch,
                StartProcess
  <2> QED BY <2>1 DEF Begun
<1>6. ASSUME NEW p \in Proc, Crash(p)
      PROVE  Begun(i)'
  BY <1>6 DEF Crash, Begun
<1>7. ASSUME NEW p \in Proc, NEW s \in Session, PurgeSession(s, p)
      PROVE  Begun(i)'
  BY <1>7 DEF PurgeSession, Begun
<1>8. CASE UNCHANGED vars
  BY <1>8 DEF vars, Begun
<1> QED BY <1>1, <1>2, <1>3, <1>4, <1>5, <1>6, <1>7, <1>8
        DEF Next, SchedulerStep

(* An edge of the lifecycle of a row, other than its creation and removal. *)
MayBecome(old, new) ==
  \/ new = old
  \/ \E e \in Lifecycle!Edges :
       old.status = e[1] /\ new = [old EXCEPT !.status = e[2]]
  \/ old.status \in Active /\ new = [old EXCEPT !.cancelRequested = TRUE]
  \/ /\ old.status \in Active
     /\ \E st \in Terminal : new = [old EXCEPT !.status = st]
  \/ old.status \in Terminal /\ new = [old EXCEPT !.injected = TRUE]

(* Each UPDATE statement takes one edge of the lifecycle or none (db.rs,   *)
(* the WHERE clauses); mark_injected, which has no guard, does so on a row *)
(* that is not active.                                                     *)
LEMMA RowMoves ==
  ASSUME NEW row \in Row
  PROVE  /\ MayBecome(row, MarkRunning(row))
         /\ MayBecome(row, Park(row)) /\ MayBecome(row, Resume(row))
         /\ MayBecome(row, MarkCancelling(row))
         /\ MayBecome(row, RequestCancel(row))
         /\ \A st \in Terminal : MayBecome(row, Settle(row, st))
         /\ row.status \notin Active => MayBecome(row, MarkInjected(row))
<1>1. ASSUME NEW e \in Lifecycle!Edges, row.status = e[1]
      PROVE  MayBecome(row, [row EXCEPT !.status = e[2]])
  BY <1>1 DEF MayBecome
<1>2. MayBecome(row, row)
  BY DEF MayBecome
<1>3. MayBecome(row, MarkRunning(row))
  <2>1. <<"queued", "running">> \in Lifecycle!Edges
    BY DEF Lifecycle!Edges
  <2>2. row.status = "queued" =>
          MayBecome(row, [row EXCEPT !.status = "running"])
    BY <2>1, <1>1
  <2> QED BY <2>2, <1>2 DEF MarkRunning, CanMarkRunning
<1>4. MayBecome(row, Park(row))
  <2>1. <<"running", "awaiting_approval">> \in Lifecycle!Edges
    BY DEF Lifecycle!Edges
  <2>2. row.status = "running" =>
          MayBecome(row, [row EXCEPT !.status = "awaiting_approval"])
    BY <2>1, <1>1
  <2> QED BY <2>2, <1>2 DEF Park
<1>5. MayBecome(row, Resume(row))
  <2>1. <<"awaiting_approval", "running">> \in Lifecycle!Edges
    BY DEF Lifecycle!Edges
  <2>2. row.status = "awaiting_approval" =>
          MayBecome(row, [row EXCEPT !.status = "running"])
    BY <2>1, <1>1
  <2> QED BY <2>2, <1>2 DEF Resume
<1>6. MayBecome(row, MarkCancelling(row))
  <2>1. /\ <<"running", "cancelling">> \in Lifecycle!Edges
        /\ <<"awaiting_approval", "cancelling">> \in Lifecycle!Edges
    BY DEF Lifecycle!Edges
  <2>2. row.status \in {"running", "awaiting_approval"} =>
          MayBecome(row, [row EXCEPT !.status = "cancelling"])
    BY <2>1, <1>1
  <2>3. [row EXCEPT !.status = row.status] = row
    BY DEF Row
  <2>4. row.status = "cancelling" => [row EXCEPT !.status = "cancelling"] = row
    BY <2>3
  <2>5. \/ row.status \in {"cancelling", "running", "awaiting_approval"}
        \/ ~CanMarkCancelling(row)
    BY DEF CanMarkCancelling, Active
  <2> QED BY <2>2, <2>4, <2>5, <1>2 DEF MarkCancelling
<1>7. MayBecome(row, RequestCancel(row))
  BY DEF MayBecome, RequestCancel
<1>8. ASSUME NEW st \in Terminal
      PROVE  MayBecome(row, Settle(row, st))
  BY <1>8 DEF MayBecome, Settle, CanSettle
<1>9. row.status \notin Active => MayBecome(row, MarkInjected(row))
  <2>1. row.status \in Terminal \cup Active \cup {"absent"}
    BY DEF Row, Status
  <2> QED BY <2>1 DEF MayBecome, MarkInjected
<1> QED BY <1>3, <1>4, <1>5, <1>6, <1>7, <1>8, <1>9

(* A row that takes such an edge is a step of the lifecycle.               *)
LEMMA EdgeIsStep ==
  ASSUME TypeOK, NEW j \in Job, NEW row, MayBecome(rows[j], row),
         rows' = [rows EXCEPT ![j] = row]
  PROVE  Lifecycle!Next \/ UNCHANGED rows
<1>1. Lifecycle!Active = Active /\ Lifecycle!Terminal = Terminal
  BY DEF Lifecycle!Active, Active, Lifecycle!Terminal, Terminal
<1>2. rows[j] \in Row
  BY DEF TypeOK
<1>3. CASE row = rows[j]
  BY <1>3 DEF TypeOK
<1>4. ASSUME NEW e \in Lifecycle!Edges, rows[j].status = e[1],
             row = [rows[j] EXCEPT !.status = e[2]]
      PROVE  Lifecycle!Progress(j)
  BY <1>4 DEF Lifecycle!Progress
<1>5. ASSUME rows[j].status \in Active,
             row = [rows[j] EXCEPT !.cancelRequested = TRUE]
      PROVE  Lifecycle!AskCancel(j)
  BY <1>1, <1>5 DEF Lifecycle!AskCancel
<1>6. ASSUME rows[j].status \in Active, NEW st \in Terminal,
             row = [rows[j] EXCEPT !.status = st]
      PROVE  Lifecycle!Finish(j)
  BY <1>1, <1>6 DEF Lifecycle!Finish
<1>7. ASSUME rows[j].status \in Terminal,
             row = [rows[j] EXCEPT !.injected = TRUE]
      PROVE  Lifecycle!Close(j)
  BY <1>1, <1>7 DEF Lifecycle!Close
<1> QED BY <1>3, <1>4, <1>5, <1>6, <1>7 DEF Lifecycle!Next, MayBecome

(* How a step changes the table.                                           *)
RowEdge ==
  \E j \in Job : \E row :
    MayBecome(rows[j], row) /\ rows' = [rows EXCEPT ![j] = row]

RowMade ==
  \E j \in Job : \E st \in {"queued", "running"} :
    /\ ~Begun(j) /\ pc'[j] \in {"enqueue", "start", "run"}
    /\ rows' = [rows EXCEPT ![j] = NewRow(st)]

RowsGone ==
  \E S \in SUBSET Job :
    rows' = [j \in Job |-> IF j \in S THEN NoRow ELSE rows[j]]

(* Every step leaves the table alone, moves one row along an edge of the   *)
(* lifecycle, makes one, or removes some (reject, purge).                  *)
LEMMA RowChange ==
  ASSUME Typed, RowInv, [Next]_vars
  PROVE  UNCHANGED rows \/ RowEdge \/ RowMade \/ RowsGone
<1> USE DEF jobVars, poolVars, procVars
<1>0. ASSUME NEW j \in Job
      PROVE  rows[j] \in Row
  BY DEF Typed, TypeOK
<1>1. ASSUME NEW j \in Job, NEW row, MayBecome(rows[j], row), Update(j, row)
      PROVE  RowEdge
  BY <1>1 DEF RowEdge, Update
<1>2. ASSUME NEW j \in Job, SpawnStep(j)
      PROVE  UNCHANGED rows \/ RowMade \/ RowsGone
  <2>1. CASE InsertRow(j)
    <3>1. ~Begun(j) /\ pc'[j] \in {"enqueue", "start", "run"}
      BY <2>1 DEF InsertRow, Goto, Begun, Typed, TypeOK
    <3> QED BY <2>1, <3>1 DEF InsertRow, Update, RowMade
  <2>2. CASE RejectJob(j)
    <3>1. rows' = [i \in Job |-> IF i \in {j} THEN NoRow ELSE rows[i]]
      BY <2>2 DEF RejectJob, Update, Typed, TypeOK
    <3> QED BY <3>1 DEF RowsGone
  <2>3. CASE InsertFails(j) \/ EnqueueJob(j)
    BY <2>3 DEF InsertFails, EnqueueJob
  <2> QED BY <1>2, <2>1, <2>2, <2>3 DEF SpawnStep
<1>3. ASSUME NEW j \in Job, RunnerStep(j)
      PROVE  UNCHANGED rows \/ RowEdge
  <2>1. CASE PromoteRow(j)
    BY <2>1, <1>0, <1>1, RowMoves DEF PromoteRow
  <2>2. CASE RunnerFails(j)
    <3>1. "failed" \in Terminal
      BY DEF Terminal
    <3> QED BY <2>2, <3>1, <1>0, <1>1, RowMoves DEF RunnerFails
  <2>3. CASE SettleRow(j)
    <3>1. verdict[j] \in Terminal
      BY <2>3 DEF SettleRow, Typed, VerdictKnown, TypeOK, Verdict, Terminal
    <3> QED BY <2>3, <3>1, <1>0, <1>1, RowMoves DEF SettleRow
  <2>4. CASE WrapUp(j)
    <3>1. rows[j].status \notin Active
      BY <2>4 DEF WrapUp, RowInv, IsOver
    <3> QED BY <2>4, <3>1, <1>0, <1>1, RowMoves DEF WrapUp
  <2>5. CASE PromoteFails(j) \/ StartRunner(j) \/ SettleLost(j) \/ ExitRunner(j)
    BY <2>5 DEF PromoteFails, StartRunner, SettleLost, ExitRunner
  <2> QED BY <1>3, <2>1, <2>2, <2>3, <2>4, <2>5 DEF RunnerStep
<1>4. ASSUME NEW j \in Job, ToolStep(j) \/ ToolCancelled(j) \/ PollCancelFlag(j)
      PROVE  UNCHANGED rows \/ RowEdge
  <2>1. CASE ParkApproval(j)
    BY <2>1, <1>0, <1>1, RowMoves DEF ParkApproval
  <2>2. CASE ResumeApproval(j)
    BY <2>2, <1>0, <1>1, RowMoves DEF ResumeApproval
  <2>3. CASE \/ ToolReturns(j) \/ BudgetExpires(j) \/ DenyApproval(j)
             \/ ToolCancelled(j) \/ PollCancelFlag(j)
    BY <2>3 DEF ToolReturns, BudgetExpires, DenyApproval, ToolCancelled,
                PollCancelFlag, EndDispatch
  <2> QED BY <1>4, <2>1, <2>2, <2>3 DEF ToolStep
<1>5. ASSUME NEW j \in Job, CancelStep(j)
      PROVE  UNCHANGED rows \/ RowEdge
  <2>1. CASE CancelFlag(j)
    BY <2>1, <1>0, <1>1, RowMoves DEF CancelFlag
  <2>2. CASE CancelMark(j)
    BY <2>2, <1>0, <1>1, RowMoves DEF CancelMark
  <2>3. CASE CancelSettle(j)
    <3>1. "cancelled" \in Terminal
      BY DEF Terminal
    <3> QED BY <2>3, <3>1, <1>0, <1>1, RowMoves DEF CancelSettle
  <2>4. CASE CancelAnnounce(j)
    <3>1. rows[j].status \notin Active
      BY <2>4 DEF CancelAnnounce, CancelOf, RowInv, IsOver
    <3> QED BY <2>4, <3>1, <1>0, <1>1, RowMoves DEF CancelAnnounce
  <2>5. CASE CancelUnqueue(j) \/ CancelTrip(j) \/ CancelDismiss(j)
    BY <2>5 DEF CancelUnqueue, CancelTrip, CancelDismiss
  <2> QED BY <1>5, <2>1, <2>2, <2>3, <2>4, <2>5 DEF CancelStep
<1>6. ASSUME NEW j \in Job, NEW p \in Proc,
             Spawn(j, p) \/ Detach(j, p) \/ BeginCancel(j, p)
      PROVE  UNCHANGED rows \/ RowMade
  <2>1. CASE Detach(j, p)
    <3>1. ~Begun(j) /\ pc'[j] \in {"enqueue", "start", "run"}
      BY <2>1 DEF Detach, Goto, Begun, Typed, TypeOK
    <3> QED BY <2>1, <3>1 DEF Detach, Update, RowMade
  <2> QED BY <1>6, <2>1 DEF Spawn, BeginCancel
<1>7. ASSUME NEW j \in Job, NEW p \in Proc, InjectResult(p, j)
      PROVE  RowEdge
  <2>1. rows[j].status \notin Active
    BY <1>7 DEF InjectResult, RowInv, IsOver
  <2> QED BY <1>7, <2>1, <1>0, <1>1, RowMoves DEF InjectResult
<1>8. ASSUME NEW p \in Proc, ReplayStep(p)
      PROVE  UNCHANGED rows \/ RowEdge
  <2>1. ASSUME NEW j \in Job, ReplayInterrupt(p, j)
        PROVE  RowEdge
    <3>1. "interrupted" \in Terminal
      BY DEF Terminal
    <3> QED BY <2>1, <3>1, <1>0, <1>1, RowMoves DEF ReplayInterrupt
  <2>2. ASSUME NEW j \in Job, ReplayDispatch(p, j)
        PROVE  UNCHANGED rows \/ RowEdge
    <3>1. rows[j].status \notin Active
      BY <2>2 DEF ReplayDispatch, RowInv, IsOver
    <3> QED BY <2>2, <3>1, <1>0, <1>1, RowMoves DEF ReplayDispatch
  <2>3. CASE ReplayList(p) \/ ReplayPending(p) \/ ReplayEnds(p)
    BY <2>3 DEF ReplayList, ReplayPending, ReplayEnds
  <2> QED BY <1>8, <2>1, <2>2, <2>3 DEF ReplayStep
<1>9. ASSUME NEW p \in Proc, SchedulerStep(p) \/ StartProcess(p) \/ Crash(p)
      PROVE  UNCHANGED rows
  BY <1>9 DEF SchedulerStep, WakeScheduler, TakeJob, SchedulerParks,
              StartProcess, Crash
<1>10. ASSUME NEW p \in Proc, NEW s \in Session, PurgeSession(s, p)
       PROVE  RowsGone
  BY <1>10 DEF PurgeSession, RowsGone
<1> QED BY <1>2, <1>3, <1>4, <1>5, <1>6, <1>7, <1>8, <1>9, <1>10
        DEF Next, vars

(* A job that is over stays over: no statement reopens a settled row, and  *)
(* what it settled as stays, unless the row goes.                          *)
LEMMA OverStays ==
  ASSUME Typed, RowInv, [Next]_vars, NEW i \in Job, IsOver(i)
  PROVE  IsOver(i)' /\ rows'[i].status \in {rows[i].status, "absent"}
<1>1. Begun(i)'
  BY BegunStays DEF IsOver, Typed
<1>2. rows'[i].status \in {rows[i].status, "absent"}
  <2>0. /\ rows \in [Job -> Row] /\ rows[i] \in Row
        /\ rows[i].status \notin Active /\ Begun(i)
    BY DEF Typed, TypeOK, IsOver
  <2>1. CASE UNCHANGED rows
    BY <2>0, <2>1
  <2>2. CASE RowEdge
    <3>0. PICK j \in Job : \E row : /\ MayBecome(rows[j], row)
                                    /\ rows' = [rows EXCEPT ![j] = row]
      BY <2>2 DEF RowEdge
    <3>1. PICK row : /\ MayBecome(rows[j], row)
                     /\ rows' = [rows EXCEPT ![j] = row]
      BY <3>0
    <3>2. CASE i = j
      <4>1. \A e \in Lifecycle!Edges : e[1] \in Active
        BY DEF Lifecycle!Edges, Active
      <4>2. row = rows[j] \/ row = [rows[j] EXCEPT !.injected = TRUE]
        BY <2>0, <3>1, <3>2, <4>1 DEF MayBecome
      <4> QED BY <2>0, <3>1, <3>2, <4>2 DEF Row
    <3> QED BY <2>0, <3>1, <3>2
  <2>3. CASE RowMade
    BY <2>0, <2>3 DEF RowMade
  <2>4. CASE RowsGone
    BY <2>0, <2>4 DEF RowsGone, NoRow
  <2> QED BY <2>1, <2>2, <2>3, <2>4, RowChange
<1> QED BY <1>1, <1>2 DEF IsOver, Active

(* A settled row is not active, whatever it was settled as.                *)
LEMMA SettledIsSettled ==
  ASSUME NEW row \in Row, NEW st \in Terminal
  PROVE  /\ Settle(row, st) \in Row
         /\ Settle(row, st).status \notin Active
         /\ row.status \notin Active => Settle(row, st) = row
         /\ row.status \in Active => Settle(row, st).status = st
BY RowTypes DEF Settle, CanSettle, Row, Active, Terminal

(* A cancel call begins, and goes on to announce, only here (cancel_job).  *)
LEMMA CancelMoves ==
  ASSUME TypeOK, [Next]_vars, NEW j \in Job
  PROVE  \/ canc'[j] = canc[j] \/ canc'[j] = Idle
         \/ CancelStep(j) \/ \E p \in Proc : BeginCancel(j, p)
<1> USE DEF jobVars, poolVars, procVars
<1>1. ASSUME NEW i \in Job, SpawnStep(i) \/ RunnerStep(i) \/ ToolStep(i)
      PROVE  canc' = canc
  BY <1>1
     DEF SpawnStep, InsertRow, InsertFails, EnqueueJob, RejectJob, RunnerStep,
         PromoteRow, PromoteFails, StartRunner, RunnerFails, SettleRow,
         SettleLost, WrapUp, ExitRunner, ToolStep, ToolReturns, BudgetExpires,
         ParkApproval, ResumeApproval, DenyApproval, EndDispatch
<1>2. ASSUME NEW i \in Job, CancelStep(i), i # j
      PROVE  canc'[j] = canc[j]
  BY <1>2
     DEF CancelStep, CancelUnqueue, CancelFlag, CancelTrip, CancelDismiss,
         CancelMark, CancelSettle, CancelAnnounce, CancelGoto, TypeOK
<1>3. ASSUME NEW i \in Job, NEW p \in Proc, BeginCancel(i, p), i # j
      PROVE  canc'[j] = canc[j]
  BY <1>3 DEF BeginCancel, TypeOK
<1>4. ASSUME NEW i \in Job, NEW p \in Proc,
             \/ Spawn(i, p) \/ Detach(i, p) \/ InjectResult(p, i)
             \/ ToolCancelled(i) \/ PollCancelFlag(i)
      PROVE  canc' = canc
  BY <1>4 DEF Spawn, Detach, InjectResult, ToolCancelled, EndDispatch,
              PollCancelFlag
<1>5. ASSUME NEW p \in Proc, SchedulerStep(p) \/ ReplayStep(p) \/ StartProcess(p)
      PROVE  canc' = canc
  BY <1>5 DEF SchedulerStep, WakeScheduler, TakeJob, SchedulerParks, ReplayStep,
              ReplayList, ReplayPending, ReplayEnds, ReplayInterrupt,
              ReplayDispatch, StartProcess
<1>6. ASSUME NEW p \in Proc, Crash(p)
      PROVE  canc'[j] = canc[j] \/ canc'[j] = Idle
  BY <1>6 DEF Crash
<1>7. ASSUME NEW p \in Proc, NEW s \in Session, PurgeSession(s, p)
      PROVE  canc' = canc
  BY <1>7 DEF PurgeSession
<1>8. CASE UNCHANGED vars
  BY <1>8 DEF vars
<1>9. Proc # {}
  BY ProcAssumption
<1> QED BY <1>1, <1>2, <1>3, <1>4, <1>5, <1>6, <1>7, <1>8, <1>9 DEF Next

(* Only a runner that settled its row, or could not start, wraps up.       *)
LEMMA WrapUpStarts ==
  ASSUME TypeOK, [Next]_vars, NEW j \in Job, pc'[j] = "wrapup"
  PROVE  pc[j] = "wrapup" \/ RunnerFails(j) \/ SettleRow(j)
<1> USE DEF jobVars, poolVars, procVars
<1>1. ASSUME NEW i \in Job, SpawnStep(i) \/ ToolStep(i) \/ CancelStep(i)
      PROVE  pc[j] = "wrapup"
  BY <1>1
     DEF SpawnStep, InsertRow, InsertFails, EnqueueJob, RejectJob, ToolStep,
         ToolReturns, BudgetExpires, ParkApproval, ResumeApproval, DenyApproval,
         EndDispatch, CancelStep, CancelUnqueue, CancelFlag, CancelTrip,
         CancelDismiss, CancelMark, CancelSettle, CancelAnnounce, Goto, TypeOK
<1>2. ASSUME NEW i \in Job, RunnerStep(i)
      PROVE  pc[j] = "wrapup" \/ RunnerFails(j) \/ SettleRow(j)
  BY <1>2
     DEF RunnerStep, PromoteRow, PromoteFails, StartRunner, RunnerFails,
         SettleRow, SettleLost, WrapUp, ExitRunner, Goto, TypeOK
<1>3. ASSUME NEW i \in Job, ToolCancelled(i) \/ PollCancelFlag(i)
      PROVE  pc[j] = "wrapup"
  BY <1>3 DEF ToolCancelled, EndDispatch, PollCancelFlag, Goto, TypeOK
<1>4. ASSUME NEW i \in Job, NEW p \in Proc,
             \/ Spawn(i, p) \/ Detach(i, p)
             \/ BeginCancel(i, p) \/ InjectResult(p, i)
      PROVE  pc[j] = "wrapup"
  BY <1>4 DEF Spawn, Detach, BeginCancel, InjectResult, Goto, TypeOK
<1>5. ASSUME NEW p \in Proc, TakeJob(p)
      PROVE  pc[j] = "wrapup"
  BY <1>5 DEF TakeJob, Goto, TypeOK
<1>6. ASSUME NEW p \in Proc,
             \/ WakeScheduler(p) \/ SchedulerParks(p)
             \/ ReplayStep(p) \/ StartProcess(p)
      PROVE  pc' = pc
  BY <1>6 DEF WakeScheduler, SchedulerParks, ReplayStep, ReplayList,
              ReplayPending, ReplayEnds, ReplayInterrupt, ReplayDispatch,
              StartProcess
<1>7. ASSUME NEW p \in Proc, Crash(p)
      PROVE  pc[j] = "wrapup"
  BY <1>7 DEF Crash
<1>8. ASSUME NEW p \in Proc, NEW s \in Session, PurgeSession(s, p)
      PROVE  pc[j] = "wrapup"
  BY <1>8 DEF PurgeSession
<1>9. CASE UNCHANGED vars
  BY <1>9 DEF vars
<1> QED BY <1>1, <1>2, <1>3, <1>4, <1>5, <1>6, <1>7, <1>8, <1>9
        DEF Next, SchedulerStep

(* A job enters a pipeline from its runner or from the replay.             *)
LEMMA HandedBy ==
  ASSUME TypeOK, [Next]_vars, NEW p \in Proc, NEW j \in handed'[p]
  PROVE  /\ j \in Job
         /\ \/ j \in handed[p]
            \/ WrapUp(j) /\ home[j] = p
            \/ ReplayDispatch(p, j)
<1> USE DEF jobVars, poolVars, procVars
<1>0. \A q \in Proc : handed[q] \subseteq Job
  BY DEF TypeOK
<1>1. ASSUME NEW i \in Job, SpawnStep(i) \/ ToolStep(i) \/ CancelStep(i)
      PROVE  handed' = handed
  BY <1>1
     DEF SpawnStep, InsertRow, InsertFails, EnqueueJob, RejectJob, ToolStep,
         ToolReturns, BudgetExpires, ParkApproval, ResumeApproval, DenyApproval,
         EndDispatch, CancelStep, CancelUnqueue, CancelFlag, CancelTrip,
         CancelDismiss, CancelMark, CancelSettle, CancelAnnounce
<1>2. ASSUME NEW i \in Job, RunnerStep(i)
      PROVE  j \in handed[p] \/ (j = i /\ WrapUp(i) /\ home[i] = p)
  <2>1. CASE WrapUp(i)
    BY <2>1 DEF WrapUp, TypeOK
  <2> QED BY <1>2, <2>1
     DEF RunnerStep, PromoteRow, PromoteFails, StartRunner, RunnerFails,
         SettleRow, SettleLost, ExitRunner
<1>3. ASSUME NEW i \in Job, NEW q \in Proc,
             \/ ToolCancelled(i) \/ PollCancelFlag(i)
             \/ Spawn(i, q) \/ Detach(i, q) \/ BeginCancel(i, q)
      PROVE  handed' = handed
  BY <1>3 DEF ToolCancelled, EndDispatch, PollCancelFlag, Spawn, Detach,
              BeginCancel
<1>4. ASSUME NEW i \in Job, NEW q \in Proc, InjectResult(q, i)
      PROVE  j \in handed[p]
  BY <1>4 DEF InjectResult, TypeOK
<1>5. ASSUME NEW q \in Proc, NEW i \in Job, ReplayDispatch(q, i)
      PROVE  j \in handed[p] \/ (j = i /\ q = p)
  BY <1>5 DEF ReplayDispatch, TypeOK
<1>6. ASSUME NEW q \in Proc,
             \/ SchedulerStep(q) \/ StartProcess(q) \/ ReplayList(q)
             \/ ReplayPending(q) \/ ReplayEnds(q)
             \/ \E i \in Job : ReplayInterrupt(q, i)
      PROVE  handed' = handed
  BY <1>6 DEF SchedulerStep, WakeScheduler, TakeJob, SchedulerParks,
              ReplayList, ReplayPending, ReplayEnds, ReplayInterrupt,
              StartProcess
<1>7. ASSUME NEW q \in Proc, Crash(q)
      PROVE  j \in handed[p]
  BY <1>7 DEF Crash, TypeOK
<1>8. ASSUME NEW q \in Proc, NEW s \in Session, PurgeSession(s, q)
      PROVE  j \in handed[p]
  BY <1>8 DEF PurgeSession, TypeOK
<1>9. ASSUME UNCHANGED vars
      PROVE  handed' = handed
  BY <1>9 DEF vars
<1> DEFINE Entered == \/ j \in handed[p]
                      \/ \E i \in Job : j = i /\ WrapUp(i) /\ home[i] = p
                      \/ \E i \in Job : j = i /\ ReplayDispatch(p, i)
<1>10. ASSUME handed' = handed
       PROVE  Entered
  BY <1>10
<1>11. ASSUME NEW i \in Job, RunnerStep(i)
       PROVE  Entered
  BY <1>2, <1>11
<1>12. ASSUME NEW q \in Proc, NEW i \in Job, ReplayDispatch(q, i)
       PROVE  Entered
  BY <1>5, <1>12
<1>13. ASSUME NEW q \in Proc, ReplayStep(q)
       PROVE  Entered
  BY <1>6, <1>10, <1>12, <1>13 DEF ReplayStep
<1>14. ASSUME NEW q \in Proc, SchedulerStep(q) \/ StartProcess(q)
       PROVE  Entered
  BY <1>6, <1>10, <1>14
<1>15. Entered
  <2> HIDE DEF Entered
  <2>2. ASSUME NEW i \in Job, NEW q \in Proc, InjectResult(q, i)
        PROVE  Entered
    BY <1>4, <2>2 DEF Entered
  <2>3. ASSUME NEW q \in Proc,
               Crash(q) \/ \E s \in Session : PurgeSession(s, q)
        PROVE  Entered
    BY <1>7, <1>8, <2>3 DEF Entered
  <2>4. ASSUME NEW i \in Job,
               \/ SpawnStep(i) \/ RunnerStep(i) \/ ToolStep(i) \/ CancelStep(i)
               \/ ToolCancelled(i) \/ PollCancelFlag(i)
        PROVE  Entered
    BY <1>1, <1>3, <1>10, <1>11, <2>4
  <2>5. ASSUME NEW i \in Job, NEW q \in Proc,
               \/ Spawn(i, q) \/ Detach(i, q)
               \/ BeginCancel(i, q) \/ InjectResult(q, i)
        PROVE  Entered
    BY <1>3, <1>10, <2>2, <2>5
  <2>6. CASE UNCHANGED vars
    BY <1>9, <1>10, <2>6
  <2> QED BY <1>13, <1>14, <2>3, <2>4, <2>5, <2>6 DEF Next
<1> QED BY <1>0, <1>15

(* What a replay has to dispatch is what it listed, less what it did.      *)
LEMMA ReplayLists ==
  ASSUME TypeOK, [Next]_vars, NEW p \in Proc, replay'[p].pc = "dispatch"
  PROVE  \/ ReplayPending(p)
         \/ /\ replay[p].pc = "dispatch"
            /\ replay'[p].work \subseteq replay[p].work
<1> USE DEF jobVars, poolVars, procVars
<1>1. ASSUME NEW i \in Job,
             \/ SpawnStep(i) \/ ToolStep(i) \/ CancelStep(i) \/ RunnerStep(i)
             \/ ToolCancelled(i) \/ PollCancelFlag(i)
      PROVE  replay' = replay
  BY <1>1
     DEF SpawnStep, InsertRow, InsertFails, EnqueueJob, RejectJob, ToolStep,
         ToolReturns, BudgetExpires, ParkApproval, ResumeApproval, DenyApproval,
         EndDispatch, CancelStep, CancelUnqueue, CancelFlag, CancelTrip,
         CancelDismiss, CancelMark, CancelSettle, CancelAnnounce, RunnerStep,
         PromoteRow, PromoteFails, StartRunner, RunnerFails, SettleRow,
         SettleLost, WrapUp, ExitRunner, ToolCancelled, PollCancelFlag
<1>2. ASSUME NEW q \in Proc,
             \/ SchedulerStep(q)
             \/ \E i \in Job : \/ Spawn(i, q) \/ Detach(i, q)
                               \/ BeginCancel(i, q) \/ InjectResult(q, i)
      PROVE  replay' = replay
  BY <1>2 DEF Spawn, Detach, BeginCancel, InjectResult, SchedulerStep,
              WakeScheduler, TakeJob, SchedulerParks
<1>3. ASSUME NEW q \in Proc, ReplayStep(q)
      PROVE  \/ ReplayPending(p)
             \/ /\ replay[p].pc = "dispatch"
                /\ replay'[p].work \subseteq replay[p].work
  BY <1>3 DEF ReplayStep, ReplayList, ReplayPending, ReplayEnds,
              ReplayInterrupt, ReplayDispatch, ReplayGoto, NoReplay, TypeOK
<1>4. ASSUME NEW q \in Proc, StartProcess(q) \/ Crash(q)
      PROVE  replay[p].pc = "dispatch" /\ replay'[p] = replay[p]
  BY <1>4 DEF StartProcess, Crash, NoReplay, TypeOK
<1>5. ASSUME NEW q \in Proc, NEW s \in Session, PurgeSession(s, q)
      PROVE  replay' = replay
  BY <1>5 DEF PurgeSession
<1>6. ASSUME UNCHANGED vars
      PROVE  replay' = replay
  BY <1>6 DEF vars
<1>7. CASE replay' = replay
  BY <1>7
<1> QED BY <1>1, <1>2, <1>3, <1>4, <1>5, <1>6, <1>7 DEF Next

(* Who settles, announces or hands over a job, or lists its result, does   *)
(* so when its row is settled or gone.                                     *)
LEMMA RowInvStep ==
  ASSUME Typed, RowInv, [Next]_vars
  PROVE  RowInv'
<1> USE DEF jobVars, poolVars, procVars
<1>a. /\ rows \in [Job -> Row] /\ pc \in [Job -> PC]
      /\ \A j \in Job : Begun(j) => Begun(j)'
      /\ \A j \in Job : IsOver(j) => IsOver(j)'
  BY BegunStays, OverStays DEF Typed, TypeOK
<1>b. \A j \in Job : rows[j].status \in Active \cup Terminal => Begun(j)
  BY DEF RowInv, NoRow, Active, Terminal
<1>1. ASSUME NEW j \in Job, ~Begun(j)'
      PROVE  rows'[j] = NoRow
  <2>1. ~Begun(j) /\ rows[j] = NoRow
    BY <1>1, <1>a DEF RowInv
  <2>2. ASSUME RowEdge PROVE rows'[j] = NoRow
    <3>0. PICK i \in Job : \E row : /\ MayBecome(rows[i], row)
                                    /\ rows' = [rows EXCEPT ![i] = row]
      BY <2>2 DEF RowEdge
    <3>1. PICK row : /\ MayBecome(rows[i], row)
                     /\ rows' = [rows EXCEPT ![i] = row]
      BY <3>0
    <3>2. CASE i = j
      <4>1. \A e \in Lifecycle!Edges : e[1] # "absent"
        BY DEF Lifecycle!Edges
      <4>2. "absent" \notin Active \cup Terminal /\ NoRow.status = "absent"
        BY DEF Active, Terminal, NoRow
      <4>3. row = rows[j]
        BY <2>1, <3>1, <3>2, <4>1, <4>2 DEF MayBecome
      <4> QED BY <1>a, <2>1, <3>1, <3>2, <4>3
    <3> QED BY <1>a, <2>1, <3>1, <3>2
  <2>3. ASSUME RowMade PROVE rows'[j] = NoRow
    BY <1>1, <2>1, <2>3, <1>a DEF RowMade, Begun
  <2>4. ASSUME RowsGone PROVE rows'[j] = NoRow
    BY <2>1, <2>4 DEF RowsGone
  <2> QED BY <2>1, <2>2, <2>3, <2>4, RowChange
<1>2. ASSUME NEW j \in Job, canc'[j].pc # "idle"
      PROVE  Begun(j)'
  <2>1. \/ canc[j].pc # "idle"
        \/ \E p \in Proc : BeginCancel(j, p)
    <3>1. Idle.pc = "idle"
      BY DEF Idle
    <3>2. CancelStep(j) => canc[j].pc # "idle"
      BY DEF CancelStep, CancelOf, CancelUnqueue, CancelFlag, CancelTrip,
             CancelDismiss, CancelMark, CancelSettle, CancelAnnounce
    <3> QED BY <1>2, <3>1, <3>2, CancelMoves DEF Typed
  <2>2. ASSUME NEW p \in Proc, BeginCancel(j, p)
        PROVE  Begun(j)
    BY <2>2, <1>b DEF BeginCancel
  <2> QED BY <2>1, <2>2, <1>a DEF RowInv
<1>3. ASSUME NEW j \in Job, pc'[j] = "wrapup"
      PROVE  IsOver(j)'
  <2>1. pc[j] = "wrapup" \/ RunnerFails(j) \/ SettleRow(j)
    BY <1>3, WrapUpStarts DEF Typed
  <2>2. CASE pc[j] = "wrapup"
    BY <2>2, <1>a DEF RowInv
  <2>3. CASE RunnerFails(j) \/ SettleRow(j)
    <3>1. PICK st \in Terminal : rows' = [rows EXCEPT ![j] = Settle(rows[j], st)]
      <4>1. CASE RunnerFails(j)
        BY <4>1 DEF RunnerFails, Update, Terminal
      <4>2. CASE SettleRow(j)
        <5>1. verdict[j] \in Terminal
          BY <4>2 DEF SettleRow, Typed, VerdictKnown, TypeOK, Verdict, Terminal
        <5> QED BY <4>2, <5>1 DEF SettleRow, Update
      <4> QED BY <2>3, <4>1, <4>2
    <3>2. rows'[j].status \notin Active
      BY <3>1, <1>a, SettledIsSettled
    <3> QED BY <1>3, <3>2 DEF IsOver, Begun
  <2> QED BY <2>1, <2>2, <2>3
<1>4. ASSUME NEW j \in Job, canc'[j].pc = "announce"
      PROVE  IsOver(j)'
  <2>1. canc[j].pc = "announce" \/ CancelSettle(j)
    <3>1. Idle.pc = "idle"
      BY DEF Idle
    <3>2. ASSUME NEW p \in Proc, BeginCancel(j, p)
          PROVE  FALSE
      <4>1. canc'[j] = [Idle EXCEPT !.pc = "unqueue", !.proc = p]
        BY <3>2 DEF BeginCancel, Typed, TypeOK
      <4> QED BY <1>4, <4>1 DEF Idle
    <3>3. CancelStep(j) => CancelSettle(j)
      BY <1>4, <3>1
         DEF CancelStep, CancelUnqueue, CancelFlag, CancelTrip, CancelDismiss,
             CancelMark, CancelAnnounce, CancelGoto, Typed, TypeOK
    <3> QED BY <1>4, <3>1, <3>2, <3>3, CancelMoves DEF Typed
  <2>2. ASSUME CancelSettle(j)
        PROVE  IsOver(j)'
    <3>1. /\ rows' = [rows EXCEPT ![j] = Settle(rows[j], "cancelled")]
          /\ Begun(j) /\ "cancelled" \in Terminal
      BY <2>2 DEF CancelSettle, CancelOf, Update, RowInv, Terminal
    <3>2. rows'[j].status \notin Active
      BY <3>1, <1>a, SettledIsSettled
    <3> QED BY <3>1, <3>2, <1>a DEF IsOver
  <2> QED BY <2>1, <2>2, <1>a DEF RowInv
<1>5. ASSUME NEW p \in Proc, NEW j \in handed'[p]
      PROVE  j \in Job /\ IsOver(j)'
  <2>1. /\ j \in Job
        /\ \/ j \in handed[p]
           \/ WrapUp(j) /\ home[j] = p
           \/ ReplayDispatch(p, j)
    BY <1>5, HandedBy DEF Typed
  <2>2. IsOver(j)
    BY <2>1 DEF RowInv, WrapUp, ReplayDispatch
  <2> QED BY <2>1, <2>2, <1>a
<1>6. ASSUME NEW p \in Proc, replay'[p].pc = "dispatch", NEW j \in replay'[p].work
      PROVE  j \in Job => IsOver(j)'
  <2>1. \/ ReplayPending(p)
        \/ /\ replay[p].pc = "dispatch"
           /\ replay'[p].work \subseteq replay[p].work
    BY <1>6, ReplayLists DEF Typed
  <2>2. ASSUME ReplayPending(p), j \in Job
        PROVE  IsOver(j)
    <3>1. PendingInjection(rows[j])
      BY <1>6, <2>2 DEF ReplayPending, ReplayGoto, Typed, TypeOK
    <3>2. rows[j].status \in Terminal
      BY <3>1 DEF PendingInjection
    <3> QED BY <3>2, <2>2, <1>b DEF IsOver, Terminal, Active
  <2> QED BY <1>6, <2>1, <2>2, <1>a DEF RowInv
<1>7. TypeOK'
  BY TypedStep DEF Typed
<1> QED BY <1>1, <1>2, <1>3, <1>4, <1>5, <1>6, <1>7 DEF RowInv, TypeOK

(* In every state the variables have their types and the rows are as       *)
(* RowInv says.                                                            *)
LEMMA RowInvariant == Spec => [](Typed /\ RowInv)
<1>1. Init => RowInv
  BY DEF Init, RowInv, Begun, IsOver, Idle, NoReplay
<1> QED BY <1>1, TypedInit, TypedStep, RowInvStep, PTL DEF Spec

(* The rows follow the lifecycle that the table promises, whatever         *)
(* spawns, promotions, cancels, replays, purges and crashes do to them in  *)
(* how many processes (the WHERE clauses of db.rs).                        *)
THEOREM RowsFollowTheLifecycle == Spec => ImplementsLifecycle
<1>1. Init => Lifecycle!Init
  BY DEF Init, Lifecycle!Init, NoRow, Lifecycle!NoRow
<1>2. ASSUME Typed, RowInv, [Next]_vars
      PROVE  [Lifecycle!Next]_rows
  <2>1. CASE RowEdge
    BY <1>2, <2>1, EdgeIsStep DEF RowEdge, Typed
  <2>2. CASE RowMade
    <3>1. PICK j \in Job, st \in {"queued", "running"} :
            ~Begun(j) /\ rows' = [rows EXCEPT ![j] = NewRow(st)]
      BY <2>2 DEF RowMade
    <3>2. /\ rows[j] = NoRow /\ Lifecycle!NoRow = NoRow
          /\ Lifecycle!NewRow(st) = NewRow(st)
      BY <3>1, <1>2 DEF RowInv, NoRow, NewRow, Lifecycle!NoRow, Lifecycle!NewRow
    <3>3. Lifecycle!Create(j)
      BY <3>1, <3>2 DEF Lifecycle!Create
    <3> QED BY <3>3 DEF Lifecycle!Next
  <2>3. CASE RowsGone
    <3>1. PICK S \in SUBSET Job :
            rows' = [j \in Job |-> IF j \in S THEN NoRow ELSE rows[j]]
      BY <2>3 DEF RowsGone
    <3>2. Lifecycle!Forget(S)
      BY <3>1 DEF Lifecycle!Forget, NoRow, Lifecycle!NoRow
    <3> QED BY <3>2 DEF Lifecycle!Next
  <2> QED BY <1>2, <2>1, <2>2, <2>3, RowChange
<1> QED BY <1>1, <1>2, RowInvariant, PTL
        DEF Spec, ImplementsLifecycle, Lifecycle!Spec

-----------------------------------------------------------------------------
(* Tokens.  A thread that is done, or about to be, has no token left; only *)
(* such a thread has none, and one that died with its process.             *)
Spent == {"unqueued", "exit", "done"}

TokenInv ==
  \A j \in Job :
    /\ pc[j] \in Spent => ~registered[j]
    /\ ~registered[j] => pc[j] \in {"idle", "gone"} \cup Spent
    /\ crashes = 0 => pc[j] # "gone"

(* Every step preserves the token invariant.                               *)
LEMMA TokenStep ==
  ASSUME TypeOK, SlotInv, TokenInv, [Next]_vars
  PROVE  TokenInv'
<1> USE DEF jobVars, poolVars, procVars, Spent
<1>1. ASSUME NEW j \in Job, SpawnStep(j)
      PROVE  TokenInv'
  BY <1>1 DEF SpawnStep, InsertRow, InsertFails, EnqueueJob, RejectJob, Goto,
              TypeOK, TokenInv
<1>2. ASSUME NEW j \in Job, RunnerStep(j)
      PROVE  TokenInv'
  <2>1. CASE PromoteRow(j)
    <3>1. /\ pc[j] = "taken" /\ UNCHANGED <<registered, crashes>>
          /\ \E l \in {"start", "dropped"} : pc' = [pc EXCEPT ![j] = l]
      BY <2>1 DEF PromoteRow, Goto
    <3> QED BY <3>1 DEF TypeOK, TokenInv
  <2>2. CASE \/ PromoteFails(j) \/ StartRunner(j) \/ RunnerFails(j)
             \/ SettleRow(j)
    <3>1. /\ UNCHANGED <<registered, crashes>>
          /\ pc[j] \in {"taken", "start", "settle"}
          /\ \E l \in {"dropped", "run", "wrapup"} : pc' = [pc EXCEPT ![j] = l]
      BY <2>2 DEF PromoteFails, StartRunner, RunnerFails, SettleRow, Goto
    <3> QED BY <3>1 DEF TypeOK, TokenInv
  <2>3. CASE SettleLost(j) \/ WrapUp(j)
    <3>1. /\ UNCHANGED crashes /\ pc' = [pc EXCEPT ![j] = "exit"]
          /\ registered' = [registered EXCEPT ![j] = FALSE]
      BY <2>3 DEF SettleLost, WrapUp, Goto
    <3> QED BY <3>1 DEF TypeOK, TokenInv
  <2>4. CASE ExitRunner(j)
    <3>1. /\ UNCHANGED <<registered, crashes>> /\ pc[j] = "exit"
          /\ pc' = [pc EXCEPT ![j] = "done"]
      BY <2>4 DEF ExitRunner, Goto
    <3> QED BY <3>1 DEF TypeOK, TokenInv
  <2> QED BY <1>2, <2>1, <2>2, <2>3, <2>4 DEF RunnerStep
<1>3. ASSUME NEW j \in Job, ToolStep(j) \/ ToolCancelled(j) \/ PollCancelFlag(j)
      PROVE  TokenInv'
  <2>1. /\ UNCHANGED <<registered, crashes>>
        /\ pc[j] \in {"run", "parked", "dismissed"}
        /\ pc'[j] \in {"run", "parked", "dismissed", "settle"}
        /\ \A i \in Job \ {j} : pc'[i] = pc[i]
    BY <1>3 DEF ToolStep, ToolReturns, BudgetExpires, ParkApproval,
                ResumeApproval, DenyApproval, ToolCancelled, Dispatching,
                PollCancelFlag, EndDispatch, Goto, TypeOK
  <2> QED BY <2>1 DEF TokenInv
<1>4. ASSUME NEW j \in Job, CancelUnqueue(j) \/ CancelDismiss(j)
      PROVE  TokenInv'
  BY <1>4 DEF CancelUnqueue, CancelDismiss, Goto, TypeOK, TokenInv
<1>5. ASSUME NEW j \in Job, CancelAnnounce(j)
      PROVE  TokenInv'
  BY <1>5 DEF CancelAnnounce, Goto, TypeOK, TokenInv
<1>6. ASSUME NEW j \in Job,
             CancelFlag(j) \/ CancelTrip(j) \/ CancelMark(j) \/ CancelSettle(j)
      PROVE  UNCHANGED <<pc, registered, crashes>>
  BY <1>6 DEF CancelFlag, CancelTrip, CancelMark, CancelSettle
<1>7. ASSUME NEW j \in Job, NEW p \in Proc, Spawn(j, p) \/ Detach(j, p)
      PROVE  TokenInv'
  <2>1. /\ UNCHANGED crashes /\ pc[j] = "idle"
        /\ pc'[j] \in {"insert", "run"} /\ registered'[j]
        /\ \A i \in Job \ {j} : pc'[i] = pc[i] /\ registered'[i] = registered[i]
    BY <1>7 DEF Spawn, Detach, Goto, TypeOK
  <2> QED BY <2>1 DEF TokenInv
<1>8. ASSUME NEW j \in Job, NEW p \in Proc,
             BeginCancel(j, p) \/ InjectResult(p, j)
      PROVE  UNCHANGED <<pc, registered, crashes>>
  BY <1>8 DEF BeginCancel, InjectResult
<1>9. ASSUME NEW p \in Proc, TakeJob(p)
      PROVE  TokenInv'
  <2>1. /\ pc' = [pc EXCEPT ![NextJob(pool[p])] = "taken"]
        /\ UNCHANGED <<registered, crashes>> /\ pc[NextJob(pool[p])] = "queued"
    <3>1. pool[p] \in Pool /\ CanTake(pool[p]) /\ IsInjective(pool[p].queue)
      BY <1>9 DEF TakeJob, TypeOK, SlotInv, QueueExclusive
    <3>2. NextJob(pool[p]) \in ToSet(pool[p].queue) /\ NextJob(pool[p]) \in Job
      BY <3>1, TakeEffect
    <3> QED BY <1>9, <3>2 DEF TakeJob, Goto, SlotInv, QueueExclusive, InQueue
  <2> QED BY <2>1 DEF TypeOK, TokenInv
<1>10. ASSUME NEW p \in Proc,
              WakeScheduler(p) \/ SchedulerParks(p) \/ ReplayStep(p)
              \/ StartProcess(p)
       PROVE  UNCHANGED <<pc, registered, crashes>>
  BY <1>10 DEF WakeScheduler, SchedulerParks, ReplayStep, ReplayList,
               ReplayPending, ReplayEnds, ReplayInterrupt, ReplayDispatch,
               StartProcess
<1>11. ASSUME NEW p \in Proc, Crash(p)
       PROVE  TokenInv'
  <2>1. crashes' # 0
    BY <1>11, ProcAssumption DEF Crash, TypeOK
  <2> QED BY <1>11, <2>1 DEF Crash, TokenInv
<1>12. ASSUME NEW p \in Proc, NEW s \in Session, PurgeSession(s, p)
       PROVE  TokenInv'
  <2>1. /\ UNCHANGED <<registered, crashes>>
        /\ \A j \in Job : \/ pc'[j] = pc[j]
                          \/ InQueue(pool[p], j) /\ pc'[j] = "dropped"
    BY <1>12 DEF PurgeSession
  <2>2. \A j \in Job : InQueue(pool[p], j) => pc[j] = "queued"
    BY DEF SlotInv, QueueExclusive
  <2> QED BY <2>1, <2>2 DEF TokenInv
<1>13. CASE UNCHANGED vars
  BY <1>13 DEF vars, TokenInv
<1>14. CASE UNCHANGED <<pc, registered, crashes>>
  BY <1>14 DEF TokenInv
<1> HIDE DEF jobVars, poolVars, procVars, Spent
<1> QED BY <1>1, <1>2, <1>3, <1>4, <1>5, <1>6, <1>7, <1>8, <1>9, <1>10, <1>11,
           <1>12, <1>13, <1>14 DEF Next, CancelStep, SchedulerStep

(* It holds in every state.                                                *)
LEMMA TokenInvariant == Spec => []TokenInv
<1>1. Init => TokenInv
  BY DEF Init, TokenInv, Spent
<1> QED BY <1>1, TokenStep, Invariants, PTL DEF Spec

(* However a job ends - refused by the queue or the database, pulled out   *)
(* by a cancel, finished, beaten to its row - its thread leaves no token,  *)
(* no slot and no place in a queue behind (spawn.rs, the rollbacks;        *)
(* slots.rs, the drop).                                                    *)
THEOREM NothingIsLeftBehind == Spec => []NothingLeaks
<1>1. TypeOK /\ SlotInv /\ TokenInv => NothingLeaks
  <2> SUFFICES ASSUME TypeOK, SlotInv, TokenInv, NEW j \in Job, pc[j] = "done"
               PROVE  /\ slot[j] = "none" /\ ~registered[j]
                      /\ \A p \in Proc : ~InQueue(pool[p], j)
    BY DEF NothingLeaks
  <2>1. slot[j] = "none"
    BY DEF SlotInv, SeatFollowsPc, Seated
  <2>2. ~registered[j]
    BY DEF TokenInv, Spent
  <2>3. \A p \in Proc : ~InQueue(pool[p], j)
    BY DEF SlotInv, QueueExclusive
  <2> QED BY <2>1, <2>2, <2>3
<1> QED BY <1>1, Invariants, TokenInvariant, PTL

-----------------------------------------------------------------------------
(* Wake-ups.  A pool that counts no less and queues no more than another   *)
(* one has nothing to take that the other has not.                         *)
NoRoomier(a, b) ==
  /\ b.total <= a.total
  /\ \A s \in Session : b.perSession[s] <= a.perSession[s]
  /\ ToSet(a.queue) \subseteq ToSet(b.queue)

(* A pool with no more room and no more queue than b offers no job to take *)
(* unless b does.                                                          *)
LEMMA TakeNeedsRoom ==
  ASSUME NEW a \in Pool, NEW b \in Pool, NoRoomier(a, b), CanTake(a)
  PROVE  CanTake(b)
<1>1. /\ a.total \in Nat /\ b.total \in Nat
      /\ \A s \in Session : a.perSession[s] \in Nat /\ b.perSession[s] \in Nat
      /\ Cap \in Nat /\ SessionCap \in Nat
  BY PoolAssumption DEF Pool
<1>2. ~AtCap(b)
  BY <1>1 DEF CanTake, AtCap, NoRoomier
<1>3. PICK i \in DOMAIN a.queue : ~SessionAtCap(a, SessionOf[a.queue[i]])
  BY DEF CanTake, Eligible
<1>4. a.queue[i] \in Job /\ a.queue[i] \in ToSet(a.queue)
  BY QueuePositions
<1>5. a.queue[i] \in ToSet(b.queue)
  BY <1>4 DEF NoRoomier
<1>6. PICK k \in DOMAIN b.queue : b.queue[k] = a.queue[i]
  BY <1>5 DEF ToSet
<1>7. SessionOf[a.queue[i]] \in Session
  BY <1>4, PoolAssumption
<1>8. ~SessionAtCap(b, SessionOf[b.queue[k]])
  BY <1>1, <1>3, <1>6, <1>7 DEF SessionAtCap, NoRoomier
<1>9. k \in Eligible(b)
  BY <1>8 DEF Eligible
<1> QED BY <1>2, <1>9 DEF CanTake

(* Neither reserving, nor taking, nor filtering the queue makes room.      *)
LEMMA NoRoomMade ==
  ASSUME NEW a \in Pool
  PROVE  /\ NoRoomier(a, a)
         /\ \A s \in Session : NoRoomier(ReserveForced(a, s), a)
         /\ \A j \in Job : NoRoomier(RemoveQueued(a, j), a)
         /\ \A s \in Session : NoRoomier(RemoveQueuedForSession(a, s), a)
         /\ CanTake(a) /\ IsInjective(a.queue) => NoRoomier(Take(a), a)
         /\ ~CanTake(EmptyPool)
<1>1. a.total \in Nat /\ \A s \in Session : a.perSession[s] \in Nat
  BY DEF Pool
<1>2. NoRoomier(a, a)
  BY <1>1 DEF NoRoomier
<1>3. ASSUME NEW s \in Session
      PROVE  NoRoomier(ReserveForced(a, s), a)
  <2>1. /\ ReserveForced(a, s).total = a.total + 1
        /\ ReserveForced(a, s).perSession =
             [t \in Session |-> a.perSession[t] + (IF t = s THEN 1 ELSE 0)]
        /\ ReserveForced(a, s).queue = a.queue
    BY ReserveEffect
  <2> QED BY <2>1, <1>1 DEF NoRoomier
<1>4. ASSUME NEW j \in Job
      PROVE  NoRoomier(RemoveQueued(a, j), a)
  <2>1. /\ RemoveQueued(a, j).total = a.total
        /\ RemoveQueued(a, j).perSession = a.perSession
        /\ ToSet(RemoveQueued(a, j).queue) = ToSet(a.queue) \ {j}
    BY RemoveQueuedEffect
  <2> QED BY <2>1, <1>1 DEF NoRoomier
<1>5. ASSUME NEW s \in Session
      PROVE  NoRoomier(RemoveQueuedForSession(a, s), a)
  BY <1>1, RemoveSessionEffect DEF NoRoomier
<1>6. ASSUME CanTake(a), IsInjective(a.queue)
      PROVE  NoRoomier(Take(a), a)
  <2> DEFINE j == NextJob(a)
  <2>1. /\ Take(a).total = a.total + 1
        /\ Take(a).perSession =
             [t \in Session |->
                a.perSession[t] + (IF t = SessionOf[j] THEN 1 ELSE 0)]
        /\ ToSet(Take(a).queue) = ToSet(a.queue) \ {j}
    BY <1>6, TakeEffect
  <2> HIDE DEF j
  <2> QED BY <2>1, <1>1 DEF NoRoomier
<1>7. ~CanTake(EmptyPool)
  BY DEF EmptyPool, CanTake, Eligible
<1> QED BY <1>2, <1>3, <1>4, <1>5, <1>6, <1>7

(* A thread that has begun and was not killed is one of a live process.    *)
HomeUp == \A j \in Job : pc[j] \notin {"idle", "gone"} => home[j] \in up

(* Every step preserves that: a crash marks the threads it kills as gone.  *)
LEMMA HomeUpStep ==
  ASSUME TypeOK, SlotInv, CallerKnown, HomeUp, [Next]_vars
  PROVE  HomeUp'
<1> USE DEF jobVars, poolVars, procVars
<1>1. ASSUME NEW j \in Job, SpawnStep(j) \/ RunnerStep(j)
      PROVE  HomeUp'
  <2>1. /\ UNCHANGED <<home, up>> /\ pc[j] \notin {"idle", "gone"}
        /\ \A i \in Job \ {j} : pc'[i] = pc[i]
    BY <1>1
       DEF SpawnStep, InsertRow, InsertFails, EnqueueJob, RejectJob, RunnerStep,
           PromoteRow, PromoteFails, StartRunner, RunnerFails, SettleRow,
           SettleLost, WrapUp, ExitRunner, Goto, TypeOK
  <2> QED BY <2>1 DEF HomeUp
<1>2. ASSUME NEW j \in Job, ToolStep(j) \/ ToolCancelled(j) \/ PollCancelFlag(j)
      PROVE  HomeUp'
  <2>1. /\ UNCHANGED <<home, up>> /\ pc[j] \notin {"idle", "gone"}
        /\ \A i \in Job \ {j} : pc'[i] = pc[i]
    BY <1>2 DEF ToolStep, ToolReturns, BudgetExpires, ParkApproval,
                ResumeApproval, DenyApproval, ToolCancelled, Dispatching,
                PollCancelFlag, EndDispatch, Goto, TypeOK
  <2> QED BY <2>1 DEF HomeUp
<1>3. ASSUME NEW j \in Job, CancelStep(j)
      PROVE  HomeUp'
  <2>1. UNCHANGED <<home, up>>
    BY <1>3 DEF CancelStep, CancelUnqueue, CancelFlag, CancelTrip,
                CancelDismiss, CancelMark, CancelSettle, CancelAnnounce
  <2>2. \A i \in Job : pc'[i] = pc[i] \/ pc[i] \in {"queued", "parked", "unqueued"}
    <3>1. CASE CancelUnqueue(j)
      <4>1. CASE InQueue(pool[canc[j].proc], j)
        <5>1. canc[j].proc \in Proc
          BY <3>1, <1>3 DEF CancelUnqueue, CancelOf, CallerKnown
        <5>2. pc[j] = "queued"
          BY <4>1, <5>1, <1>3 DEF SlotInv, QueueExclusive
        <5> QED BY <3>1, <4>1, <5>2 DEF CancelUnqueue, Goto, TypeOK
      <4> QED BY <3>1, <4>1 DEF CancelUnqueue
    <3> QED BY <1>3, <3>1
        DEF CancelStep, CancelFlag, CancelTrip, CancelDismiss, CancelMark,
            CancelSettle, CancelAnnounce, Goto, TypeOK
  <2> QED BY <2>1, <2>2 DEF HomeUp
<1>4. ASSUME NEW j \in Job, NEW p \in Proc, Spawn(j, p) \/ Detach(j, p)
      PROVE  HomeUp'
  <2>1. /\ UNCHANGED up /\ p \in up /\ home'[j] = p
        /\ \A i \in Job \ {j} : pc'[i] = pc[i] /\ home'[i] = home[i]
    BY <1>4 DEF Spawn, Detach, Goto, TypeOK
  <2> QED BY <2>1 DEF HomeUp
<1>5. ASSUME NEW j \in Job, NEW p \in Proc,
             BeginCancel(j, p) \/ InjectResult(p, j)
      PROVE  HomeUp'
  BY <1>5 DEF BeginCancel, InjectResult, HomeUp
<1>6. ASSUME NEW p \in Proc, TakeJob(p)
      PROVE  HomeUp'
  <2> DEFINE j == NextJob(pool[p])
  <2>1. pc[j] = "queued" /\ j \in Job
    <3>1. pool[p] \in Pool /\ CanTake(pool[p]) /\ IsInjective(pool[p].queue)
      BY <1>6 DEF TakeJob, TypeOK, SlotInv, QueueExclusive
    <3>2. j \in ToSet(pool[p].queue) /\ j \in Job
      BY <3>1, TakeEffect
    <3> QED BY <1>6, <3>2 DEF SlotInv, QueueExclusive, InQueue
  <2>2. UNCHANGED <<home, up>> /\ pc' = [pc EXCEPT ![j] = "taken"]
    BY <1>6 DEF TakeJob, Goto
  <2> HIDE DEF j
  <2> QED BY <2>1, <2>2 DEF HomeUp, TypeOK
<1>7. ASSUME NEW p \in Proc,
             \/ WakeScheduler(p) \/ SchedulerParks(p)
             \/ ReplayStep(p) \/ StartProcess(p)
      PROVE  HomeUp'
  <2>1. UNCHANGED <<home, pc>> /\ up \subseteq up'
    BY <1>7 DEF WakeScheduler, SchedulerParks, ReplayStep, ReplayList,
                ReplayPending, ReplayEnds, ReplayInterrupt, ReplayDispatch,
                StartProcess
  <2> QED BY <2>1 DEF HomeUp
<1>8. ASSUME NEW p \in Proc, Crash(p)
      PROVE  HomeUp'
  BY <1>8 DEF Crash, HomeUp
<1>9. ASSUME NEW p \in Proc, NEW s \in Session, PurgeSession(s, p)
      PROVE  HomeUp'
  <2>1. /\ UNCHANGED <<home, up>>
        /\ \A j \in Job : pc'[j] = pc[j] \/ InQueue(pool[p], j)
    BY <1>9 DEF PurgeSession
  <2>2. \A j \in Job : InQueue(pool[p], j) => pc[j] = "queued"
    BY <1>9 DEF SlotInv, QueueExclusive
  <2> QED BY <2>1, <2>2 DEF HomeUp
<1>10. CASE UNCHANGED vars
  BY <1>10 DEF vars, HomeUp
<1> QED BY <1>1, <1>2, <1>3, <1>4, <1>5, <1>6, <1>7, <1>8, <1>9, <1>10
        DEF Next, SchedulerStep

(* What a step leaves to be woken for: nothing new, or a permit.           *)
Heeded(p) ==
  \/ wake'[p]
  \/ ~CanTake(pool'[p])
  \/ /\ NoRoomier(pool'[p], pool[p]) /\ p \in up
     /\ wake[p] => wake'[p] \/ sched'[p] = "draining"
     /\ sched[p] = "draining" => sched'[p] = "draining"

(* Every step heeds a process that is up after it: whatever gives a slot   *)
(* back or puts a job into the queue leaves a permit.                      *)
LEMMA WakeStep ==
  ASSUME TypeOK, SlotInv, CallerKnown, HomeUp, [Next]_vars,
         NEW p \in Proc, p \in up'
  PROVE  Heeded(p)
<1> USE DEF jobVars, poolVars, procVars
<1>0. /\ pool[p] \in Pool /\ pool \in [Proc -> Pool] /\ wake \in [Proc -> BOOLEAN]
      /\ sched \in [Proc -> {"parked", "draining"}]
      /\ NoRoomier(pool[p], pool[p]) /\ ~CanTake(EmptyPool)
      /\ \A j \in Job : SessionOf[j] \in Session
      /\ \A j \in Job : pc[j] \notin {"idle", "gone"} => home[j] \in Proc
  <2>1. pool[p] \in Pool
    BY DEF TypeOK
  <2> QED BY <2>1, NoRoomMade, PoolAssumption
          DEF TypeOK, SlotInv, SeatFollowsPc
<1>1. ASSUME UNCHANGED <<pool, wake, sched>>, p \in up
      PROVE  Heeded(p)
  BY <1>0, <1>1 DEF Heeded
<1>2. ASSUME NEW q \in Proc, NEW b \in Pool, UNCHANGED <<wake, sched>>,
             pool' = [pool EXCEPT ![q] = b], NoRoomier(b, pool[q]), p \in up
      PROVE  Heeded(p)
  BY <1>0, <1>2 DEF Heeded
<1>3. ASSUME NEW q \in Proc, NEW b, UNCHANGED sched, UNCHANGED up,
             pool' = [pool EXCEPT ![q] = b], wake' = [wake EXCEPT ![q] = TRUE]
      PROVE  Heeded(p)
  BY <1>0, <1>3 DEF Heeded
<1>4. ASSUME NEW j \in Job, DropSlot(j), UNCHANGED <<sched, up>>, home[j] \in Proc
      PROVE  Heeded(p)
  BY <1>3, <1>4 DEF DropSlot
<1>5. ASSUME NEW j \in Job, SpawnStep(j)
      PROVE  Heeded(p)
  <2>1. home[j] \in Proc
    BY <1>0, <1>5 DEF SpawnStep, InsertRow, InsertFails, EnqueueJob, RejectJob
  <2>2. CASE InsertRow(j) \/ RejectJob(j)
    BY <1>1, <2>2 DEF InsertRow, RejectJob
  <2>3. CASE InsertFails(j)
    <3>1. CASE slot[j] = "none"
      BY <1>1, <2>3, <3>1 DEF InsertFails
    <3>2. CASE slot[j] # "none"
      BY <1>4, <2>1, <2>3, <3>2 DEF InsertFails
    <3> QED BY <3>1, <3>2
  <2>4. CASE EnqueueJob(j)
    BY <1>3, <2>1, <2>4 DEF EnqueueJob
  <2> QED BY <1>5, <2>2, <2>3, <2>4 DEF SpawnStep
<1>6. ASSUME NEW j \in Job, RunnerStep(j)
      PROVE  Heeded(p)
  <2>1. home[j] \in Proc
    BY <1>0, <1>6
       DEF RunnerStep, PromoteRow, PromoteFails, StartRunner, RunnerFails,
           SettleRow, SettleLost, WrapUp, ExitRunner
  <2>2. CASE PromoteRow(j)
    <3>1. CASE CanMarkRunning(rows[j])
      BY <1>1, <2>2, <3>1 DEF PromoteRow
    <3>2. CASE ~CanMarkRunning(rows[j])
      <4>1. DropSlot(j) /\ UNCHANGED <<sched, up>>
        BY <2>2, <3>2 DEF PromoteRow
      <4> QED BY <1>4, <2>1, <4>1
    <3> QED BY <3>1, <3>2
  <2>3. CASE PromoteFails(j) \/ ExitRunner(j)
    <3>1. DropSlot(j) /\ UNCHANGED <<sched, up>>
      BY <2>3 DEF PromoteFails, ExitRunner
    <3> QED BY <1>4, <2>1, <3>1
  <2>4. CASE \/ StartRunner(j) \/ RunnerFails(j) \/ SettleRow(j)
             \/ SettleLost(j) \/ WrapUp(j)
    BY <1>1, <2>4 DEF StartRunner, RunnerFails, SettleRow, SettleLost, WrapUp
  <2> QED BY <1>6, <2>2, <2>3, <2>4 DEF RunnerStep
<1>7. ASSUME NEW j \in Job, ToolStep(j) \/ ToolCancelled(j) \/ PollCancelFlag(j)
      PROVE  Heeded(p)
  BY <1>1, <1>7 DEF ToolStep, ToolReturns, BudgetExpires, ParkApproval,
                    ResumeApproval, DenyApproval, ToolCancelled,
                    PollCancelFlag, EndDispatch
<1>8. ASSUME NEW j \in Job, CancelStep(j)
      PROVE  Heeded(p)
  <2>1. CASE CancelUnqueue(j)
    <3> DEFINE q == canc[j].proc
    <3>1. CASE InQueue(pool[q], j)
      <4>1. q \in Proc /\ pool[q] \in Pool
        BY <2>1 DEF CancelUnqueue, CancelOf, CallerKnown, TypeOK
      <4>2. /\ RemoveQueued(pool[q], j) \in Pool
            /\ NoRoomier(RemoveQueued(pool[q], j), pool[q])
        BY <4>1, RemoveQueuedEffect, NoRoomMade
      <4>3. /\ pool' = [pool EXCEPT ![q] = RemoveQueued(pool[q], j)]
            /\ UNCHANGED <<wake, sched, up>>
        BY <2>1, <3>1 DEF CancelUnqueue
      <4> HIDE DEF q
      <4> QED BY <4>1, <4>2, <4>3, <1>2
    <3>2. CASE ~InQueue(pool[q], j)
      BY <1>1, <2>1, <3>2 DEF CancelUnqueue
    <3> QED BY <3>1, <3>2
  <2>2. CASE \/ CancelFlag(j) \/ CancelTrip(j) \/ CancelDismiss(j)
             \/ CancelMark(j) \/ CancelSettle(j) \/ CancelAnnounce(j)
    BY <1>1, <2>2 DEF CancelFlag, CancelTrip, CancelDismiss, CancelMark,
                      CancelSettle, CancelAnnounce
  <2> QED BY <1>8, <2>1, <2>2 DEF CancelStep
<1>9. ASSUME NEW j \in Job, NEW q \in Proc, Spawn(j, q) \/ Detach(j, q)
      PROVE  Heeded(p)
  <2> DEFINE b == ReserveForced(pool[q], SessionOf[j])
  <2>1. b \in Pool /\ NoRoomier(b, pool[q])
    <3>1. pool[q] \in Pool /\ SessionOf[j] \in Session
      BY <1>0
    <3> QED BY <3>1, ReserveEffect, NoRoomMade
  <2>2. /\ pool' = pool \/ pool' = [pool EXCEPT ![q] = b]
        /\ UNCHANGED <<wake, sched, up>>
    BY <1>9 DEF Spawn, Detach
  <2> HIDE DEF b
  <2> QED BY <2>1, <2>2, <1>1, <1>2
<1>10. ASSUME NEW q \in Proc, TakeJob(q)
       PROVE  Heeded(p)
  <2>1. pool[q] \in Pool /\ CanTake(pool[q]) /\ IsInjective(pool[q].queue)
    BY <1>10 DEF TakeJob, TypeOK, SlotInv, QueueExclusive
  <2>2. Take(pool[q]) \in Pool /\ NoRoomier(Take(pool[q]), pool[q])
    BY <2>1, TakeEffect, NoRoomMade
  <2>3. /\ pool' = [pool EXCEPT ![q] = Take(pool[q])]
        /\ UNCHANGED <<wake, sched, up>>
    BY <1>10 DEF TakeJob
  <2> QED BY <2>2, <2>3, <1>2
<1>11. ASSUME NEW q \in Proc, WakeScheduler(q)
       PROVE  Heeded(p)
  BY <1>0, <1>11 DEF WakeScheduler, Heeded
<1>12. ASSUME NEW q \in Proc, SchedulerParks(q)
       PROVE  Heeded(p)
  BY <1>0, <1>12 DEF SchedulerParks, Heeded
<1>13. ASSUME NEW q \in Proc, StartProcess(q)
       PROVE  Heeded(p)
  <2>1. CASE p \in up
    BY <1>1, <1>13, <2>1 DEF StartProcess
  <2>2. CASE p \notin up
    <3>1. \A j \in Job : ~InQueue(pool[p], j)
      BY <2>2 DEF SlotInv, QueueExclusive, HomeUp
    <3>2. DOMAIN pool[p].queue = {}
      <4>1. \A i \in DOMAIN pool[p].queue :
              pool[p].queue[i] \in Job /\ InQueue(pool[p], pool[p].queue[i])
        BY <1>0, QueuePositions DEF InQueue
      <4> QED BY <3>1, <4>1
    <3>3. ~CanTake(pool[p])
      BY <3>2 DEF CanTake, Eligible
    <3> QED BY <1>13, <3>3 DEF StartProcess, Heeded
  <2> QED BY <2>1, <2>2
<1>14. ASSUME NEW q \in Proc, Crash(q)
       PROVE  Heeded(p)
  <2>1. p # q /\ p \in up
    BY <1>14 DEF Crash
  <2> QED BY <1>0, <1>14, <2>1 DEF Crash, Heeded
<1>15. ASSUME NEW q \in Proc, NEW s \in Session, PurgeSession(s, q)
       PROVE  Heeded(p)
  <2>1. pool[q] \in Pool
    BY <1>0
  <2>2. /\ RemoveQueuedForSession(pool[q], s) \in Pool
        /\ NoRoomier(RemoveQueuedForSession(pool[q], s), pool[q])
    BY <2>1, RemoveSessionEffect, NoRoomMade
  <2>3. /\ pool' = [pool EXCEPT ![q] = RemoveQueuedForSession(pool[q], s)]
        /\ UNCHANGED <<wake, sched, up>>
    BY <1>15 DEF PurgeSession
  <2> QED BY <2>2, <2>3, <1>2
<1>16. ASSUME NEW j \in Job, NEW q \in Proc,
              BeginCancel(j, q) \/ InjectResult(q, j)
       PROVE  Heeded(p)
  BY <1>1, <1>16 DEF BeginCancel, InjectResult
<1>17. ASSUME NEW q \in Proc, ReplayStep(q)
       PROVE  Heeded(p)
  BY <1>1, <1>17 DEF ReplayStep, ReplayList, ReplayPending, ReplayEnds,
                     ReplayInterrupt, ReplayDispatch
<1>18. CASE UNCHANGED vars
  BY <1>1, <1>18 DEF vars
<1> QED BY <1>5, <1>6, <1>7, <1>8, <1>9, <1>10, <1>11, <1>12, <1>13, <1>14,
           <1>15, <1>16, <1>17, <1>18 DEF Next, SchedulerStep

(* Hence a step never leaves a job to take without a permit or a drain.    *)
LEMMA WakeKept ==
  ASSUME TypeOK, SlotInv, CallerKnown, HomeUp, NoLostWakeup, TypeOK',
         [Next]_vars
  PROVE  NoLostWakeup'
<1> SUFFICES ASSUME NEW p \in Proc, p \in up', CanTake(pool'[p])
             PROVE  wake'[p] \/ sched'[p] = "draining"
  BY DEF NoLostWakeup, TypeOK
<1>1. pool[p] \in Pool /\ pool'[p] \in Pool
  BY DEF TypeOK
<1>2. Heeded(p)
  BY WakeStep
<1>3. NoRoomier(pool'[p], pool[p]) => CanTake(pool[p])
  BY <1>1, TakeNeedsRoom
<1> QED BY <1>2, <1>3 DEF Heeded, NoLostWakeup

(* No wake-up is lost, for any caps, queue length, jobs and processes: a   *)
(* queued job that could be promoted has its scheduler draining or a       *)
(* permit waiting for it, however reservations drop, jobs are enqueued and *)
(* taken out between the drains (slots.rs, run_scheduler and the drop of   *)
(* SlotReservation).                                                       *)
THEOREM NoWakeupIsLost == Spec => []NoLostWakeup
<1>1. Init => HomeUp /\ NoLostWakeup
  <2>1. Init => \A p \in Proc : ~CanTake(pool[p])
    BY DEF Init, EmptyPool, CanTake, Eligible
  <2> QED BY <2>1 DEF Init, HomeUp, NoLostWakeup
<1> QED BY <1>1, HomeUpStep, WakeKept, Invariants, PTL DEF Spec

-----------------------------------------------------------------------------
(* Who settles a row, and who hands its result over.  Only the Primary     *)
(* replays, and a process that is alone is the Primary or down.            *)
ReplayerIsPrimary == \A p \in Proc : replay[p].pc # "off" => primary = p

SoleProc == Proc = {Lead} => up = {} \/ primary = Lead

(* The two deployments in which no job is lost with its process: nobody    *)
(* else holds the runtime lock when a process dies, or none dies.          *)
NoOrphans == Proc = {Lead} \/ MaxCrashes = 0

(* StartProcess and Crash alone move the lock and the set of live          *)
(* processes, and only the Primary starts a replay.                        *)
LEMMA PrimaryStep ==
  ASSUME TypeOK, ReplayerIsPrimary, SoleProc, [Next]_vars
  PROVE  ReplayerIsPrimary' /\ SoleProc'
<1> USE DEF jobVars, poolVars, procVars
<1>1. CASE UNCHANGED <<up, primary, replay>>
  BY <1>1 DEF ReplayerIsPrimary, SoleProc
<1>2. ASSUME NEW j \in Job,
             \/ SpawnStep(j) \/ RunnerStep(j) \/ ToolStep(j) \/ CancelStep(j)
             \/ ToolCancelled(j) \/ PollCancelFlag(j)
      PROVE  UNCHANGED <<up, primary, replay>>
  BY <1>2
     DEF SpawnStep, InsertRow, InsertFails, EnqueueJob, RejectJob, ToolStep,
         ToolReturns, BudgetExpires, ParkApproval, ResumeApproval, DenyApproval,
         EndDispatch, CancelStep, CancelUnqueue, CancelFlag, CancelTrip,
         CancelDismiss, CancelMark, CancelSettle, CancelAnnounce, RunnerStep,
         PromoteRow, PromoteFails, StartRunner, RunnerFails, SettleRow,
         SettleLost, WrapUp, ExitRunner, ToolCancelled, PollCancelFlag
<1>3. ASSUME NEW p \in Proc,
             \/ SchedulerStep(p) \/ \E s \in Session : PurgeSession(s, p)
             \/ \E j \in Job : \/ Spawn(j, p) \/ Detach(j, p)
                               \/ BeginCancel(j, p) \/ InjectResult(p, j)
      PROVE  UNCHANGED <<up, primary, replay>>
  BY <1>3 DEF Spawn, Detach, BeginCancel, InjectResult, SchedulerStep,
              WakeScheduler, TakeJob, SchedulerParks, PurgeSession
<1>4. ASSUME NEW p \in Proc, ReplayStep(p)
      PROVE  ReplayerIsPrimary' /\ SoleProc'
  <2>1. /\ UNCHANGED <<up, primary>> /\ replay[p].pc # "off"
        /\ \A q \in Proc \ {p} : replay'[q] = replay[q]
    BY <1>4 DEF ReplayStep, ReplayList, ReplayPending, ReplayEnds,
                ReplayInterrupt, ReplayDispatch, ReplayGoto, TypeOK
  <2> QED BY <2>1 DEF ReplayerIsPrimary, SoleProc
<1>5. ASSUME NEW p \in Proc, StartProcess(p)
      PROVE  ReplayerIsPrimary' /\ SoleProc'
  <2>1. CASE primary = NoProc
    BY <1>5, <2>1, ProcAssumption
       DEF StartProcess, ReplayerIsPrimary, SoleProc, TypeOK
  <2>2. CASE primary # NoProc
    BY <1>5, <2>2 DEF StartProcess, ReplayerIsPrimary, SoleProc, TypeOK
  <2> QED BY <2>1, <2>2
<1>6. ASSUME NEW p \in Proc, Crash(p)
      PROVE  ReplayerIsPrimary' /\ SoleProc'
  <2>1. ReplayerIsPrimary'
    BY <1>6 DEF Crash, ReplayerIsPrimary, NoReplay, TypeOK
  <2>2. SoleProc'
    BY <1>6 DEF Crash, SoleProc, TypeOK
  <2> QED BY <2>1, <2>2
<1>7. CASE UNCHANGED vars
  BY <1>1, <1>7 DEF vars
<1> HIDE DEF jobVars, poolVars, procVars
<1> QED BY <1>1, <1>2, <1>3, <1>4, <1>5, <1>6, <1>7 DEF Next

(* In either deployment a crash leaves the lock free: the next process to  *)
(* start is the Primary and replays.                                       *)
LEMMA CrashFreesTheLock ==
  ASSUME TypeOK, NoOrphans, SoleProc, NEW p \in Proc, Crash(p)
  PROVE  primary' = NoProc
<1>1. CASE Proc = {Lead}
  BY <1>1 DEF Crash, SoleProc
<1>2. CASE MaxCrashes = 0
  <2>1. crashes \in 0..0 /\ crashes < 0
    BY <1>2 DEF Crash, TypeOK
  <2> QED BY <2>1
<1> QED BY <1>1, <1>2 DEF NoOrphans

(* A job that never had a runner has not left "queued" but to settle.      *)
Early == {"enqueue", "queued", "taken", "unqueued"}

Unstarted ==
  \A j \in Job : pc[j] \in Early => rows[j].status \notin Active \ {"queued"}

(* Every step preserves that: mark_cancelling spares queued rows.          *)
LEMMA UnstartedStep ==
  ASSUME Typed, SlotInv, CallerKnown, Unstarted, [Next]_vars
  PROVE  Unstarted'
<1> USE DEF jobVars, poolVars, procVars
<1>0. /\ rows \in [Job -> Row] /\ pc \in [Job -> PC]
      /\ \A j \in Job : rows[j] \in Row
      /\ \A p \in Proc : \A j \in Job : InQueue(pool[p], j) => pc[j] = "queued"
  BY DEF Typed, TypeOK, SlotInv, QueueExclusive
<1>1. ASSUME NEW j \in Job, NEW row,
             \/ row.status \in {rows[j].status, "absent"} \cup Terminal
             \/ rows[j].status \in Active \ {"queued"} \/ pc'[j] \notin Early,
             rows' = rows \/ Update(j, row),
             \A i \in Job : pc'[i] \in Early => pc[i] \in Early
      PROVE  Unstarted'
  BY <1>0, <1>1 DEF Unstarted, Update, Active, Terminal
<1>2. ASSUME NEW j \in Job, SpawnStep(j)
      PROVE  Unstarted'
  <2>1. CASE InsertRow(j)
    BY <1>0, <2>1 DEF InsertRow, Update, Goto, NewRow, NoRow, Unstarted, Early
  <2>2. CASE RejectJob(j)
    BY <1>0, <2>2 DEF RejectJob, Update, Goto, NoRow, Unstarted, Early, Active
  <2>3. CASE InsertFails(j) \/ EnqueueJob(j)
    BY <1>0, <2>3 DEF InsertFails, EnqueueJob, Goto, Unstarted, Early
  <2> QED BY <1>2, <2>1, <2>2, <2>3 DEF SpawnStep
<1>3. ASSUME NEW j \in Job, RunnerStep(j)
      PROVE  Unstarted'
  <2>1. /\ pc'[j] \notin Early
        /\ \A i \in Job \ {j} : pc'[i] = pc[i]
        /\ \A i \in Job \ {j} : rows'[i] = rows[i]
    <3>1. CASE PromoteRow(j)
      <4>1. \E l \in {"start", "dropped"} : pc' = [pc EXCEPT ![j] = l]
        BY <3>1 DEF PromoteRow, Goto
      <4> QED BY <1>0, <3>1, <4>1 DEF PromoteRow, Update, Early
    <3> QED BY <1>0, <1>3, <3>1
        DEF RunnerStep, PromoteFails, StartRunner, RunnerFails, SettleRow,
            SettleLost, WrapUp, ExitRunner, Goto, Update, Early
  <2> QED BY <2>1 DEF Unstarted
<1>4. ASSUME NEW j \in Job, ToolStep(j) \/ ToolCancelled(j) \/ PollCancelFlag(j)
      PROVE  Unstarted'
  <2>1. /\ pc'[j] \notin Early
        /\ \A i \in Job \ {j} : pc'[i] = pc[i]
        /\ \A i \in Job \ {j} : rows'[i] = rows[i]
    BY <1>0, <1>4
       DEF ToolStep, ToolReturns, BudgetExpires, ParkApproval, ResumeApproval,
           DenyApproval, ToolCancelled, Dispatching, PollCancelFlag,
           EndDispatch, Goto, Update, Early
  <2> QED BY <2>1 DEF Unstarted
<1>5. ASSUME NEW j \in Job, CancelStep(j)
      PROVE  Unstarted'
  <2>1. \A i \in Job : pc'[i] \in Early => pc[i] \in Early
    <3>1. CASE CancelUnqueue(j)
      <4>1. CASE InQueue(pool[canc[j].proc], j)
        <5>1. canc[j].proc \in Proc
          BY <3>1 DEF CancelUnqueue, CancelOf, CallerKnown
        <5>2. pc[j] = "queued"
          BY <1>0, <4>1, <5>1
        <5> QED BY <1>0, <3>1, <4>1, <5>2 DEF CancelUnqueue, Goto, Early
      <4> QED BY <3>1, <4>1 DEF CancelUnqueue
    <3> QED BY <1>0, <1>5, <3>1
        DEF CancelStep, CancelFlag, CancelTrip, CancelDismiss, CancelMark,
            CancelSettle, CancelAnnounce, Goto, Early
  <2>2. CASE CancelFlag(j)
    <3>1. RequestCancel(rows[j]).status = rows[j].status
      BY <1>0 DEF RequestCancel, Row
    <3> QED BY <2>1, <2>2, <3>1, <1>1 DEF CancelFlag
  <2>3. CASE CancelMark(j)
    <3>1. \/ MarkCancelling(rows[j]).status = rows[j].status
          \/ rows[j].status \in Active \ {"queued"}
      BY DEF MarkCancelling, CanMarkCancelling
    <3> QED BY <2>1, <2>3, <3>1, <1>1 DEF CancelMark
  <2>4. CASE CancelSettle(j)
    <3>1. Settle(rows[j], "cancelled").status \in {rows[j].status} \cup Terminal
      BY <1>0 DEF Settle, Row, Terminal
    <3> QED BY <2>1, <2>4, <3>1, <1>1 DEF CancelSettle
  <2>5. CASE CancelAnnounce(j)
    <3>1. MarkInjected(rows[j]).status = rows[j].status
      BY <1>0 DEF MarkInjected, Row
    <3> QED BY <2>1, <2>5, <3>1, <1>1 DEF CancelAnnounce
  <2>6. CASE CancelUnqueue(j) \/ CancelTrip(j) \/ CancelDismiss(j)
    <3>1. rows' = rows
      BY <2>6 DEF CancelUnqueue, CancelTrip, CancelDismiss
    <3> QED BY <2>1, <3>1 DEF Unstarted
  <2> QED BY <1>5, <2>2, <2>3, <2>4, <2>5, <2>6 DEF CancelStep
<1>6. ASSUME NEW j \in Job, NEW p \in Proc,
             Spawn(j, p) \/ Detach(j, p) \/ BeginCancel(j, p)
      PROVE  Unstarted'
  <2>1. CASE Detach(j, p)
    BY <1>0, <2>1 DEF Detach, Update, Goto, Unstarted, Early
  <2> QED BY <1>0, <1>6, <2>1 DEF Spawn, BeginCancel, Goto, Unstarted, Early
<1>7. ASSUME NEW j \in Job, NEW p \in Proc, InjectResult(p, j)
      PROVE  Unstarted'
  <2>1. MarkInjected(rows[j]).status = rows[j].status
    BY <1>0 DEF MarkInjected, Row
  <2> QED BY <1>7, <2>1, <1>1 DEF InjectResult
<1>8. ASSUME NEW p \in Proc, ReplayStep(p)
      PROVE  Unstarted'
  <2>1. ASSUME NEW j \in Job, ReplayInterrupt(p, j)
        PROVE  Unstarted'
    <3>1. Settle(rows[j], "interrupted").status \in {rows[j].status} \cup Terminal
      BY <1>0 DEF Settle, Row, Terminal
    <3> QED BY <2>1, <3>1, <1>1 DEF ReplayInterrupt
  <2>2. ASSUME NEW j \in Job, ReplayDispatch(p, j)
        PROVE  Unstarted'
    <3>1. MarkInjected(rows[j]).status = rows[j].status
      BY <1>0 DEF MarkInjected, Row
    <3> QED BY <2>2, <3>1, <1>1 DEF ReplayDispatch
  <2>3. CASE ReplayList(p) \/ ReplayPending(p) \/ ReplayEnds(p)
    BY <2>3 DEF ReplayList, ReplayPending, ReplayEnds, Unstarted
  <2> QED BY <1>8, <2>1, <2>2, <2>3 DEF ReplayStep
<1>9. ASSUME NEW p \in Proc, TakeJob(p)
      PROVE  Unstarted'
  <2>1. pool[p] \in Pool /\ CanTake(pool[p]) /\ IsInjective(pool[p].queue)
    BY <1>9 DEF TakeJob, Typed, TypeOK, SlotInv, QueueExclusive
  <2>2. NextJob(pool[p]) \in ToSet(pool[p].queue) /\ NextJob(pool[p]) \in Job
    BY <2>1, TakeEffect
  <2>3. pc[NextJob(pool[p])] = "queued"
    BY <1>0, <2>2 DEF InQueue
  <2>4. pc' = [pc EXCEPT ![NextJob(pool[p])] = "taken"] /\ rows' = rows
    BY <1>9 DEF TakeJob, Goto
  <2> QED BY <1>0, <2>2, <2>3, <2>4 DEF Unstarted, Early
<1>10. ASSUME NEW p \in Proc,
              WakeScheduler(p) \/ SchedulerParks(p) \/ StartProcess(p)
       PROVE  Unstarted'
  BY <1>10 DEF WakeScheduler, SchedulerParks, StartProcess, Unstarted
<1>11. ASSUME NEW p \in Proc, Crash(p)
       PROVE  Unstarted'
  BY <1>11 DEF Crash, Unstarted, Early
<1>12. ASSUME NEW p \in Proc, NEW s \in Session, PurgeSession(s, p)
       PROVE  Unstarted'
  <2>1. \A j \in Job : /\ rows'[j] \in {rows[j], NoRow}
                       /\ pc'[j] \in {pc[j], "dropped"}
    BY <1>12 DEF PurgeSession
  <2>2. NoRow.status \notin Active /\ "dropped" \notin Early
    BY DEF NoRow, Active, Early
  <2> QED BY <2>1, <2>2 DEF Unstarted
<1>13. CASE UNCHANGED vars
  BY <1>13 DEF vars, Unstarted
<1> HIDE DEF jobVars, poolVars, procVars
<1> QED BY <1>2, <1>3, <1>4, <1>5, <1>6, <1>7, <1>8, <1>9, <1>10, <1>11,
           <1>12, <1>13 DEF Next, SchedulerStep

(* A row the replay is to interrupt stays so while it is active: a Primary *)
(* that starts lists it, and one that listed it drops it only once settled.*)
LEMMA InterruptStays ==
  ASSUME Typed, [Next]_vars, NEW i \in Job, ToBeInterrupted(i),
         rows[i].status \in Active, rows'[i].status \in Active
  PROVE  ToBeInterrupted(i)'
<1> USE DEF jobVars, poolVars, procVars
<1>0. NoProc \notin Proc /\ primary \in Proc \cup {NoProc}
  BY ProcAssumption DEF Typed, TypeOK
<1>1. CASE UNCHANGED <<primary, replay>>
  BY <1>1 DEF ToBeInterrupted
<1>2. ASSUME NEW j \in Job,
             \/ SpawnStep(j) \/ RunnerStep(j) \/ ToolStep(j) \/ CancelStep(j)
             \/ ToolCancelled(j) \/ PollCancelFlag(j)
      PROVE  UNCHANGED <<primary, replay>>
  BY <1>2
     DEF SpawnStep, InsertRow, InsertFails, EnqueueJob, RejectJob, ToolStep,
         ToolReturns, BudgetExpires, ParkApproval, ResumeApproval, DenyApproval,
         EndDispatch, CancelStep, CancelUnqueue, CancelFlag, CancelTrip,
         CancelDismiss, CancelMark, CancelSettle, CancelAnnounce, RunnerStep,
         PromoteRow, PromoteFails, StartRunner, RunnerFails, SettleRow,
         SettleLost, WrapUp, ExitRunner, ToolCancelled, PollCancelFlag
<1>3. ASSUME NEW p \in Proc,
             \/ SchedulerStep(p) \/ \E s \in Session : PurgeSession(s, p)
             \/ \E j \in Job : \/ Spawn(j, p) \/ Detach(j, p)
                               \/ BeginCancel(j, p) \/ InjectResult(p, j)
      PROVE  UNCHANGED <<primary, replay>>
  BY <1>3 DEF Spawn, Detach, BeginCancel, InjectResult, SchedulerStep,
              WakeScheduler, TakeJob, SchedulerParks, PurgeSession
<1>4. ASSUME NEW p \in Proc, ReplayStep(p)
      PROVE  ToBeInterrupted(i)'
  <2>0. primary' = primary /\ replay \in [Proc -> [pc : {"off", "list",
          "interrupt", "pending", "dispatch"}, work : SUBSET Job]]
    BY <1>4 DEF ReplayStep, ReplayList, ReplayPending, ReplayEnds,
                ReplayInterrupt, ReplayDispatch, Typed, TypeOK
  <2>1. CASE p # primary
    <3>1. primary \in Proc => replay'[primary] = replay[primary]
      BY <1>4, <2>0, <2>1
         DEF ReplayStep, ReplayList, ReplayPending, ReplayEnds,
             ReplayInterrupt, ReplayDispatch, ReplayGoto
    <3> QED BY <1>0, <2>0, <3>1 DEF ToBeInterrupted
  <2>2. CASE p = primary /\ replay[p].pc = "list"
    <3>1. ReplayList(p)
      BY <1>4, <2>2 DEF ReplayStep, ReplayPending, ReplayEnds,
                        ReplayInterrupt, ReplayDispatch
    <3>2. replay'[p] = [pc |-> "interrupt",
                        work |-> {j \in Job : rows[j].status \in Active}]
      BY <2>0, <3>1 DEF ReplayList, ReplayGoto
    <3>3. replay'[primary'].pc = "interrupt" /\ i \in replay'[primary'].work
      BY <2>0, <2>2, <3>2
    <3> QED BY <3>3 DEF ToBeInterrupted
  <2>3. CASE p = primary /\ replay[p].pc = "interrupt" /\ i \in replay[p].work
    <3>1. PICK j \in Job : ReplayInterrupt(p, j)
      BY <1>4, <2>3 DEF ReplayStep, ReplayList, ReplayPending, ReplayEnds,
                        ReplayDispatch
    <3>2. j # i
      <4>1. ASSUME j = i PROVE FALSE
        <5>1. /\ rows'[i] = Settle(rows[i], "interrupted")
              /\ rows[i] \in Row /\ "interrupted" \in Terminal
          BY <3>1, <4>1 DEF ReplayInterrupt, Update, Typed, TypeOK, Terminal
        <5> QED BY <5>1, SettledIsSettled
      <4> QED BY <4>1
    <3>3. replay'[p] = [pc |-> "interrupt", work |-> replay[p].work \ {j}]
      BY <2>0, <3>1 DEF ReplayInterrupt, ReplayGoto
    <3>4. replay'[primary'].pc = "interrupt" /\ i \in replay'[primary'].work
      BY <2>0, <2>3, <3>2, <3>3
    <3> QED BY <3>4 DEF ToBeInterrupted
  <2> QED BY <1>0, <2>1, <2>2, <2>3 DEF ToBeInterrupted
<1>5. ASSUME NEW p \in Proc, StartProcess(p)
      PROVE  ToBeInterrupted(i)'
  <2>1. CASE primary = NoProc
    <3>1. primary' = p /\ replay'[p].pc = "list"
      BY <1>5, <2>1 DEF StartProcess, NoReplay, Typed, TypeOK
    <3> QED BY <3>1 DEF ToBeInterrupted
  <2>2. CASE primary # NoProc
    BY <1>1, <1>5, <2>2 DEF StartProcess
  <2> QED BY <2>1, <2>2
<1>6. ASSUME NEW p \in Proc, Crash(p)
      PROVE  ToBeInterrupted(i)'
  <2>1. CASE primary = p \/ primary = NoProc
    BY <1>6, <2>1 DEF Crash, ToBeInterrupted
  <2>2. CASE primary # p /\ primary # NoProc
    BY <1>0, <1>6, <2>2 DEF Crash, ToBeInterrupted, Typed, TypeOK
  <2> QED BY <2>1, <2>2
<1>7. CASE UNCHANGED vars
  BY <1>1, <1>7 DEF vars
<1> HIDE DEF jobVars, poolVars, procVars
<1> QED BY <1>1, <1>2, <1>3, <1>4, <1>5, <1>6, <1>7 DEF Next

(* Whoever drives an active row goes on, hands over or settles it; when it *)
(* dies with its process the next Primary is to interrupt the row.         *)
LEMMA DrivenStep ==
  ASSUME ~DbFaults, NoOrphans, Typed, SlotInv, RowInv, Unstarted, SoleProc,
         [Next]_vars, NEW i \in Job, Driven(i),
         rows[i].status \in Active, rows'[i].status \in Active
  PROVE  Driven(i)' \/ ToBeInterrupted(i)'
<1> USE DEF jobVars, poolVars, procVars
<1>0. /\ rows \in [Job -> Row] /\ pc \in [Job -> PC] /\ rows[i] \in Row
      /\ rows'[i].status \notin Terminal
      /\ canc \in [Job -> [pc : CancelPC, proc : Proc \cup {NoProc},
                           signalled : BOOLEAN]]
  <2>1. Active \cap Terminal = {}
    BY DEF Active, Terminal
  <2> QED BY <2>1 DEF Typed, TypeOK
<1> DEFINE Going == {"enqueue", "queued", "taken", "start", "run", "parked",
                     "dismissed", "settle"}
<1>1. ASSUME pc'[i] = pc[i] \/ pc'[i] \in Going, canc'[i] = canc[i]
      PROVE  Driven(i)'
  BY <1>1 DEF Driven, CancelOf
<1>2. ASSUME NEW j \in Job, SpawnStep(j)
      PROVE  Driven(i)'
  <2>1. canc' = canc /\ (j # i => pc'[i] = pc[i])
    BY <1>0, <1>2 DEF SpawnStep, InsertRow, InsertFails, EnqueueJob, RejectJob,
                      Goto
  <2>2. CASE j = i /\ (InsertRow(j) \/ EnqueueJob(j))
    <3>1. pc'[i] \in Going
      BY <1>0, <2>2 DEF InsertRow, EnqueueJob, Goto
    <3> QED BY <2>1, <3>1, <1>1
  <2>3. CASE j = i /\ RejectJob(j)
    <3>1. rows'[i] = NoRow
      BY <1>0, <2>3 DEF RejectJob, Update
    <3> QED BY <3>1 DEF NoRow, Active
  <2> QED BY <1>1, <1>2, <2>1, <2>2, <2>3 DEF SpawnStep, InsertFails
<1>3. ASSUME NEW j \in Job, RunnerStep(j)
      PROVE  Driven(i)'
  <2>1. canc' = canc /\ (j # i => pc'[i] = pc[i])
    <3>1. CASE PromoteRow(j)
      <4>1. \E l \in {"start", "dropped"} : pc' = [pc EXCEPT ![j] = l]
        BY <3>1 DEF PromoteRow, Goto
      <4> QED BY <1>0, <3>1, <4>1 DEF PromoteRow
    <3> QED BY <1>0, <1>3, <3>1
        DEF RunnerStep, PromoteFails, StartRunner, RunnerFails, SettleRow,
            SettleLost, WrapUp, ExitRunner, Goto
  <2>2. ASSUME j = i, pc'[i] \in Going
        PROVE  Driven(i)'
    BY <1>1, <2>1, <2>2
  <2>3. ASSUME j = i, PromoteRow(j)
        PROVE  Driven(i)'
    <3>1. CanMarkRunning(rows[i])
      BY <2>3 DEF PromoteRow, Unstarted, Early, CanMarkRunning
    <3>2. pc'[i] = "start"
      BY <1>0, <2>3, <3>1 DEF PromoteRow, Goto
    <3> QED BY <2>2, <2>3, <3>2
  <2>4. ASSUME j = i, StartRunner(j)
        PROVE  Driven(i)'
    BY <1>0, <2>2, <2>4 DEF StartRunner, Goto
  <2>5. ASSUME j = i, RunnerFails(j) \/ SettleRow(j)
        PROVE  FALSE
    <3>1. CASE RunnerFails(i)
      <4>1. rows'[i] = Settle(rows[i], "failed") /\ "failed" \in Terminal
        BY <1>0, <3>1 DEF RunnerFails, Update, Terminal
      <4> QED BY <1>0, <4>1, SettledIsSettled
    <3>2. CASE SettleRow(i)
      <4>1. verdict[i] \in Terminal
        BY <3>2 DEF SettleRow, Typed, VerdictKnown, TypeOK, Verdict, Terminal
      <4>2. rows'[i] = Settle(rows[i], verdict[i])
        BY <1>0, <3>2 DEF SettleRow, Update
      <4> QED BY <1>0, <4>1, <4>2, SettledIsSettled
    <3> QED BY <2>5, <3>1, <3>2
  <2>6. ~SettleLost(i) /\ ~PromoteFails(i)
    BY DEF SettleLost, CanSettle, PromoteFails
  <2>7. ASSUME j = i, WrapUp(j)
        PROVE  FALSE
    BY <2>7 DEF WrapUp, RowInv, IsOver
  <2>8. ASSUME j = i, ExitRunner(j)
        PROVE  Driven(i)'
    BY <2>1, <2>8 DEF ExitRunner, Driven, CancelOf
  <2> QED BY <1>1, <1>3, <2>1, <2>3, <2>4, <2>5, <2>6, <2>7, <2>8
          DEF RunnerStep
<1>4. ASSUME NEW j \in Job, ToolStep(j) \/ ToolCancelled(j) \/ PollCancelFlag(j)
      PROVE  Driven(i)'
  <2>1. canc' = canc /\ (pc'[i] = pc[i] \/ pc'[i] \in Going)
    BY <1>0, <1>4
       DEF ToolStep, ToolReturns, BudgetExpires, ParkApproval, ResumeApproval,
           DenyApproval, ToolCancelled, PollCancelFlag, EndDispatch, Goto
  <2> QED BY <1>1, <2>1
<1>5. ASSUME NEW j \in Job, CancelStep(j)
      PROVE  Driven(i)'
  <2>1. CASE j # i
    <3>1. pc'[i] = pc[i] /\ canc'[i] = canc[i]
      BY <1>0, <1>5, <2>1
         DEF CancelStep, CancelUnqueue, CancelFlag, CancelTrip, CancelDismiss,
             CancelMark, CancelSettle, CancelAnnounce, CancelGoto, Goto
    <3> QED BY <1>1, <3>1
  <2>2. CASE j = i /\ CancelUnqueue(j)
    <3>1. CASE InQueue(pool[canc[j].proc], j)
      BY <1>0, <2>2, <3>1 DEF CancelUnqueue, CancelGoto, Driven, CancelOf
    <3>2. CASE ~InQueue(pool[canc[j].proc], j)
      BY <2>2, <3>2 DEF CancelUnqueue, Driven, CancelOf
    <3> QED BY <3>1, <3>2
  <2>3. CASE j = i /\ (CancelFlag(j) \/ CancelTrip(j) \/ CancelMark(j))
    <3>1. pc' = pc /\ canc[i].pc # "settle"
      BY <2>3 DEF CancelFlag, CancelTrip, CancelMark, CancelOf
    <3> QED BY <3>1 DEF Driven, CancelOf
  <2>4. CASE j = i /\ CancelDismiss(j)
    <3>1. canc[i].pc # "settle" /\ (pc'[i] = pc[i] \/ pc'[i] \in Going)
      BY <1>0, <2>4 DEF CancelDismiss, CancelOf, Goto
    <3> QED BY <3>1 DEF Driven, CancelOf
  <2>5. CASE j = i /\ CancelSettle(j)
    <3>1. rows'[i] = Settle(rows[i], "cancelled") /\ "cancelled" \in Terminal
      BY <1>0, <2>5 DEF CancelSettle, Update, Terminal
    <3> QED BY <1>0, <3>1, SettledIsSettled
  <2>6. CASE j = i /\ CancelAnnounce(j)
    BY <2>6 DEF CancelAnnounce, CancelOf, RowInv, IsOver
  <2> QED BY <1>5, <2>1, <2>2, <2>3, <2>4, <2>5, <2>6 DEF CancelStep
<1>6. ASSUME NEW j \in Job, NEW p \in Proc,
             \/ Spawn(j, p) \/ Detach(j, p)
             \/ BeginCancel(j, p) \/ InjectResult(p, j)
      PROVE  Driven(i)'
  <2>1. CASE BeginCancel(j, p)
    <3>1. pc' = pc /\ (canc'[i] = canc[i] \/ canc[i].pc = "idle")
      BY <1>0, <2>1 DEF BeginCancel, CancelOf
    <3> QED BY <3>1 DEF Driven, CancelOf
  <2>2. CASE Spawn(j, p)
    <3>1. j # i
      BY <2>2 DEF Spawn, RowInv, Begun, NoRow, Active
    <3> QED BY <1>0, <1>1, <2>2, <3>1 DEF Spawn, Goto
  <2>3. CASE Detach(j, p)
    <3>1. pc'[i] \in {pc[i], "run"} /\ canc' = canc
      BY <1>0, <2>3 DEF Detach, Goto
    <3> QED BY <1>1, <3>1
  <2>4. CASE InjectResult(p, j)
    BY <1>1, <2>4 DEF InjectResult
  <2> QED BY <1>6, <2>1, <2>2, <2>3, <2>4
<1>7. ASSUME NEW p \in Proc, TakeJob(p)
      PROVE  Driven(i)'
  <2>1. canc' = canc /\ pc'[i] \in {pc[i], "taken"}
    BY <1>0, <1>7 DEF TakeJob, Goto
  <2> QED BY <1>1, <2>1
<1>8. ASSUME NEW p \in Proc,
             \/ WakeScheduler(p) \/ SchedulerParks(p)
             \/ ReplayStep(p) \/ StartProcess(p)
      PROVE  Driven(i)'
  <2>1. pc' = pc /\ canc' = canc
    BY <1>8 DEF WakeScheduler, SchedulerParks, ReplayStep, ReplayList,
                ReplayPending, ReplayEnds, ReplayInterrupt, ReplayDispatch,
                StartProcess
  <2> QED BY <1>1, <2>1
<1>9. ASSUME NEW p \in Proc, Crash(p)
      PROVE  ToBeInterrupted(i)'
  BY <1>9, CrashFreesTheLock DEF Typed, ToBeInterrupted
<1>10. ASSUME NEW p \in Proc, NEW s \in Session, PurgeSession(s, p)
       PROVE  Driven(i)'
  <2>1. NoRow.status \notin Active
    BY DEF NoRow, Active
  <2>2. pc'[i] = pc[i] /\ canc' = canc
    BY <1>10, <2>1 DEF PurgeSession
  <2> QED BY <1>1, <2>2
<1>11. CASE UNCHANGED vars
  BY <1>1, <1>11 DEF vars
<1> HIDE DEF jobVars, poolVars, procVars, Going
<1> QED BY <1>2, <1>3, <1>4, <1>5, <1>6, <1>7, <1>8, <1>9, <1>10, <1>11
        DEF Next, SchedulerStep

(* A row that becomes active is one just made, by the thread that drives   *)
(* it.                                                                     *)
LEMMA NewRowDriven ==
  ASSUME Typed, RowInv, [Next]_vars, NEW i \in Job,
         rows[i].status \notin Active, rows'[i].status \in Active
  PROVE  Driven(i)'
<1>1. ~Begun(i)
  <2>1. "absent" \notin Active
    BY DEF Active
  <2> QED BY <2>1, OverStays DEF IsOver
<1>2. rows[i] = NoRow /\ rows \in [Job -> Row]
  BY <1>1 DEF RowInv, Typed, TypeOK
<1>3. NoRow.status = "absent" /\ "absent" \notin Active \cup Terminal
  BY DEF NoRow, Active, Terminal
<1>4. ~RowEdge
  <2> SUFFICES ASSUME NEW j \in Job, NEW row, MayBecome(rows[j], row),
                      rows' = [rows EXCEPT ![j] = row]
               PROVE  FALSE
    BY DEF RowEdge
  <2>1. j = i /\ row.status \in Active
    BY <1>2
  <2>2. \A e \in Lifecycle!Edges : e[1] # "absent"
    BY DEF Lifecycle!Edges
  <2> QED BY <1>2, <1>3, <2>1, <2>2 DEF MayBecome
<1>5. ~RowsGone
  BY <1>2, <1>3 DEF RowsGone
<1>6. RowMade
  BY <1>4, <1>5, RowChange
<1>7. pc'[i] \in {"enqueue", "start", "run"}
  BY <1>2, <1>6 DEF RowMade
<1> QED BY <1>7 DEF Driven

(* No active row is stuck: whoever holds it will settle it, or a replay    *)
(* will interrupt it.  The database is assumed to answer, and either no    *)
(* process dies or there is only one: a Secondary that dies leaves rows    *)
(* that the live Primary does not look at (cancel_job, finalize_job,       *)
(* replay_pending_jobs).                                                   *)
THEOREM NoActiveRowIsStuck ==
  ASSUME ~DbFaults, NoOrphans PROVE Spec => []ActiveRowDriven
<1> DEFINE Inv == /\ Typed /\ SlotInv /\ CallerKnown /\ RowInv
                  /\ ReplayerIsPrimary /\ SoleProc /\ Unstarted
<1>1. Init => ReplayerIsPrimary /\ SoleProc /\ Unstarted /\ ActiveRowDriven
  BY DEF Init, NoReplay, NoRow, Active, Early, ReplayerIsPrimary, SoleProc,
         Unstarted, ActiveRowDriven
<1>2. Inv /\ ActiveRowDriven /\ [Next]_vars => ActiveRowDriven'
  <2> SUFFICES ASSUME Inv, ActiveRowDriven, [Next]_vars, NEW i \in Job,
                      rows'[i].status \in Active
               PROVE  Driven(i)' \/ ToBeInterrupted(i)'
    BY DEF ActiveRowDriven
  <2>1. CASE rows[i].status \in Active
    <3>1. Driven(i) \/ ToBeInterrupted(i)
      BY <2>1 DEF ActiveRowDriven
    <3> QED BY <2>1, <3>1, DrivenStep, InterruptStays
  <2>2. CASE rows[i].status \notin Active
    BY <2>2, NewRowDriven
  <2> QED BY <2>1, <2>2
<1>3. Typed /\ ReplayerIsPrimary /\ SoleProc /\ [Next]_vars
        => ReplayerIsPrimary' /\ SoleProc'
  BY PrimaryStep DEF Typed
<1>4. Typed /\ SlotInv /\ CallerKnown /\ Unstarted /\ [Next]_vars => Unstarted'
  BY UnstartedStep
<1> QED BY <1>1, <1>2, <1>3, <1>4, RowInvariant, Invariants, PTL DEF Spec

(* In these deployments a cancel call leaves no orphan either: when it     *)
(* returns with its row still active (mark_cancelling spares a queued row, *)
(* and a runner that was signalled has yet to settle its own), somebody    *)
(* drives the row.  With a Secondary that died the code breaks this        *)
(* promise.                                                                *)
THEOREM NoOrphanIsLeft ==
  ASSUME ~DbFaults, NoOrphans PROVE Spec => CancelLeavesNoOrphan
<1>1. Typed /\ ActiveRowDriven /\ [Next]_vars =>
        [\A j \in Job :
           CancelStep(j) /\ canc'[j] = Idle /\ rows'[j].status \in Active =>
             Driven(j) \/ ToBeInterrupted(j)]_vars
  <2> SUFFICES ASSUME Typed, ActiveRowDriven, NEW j \in Job,
                      CancelStep(j), rows'[j].status \in Active
               PROVE  rows[j].status \in Active
    BY DEF ActiveRowDriven
  <2>1. rows \in [Job -> Row] /\ rows[j] \in Row /\ "absent" \notin Active
    BY DEF Typed, TypeOK, Active
  <2>2. CASE rows' = rows
    BY <2>2
  <2>3. CASE CancelFlag(j)
    BY <2>1, <2>3 DEF CancelFlag, Update, RequestCancel
  <2>4. CASE CancelMark(j)
    BY <2>1, <2>4 DEF CancelMark, Update, MarkCancelling, CanMarkCancelling
  <2>5. CASE CancelSettle(j)
    BY <2>1, <2>5 DEF CancelSettle, Update, Settle, CanSettle
  <2>6. CASE CancelAnnounce(j)
    BY <2>1, <2>6 DEF CancelAnnounce, Update, MarkInjected
  <2>7. CASE CancelUnqueue(j) \/ CancelTrip(j) \/ CancelDismiss(j)
    BY <2>2, <2>7 DEF CancelUnqueue, CancelTrip, CancelDismiss
  <2> QED BY <2>3, <2>4, <2>5, <2>6, <2>7 DEF CancelStep
<1>2. Spec => []ActiveRowDriven
  BY NoActiveRowIsStuck
<1> QED BY <1>1, <1>2, RowInvariant, PTL DEF Spec, CancelLeavesNoOrphan

(* Only an active row becomes a pending result, and only by being settled: *)
(* a row is made un-injected but active, and no statement unsets the mark. *)
LEMMA PendingStarts ==
  ASSUME Typed, RowInv, [Next]_vars, NEW i \in Job,
         PendingInjection(rows'[i]), ~PendingInjection(rows[i])
  PROVE  rows[i].status \in Active /\ rows'[i].status \notin Active
<1>0. /\ rows \in [Job -> Row] /\ rows[i] \in Row
      /\ Active \cap Terminal = {} /\ "absent" \notin Active \cup Terminal
      /\ NoRow.status = "absent"
  BY DEF Typed, TypeOK, Active, Terminal, NoRow
<1>1. rows'[i].status \in Terminal /\ rows'[i] # rows[i]
  BY DEF PendingInjection
<1>2. ~RowMade
  <2>1. NewRow("queued").status \in Active /\ NewRow("running").status \in Active
    BY DEF NewRow, NoRow, Active
  <2> QED BY <1>0, <1>1, <2>1 DEF RowMade
<1>3. ~RowsGone
  BY <1>0, <1>1 DEF RowsGone
<1>4. RowEdge
  BY <1>1, <1>2, <1>3, RowChange
<1>5. PICK j \in Job : \E row : /\ MayBecome(rows[j], row)
                                /\ rows' = [rows EXCEPT ![j] = row]
  BY <1>4 DEF RowEdge
<1>6. PICK row : /\ MayBecome(rows[j], row)
                 /\ rows' = [rows EXCEPT ![j] = row]
  BY <1>5
<1>7. j = i /\ row = rows'[i]
  BY <1>0, <1>1, <1>6
<1>8. \A e \in Lifecycle!Edges : e[1] \in Active
  BY DEF Lifecycle!Edges, Active
<1>9. rows[i].status \in Active
  <2>1. CASE row = [rows[i] EXCEPT !.injected = TRUE]
    BY <1>0, <1>7, <2>1 DEF PendingInjection, Row
  <2> QED BY <1>1, <1>6, <1>7, <1>8, <2>1 DEF MayBecome
<1> QED BY <1>0, <1>1, <1>9

(* Who settles a row goes on to hand its result over, or to announce it,   *)
(* unless it is the replay, which will list it (update_terminal's callers).*)
LEMMA SettledBy ==
  ASSUME Typed, [Next]_vars, NEW i \in Job,
         rows[i].status \in Active, rows'[i].status \in Terminal
  PROVE  \/ pc'[i] = "wrapup" \/ canc'[i].pc = "announce"
         \/ \E p \in Proc : ReplayInterrupt(p, i)
<1> DEFINE Reported == pc'[i] = "wrapup" \/ canc'[i].pc = "announce"
<1> USE DEF jobVars, poolVars, procVars
<1>0. /\ rows \in [Job -> Row] /\ pc \in [Job -> PC] /\ rows[i] \in Row
      /\ canc \in [Job -> [pc : CancelPC, proc : Proc \cup {NoProc},
                           signalled : BOOLEAN]]
      /\ Active \cap Terminal = {} /\ "absent" \notin Terminal
  BY DEF Typed, TypeOK, Active, Terminal
<1> DEFINE Same(row) == row.status \in {rows[i].status, "absent"} \cup Active
<1>1. ASSUME rows'[i] = rows[i] \/ Same(rows'[i])
      PROVE  FALSE
  BY <1>0, <1>1
<1>2. \A row \in {RequestCancel(rows[i]), MarkCancelling(rows[i]), Park(rows[i]),
                  Resume(rows[i]), MarkRunning(rows[i]),
                  MarkInjected(rows[i]), NoRow} : Same(row)
  BY <1>0 DEF RequestCancel, MarkCancelling, Park, Resume, MarkRunning,
              MarkInjected, NoRow, Active, Row
<1>3. ASSUME NEW j \in Job, NEW row, Update(j, row), j = i => Same(row)
      PROVE  FALSE
  BY <1>0, <1>1, <1>3 DEF Update
<1> HIDE DEF Same, Reported
<1>4. ASSUME NEW j \in Job, SpawnStep(j)
      PROVE  FALSE
  <2>1. CASE InsertRow(j)
    <3>1. \A st \in {"queued", "running"} : Same(NewRow(st))
      BY DEF NewRow, NoRow, Active, Same
    <3> QED BY <2>1, <3>1, <1>3 DEF InsertRow
  <2> QED BY <1>1, <1>2, <1>3, <1>4, <2>1
          DEF SpawnStep, InsertFails, EnqueueJob, RejectJob
<1>5. ASSUME NEW j \in Job, RunnerStep(j)
      PROVE  Reported
  <2>1. CASE RunnerFails(j) \/ SettleRow(j)
    <3>1. j = i
      BY <1>0, <1>1, <2>1 DEF RunnerFails, SettleRow, Update
    <3>2. pc'[i] = "wrapup"
      BY <1>0, <2>1, <3>1 DEF RunnerFails, SettleRow, Goto
    <3> QED BY <3>2 DEF Reported
  <2>2. CASE PromoteRow(j)
    BY <1>2, <1>3, <2>2 DEF PromoteRow
  <2>3. CASE WrapUp(j)
    BY <1>1, <1>2, <1>3, <2>3 DEF WrapUp
  <2>4. CASE PromoteFails(j) \/ StartRunner(j) \/ SettleLost(j) \/ ExitRunner(j)
    BY <1>1, <2>4 DEF PromoteFails, StartRunner, SettleLost, ExitRunner
  <2> QED BY <1>5, <2>1, <2>2, <2>3, <2>4 DEF RunnerStep
<1>6. ASSUME NEW j \in Job, ToolStep(j) \/ ToolCancelled(j) \/ PollCancelFlag(j)
      PROVE  FALSE
  <2>1. CASE ParkApproval(j) \/ ResumeApproval(j)
    BY <1>2, <1>3, <2>1 DEF ParkApproval, ResumeApproval
  <2> QED BY <1>1, <1>6, <2>1
      DEF ToolStep, ToolReturns, BudgetExpires, DenyApproval, ToolCancelled,
          PollCancelFlag, EndDispatch
<1>7. ASSUME NEW j \in Job, CancelStep(j)
      PROVE  Reported
  <2>1. CASE CancelSettle(j)
    <3>1. j = i
      BY <1>0, <1>1, <2>1 DEF CancelSettle, Update
    <3>2. canc'[i].pc = "announce"
      BY <1>0, <2>1, <3>1 DEF CancelSettle, CancelGoto
    <3> QED BY <3>2 DEF Reported
  <2>2. CASE CancelFlag(j) \/ CancelMark(j) \/ CancelAnnounce(j)
    BY <1>2, <1>3, <2>2 DEF CancelFlag, CancelMark, CancelAnnounce
  <2>3. CASE CancelUnqueue(j) \/ CancelTrip(j) \/ CancelDismiss(j)
    BY <1>1, <2>3 DEF CancelUnqueue, CancelTrip, CancelDismiss
  <2> QED BY <1>7, <2>1, <2>2, <2>3 DEF CancelStep
<1>8. ASSUME NEW j \in Job, NEW p \in Proc,
             \/ Spawn(j, p) \/ Detach(j, p)
             \/ BeginCancel(j, p) \/ InjectResult(p, j)
      PROVE  FALSE
  <2>1. CASE Detach(j, p)
    <3>1. Same(NewRow("running"))
      BY DEF NewRow, NoRow, Active, Same
    <3> QED BY <2>1, <3>1, <1>3 DEF Detach
  <2>2. CASE InjectResult(p, j)
    BY <1>2, <1>3, <2>2 DEF InjectResult
  <2> QED BY <1>1, <1>8, <2>1, <2>2 DEF Spawn, BeginCancel
<1>9. ASSUME NEW p \in Proc, ReplayStep(p)
      PROVE  ReplayInterrupt(p, i)
  <2>1. ASSUME NEW j \in Job, ReplayInterrupt(p, j)
        PROVE  ReplayInterrupt(p, i)
    <3>1. j = i
      BY <1>0, <1>1, <2>1 DEF ReplayInterrupt, Update
    <3> QED BY <2>1, <3>1
  <2>2. ASSUME NEW j \in Job, ReplayDispatch(p, j)
        PROVE  FALSE
    BY <1>1, <1>2, <1>3, <2>2 DEF ReplayDispatch
  <2>3. CASE ReplayList(p) \/ ReplayPending(p) \/ ReplayEnds(p)
    BY <1>1, <2>3 DEF ReplayList, ReplayPending, ReplayEnds
  <2> QED BY <1>9, <2>1, <2>2, <2>3 DEF ReplayStep
<1>10. ASSUME NEW p \in Proc, SchedulerStep(p) \/ StartProcess(p) \/ Crash(p)
       PROVE  FALSE
  BY <1>1, <1>10 DEF SchedulerStep, WakeScheduler, TakeJob, SchedulerParks,
                     StartProcess, Crash
<1>11. ASSUME NEW p \in Proc, NEW s \in Session, PurgeSession(s, p)
       PROVE  FALSE
  <2>1. rows'[i] = rows[i] \/ rows'[i] = NoRow
    BY <1>11 DEF PurgeSession
  <2> QED BY <1>1, <1>2, <2>1
<1>12. ASSUME UNCHANGED vars
       PROVE  FALSE
  BY <1>1, <1>12 DEF vars
<1> HIDE DEF jobVars, poolVars, procVars
<1>13. Reported \/ \E p \in Proc : ReplayInterrupt(p, i)
  BY <1>4, <1>5, <1>6, <1>7, <1>8, <1>9, <1>10, <1>11, <1>12 DEF Next
<1> QED BY <1>13 DEF Reported

(* Who has a pending result in hand.                                       *)
Kept(j) ==
  \/ \E p \in Proc : j \in handed[p]
  \/ pc[j] = "wrapup" \/ CancelOf(j, "announce") \/ ToBeReplayed(j)

(* A pending result stays in the hands of someone until it is marked as    *)
(* injected or its row is purged; when they die with their process the     *)
(* next Primary lists it.                                                  *)
LEMMA KeptStays ==
  ASSUME NoOrphans, Typed, SlotInv, CallerKnown, SoleProc, [Next]_vars,
         NEW i \in Job, Kept(i), PendingInjection(rows[i]), PendingInjection(rows'[i])
  PROVE  Kept(i)'
<1> USE DEF jobVars, poolVars, procVars
<1>0. /\ rows \in [Job -> Row] /\ pc \in [Job -> PC] /\ rows[i] \in Row
      /\ canc \in [Job -> [pc : CancelPC, proc : Proc \cup {NoProc},
                           signalled : BOOLEAN]]
      /\ handed \in [Proc -> SUBSET Job]
      /\ replay \in [Proc -> [pc : {"off", "list", "interrupt", "pending",
                                    "dispatch"}, work : SUBSET Job]]
      /\ primary \in Proc \cup {NoProc} /\ NoProc \notin Proc
  BY ProcAssumption DEF Typed, TypeOK
<1>1. ~PendingInjection(MarkInjected(rows[i])) /\ ~PendingInjection(NoRow)
  BY <1>0 DEF PendingInjection, MarkInjected, NoRow, Terminal, Row
<1>2. ASSUME \A p \in Proc : i \in handed[p] => i \in handed'[p],
             pc[i] = "wrapup" => pc'[i] = "wrapup",
             canc[i].pc = "announce" => canc'[i].pc = "announce",
             ToBeReplayed(i) => ToBeReplayed(i)'
      PROVE  Kept(i)'
  BY <1>2 DEF Kept, CancelOf
<1>3. ASSUME UNCHANGED <<primary, replay>>
      PROVE  ToBeReplayed(i) => ToBeReplayed(i)'
  BY <1>3 DEF ToBeReplayed
<1>4. ASSUME NEW j \in Job,
             \/ SpawnStep(j) \/ ToolStep(j)
             \/ ToolCancelled(j) \/ PollCancelFlag(j)
      PROVE  Kept(i)'
  <2>1. UNCHANGED <<canc, handed, primary, replay>>
    BY <1>4 DEF SpawnStep, InsertRow, InsertFails, EnqueueJob, RejectJob,
                ToolStep, ToolReturns, BudgetExpires, ParkApproval,
                ResumeApproval, DenyApproval, EndDispatch, ToolCancelled,
                PollCancelFlag
  <2>2. pc[i] = "wrapup" => pc'[i] = "wrapup"
    BY <1>0, <1>4
       DEF SpawnStep, InsertRow, InsertFails, EnqueueJob, RejectJob,
           ToolStep, ToolReturns, BudgetExpires, ParkApproval, ResumeApproval,
           DenyApproval, EndDispatch, ToolCancelled, Dispatching,
           PollCancelFlag, Goto
  <2> QED BY <2>1, <2>2, <1>2, <1>3
<1>5. ASSUME NEW j \in Job, RunnerStep(j)
      PROVE  Kept(i)'
  <2>1. UNCHANGED <<canc, primary, replay>>
    BY <1>5 DEF RunnerStep, PromoteRow, PromoteFails, StartRunner, RunnerFails,
                SettleRow, SettleLost, WrapUp, ExitRunner
  <2>2. CASE WrapUp(j) /\ j # i
    <3>1. \A p \in Proc : i \in handed[p] => i \in handed'[p]
      <4>1. \/ handed' = handed
            \/ handed' = [handed EXCEPT ![home[j]] = @ \cup {j}]
        BY <2>2 DEF WrapUp
      <4> QED BY <1>0, <4>1
    <3>2. pc'[i] = pc[i]
      BY <1>0, <2>2 DEF WrapUp, Goto
    <3> QED BY <2>1, <3>1, <3>2, <1>2, <1>3
  <2>3. CASE WrapUp(j) /\ j = i
    <3>1. rows'[i] # MarkInjected(rows[i])
      BY <1>1
    <3>2. handed' = [handed EXCEPT ![home[i]] = @ \cup {i}]
      BY <1>0, <2>3, <3>1 DEF WrapUp, Update
    <3>3. home[i] \in Proc
      BY <2>3 DEF WrapUp, SlotInv, SeatFollowsPc
    <3>4. i \in handed'[home[i]]
      BY <1>0, <3>2, <3>3
    <3> QED BY <3>3, <3>4 DEF Kept
  <2>4. CASE ~WrapUp(j)
    <3>1. UNCHANGED handed
      BY <1>5, <2>4
         DEF RunnerStep, PromoteRow, PromoteFails, StartRunner, RunnerFails,
             SettleRow, SettleLost, ExitRunner
    <3>2. pc[i] = "wrapup" => pc'[i] = "wrapup"
      <4>1. CASE PromoteRow(j)
        BY <1>0, <4>1 DEF PromoteRow, Goto
      <4> QED BY <1>0, <1>5, <2>4, <4>1
          DEF RunnerStep, PromoteFails, StartRunner, RunnerFails,
              SettleRow, SettleLost, ExitRunner, Goto
    <3> QED BY <2>1, <3>1, <3>2, <1>2, <1>3
  <2> QED BY <2>2, <2>3, <2>4
<1>6. ASSUME NEW j \in Job, CancelStep(j)
      PROVE  Kept(i)'
  <2>1. UNCHANGED <<handed, primary, replay>>
    BY <1>6 DEF CancelStep, CancelUnqueue, CancelFlag, CancelTrip,
                CancelDismiss, CancelMark, CancelSettle, CancelAnnounce
  <2>2. ~(j = i /\ CancelAnnounce(j))
    BY <1>0, <1>1 DEF CancelAnnounce, Update
  <2>3. pc[i] = "wrapup" => pc'[i] = "wrapup"
    <3>1. CASE CancelUnqueue(j)
      <4>1. CASE InQueue(pool[canc[j].proc], j)
        <5>1. pc'[j] = "unqueued" /\ canc[j].pc = "unqueue"
          BY <1>0, <3>1, <4>1 DEF CancelUnqueue, Goto, CancelOf
        <5>2. canc[j].proc \in Proc => pc[j] = "queued"
          BY <4>1 DEF SlotInv, QueueExclusive
        <5>3. CASE canc[j].proc \in Proc
          BY <1>0, <3>1, <4>1, <5>2, <5>3 DEF CancelUnqueue, Goto
        <5>4. CASE canc[j].proc \notin Proc
          BY <5>1, <5>4 DEF CallerKnown
        <5> QED BY <5>3, <5>4
      <4> QED BY <3>1, <4>1 DEF CancelUnqueue
    <3> QED BY <1>0, <1>6, <3>1
        DEF CancelStep, CancelFlag, CancelTrip, CancelDismiss, CancelMark,
            CancelSettle, CancelAnnounce, Goto
  <2>4. canc[i].pc = "announce" => canc'[i].pc = "announce"
    <3>1. CASE j # i
      BY <1>0, <1>6, <3>1
         DEF CancelStep, CancelUnqueue, CancelFlag, CancelTrip, CancelDismiss,
             CancelMark, CancelSettle, CancelAnnounce, CancelGoto
    <3>2. CASE j = i
      BY <1>6, <2>2, <3>2
         DEF CancelStep, CancelUnqueue, CancelFlag, CancelTrip, CancelDismiss,
             CancelMark, CancelSettle, CancelOf
    <3> QED BY <3>1, <3>2
  <2> QED BY <2>1, <2>3, <2>4, <1>2, <1>3
<1>7. ASSUME NEW j \in Job, NEW p \in Proc,
             \/ Spawn(j, p) \/ Detach(j, p)
             \/ BeginCancel(j, p) \/ InjectResult(p, j)
      PROVE  Kept(i)'
  <2>1. UNCHANGED <<primary, replay>>
    BY <1>7 DEF Spawn, Detach, BeginCancel, InjectResult
  <2>2. pc[i] = "wrapup" => pc'[i] = "wrapup"
    BY <1>0, <1>7 DEF Spawn, Detach, BeginCancel, InjectResult, Goto
  <2>3. canc[i].pc = "announce" => canc'[i].pc = "announce"
    BY <1>0, <1>7 DEF Spawn, Detach, BeginCancel, InjectResult, CancelOf
  <2>4. \A q \in Proc : i \in handed[q] => i \in handed'[q]
    <3>1. CASE InjectResult(p, j)
      <4>1. j # i
        BY <1>0, <1>1, <3>1 DEF InjectResult, Update
      <4> QED BY <1>0, <3>1, <4>1 DEF InjectResult
    <3> QED BY <1>7, <3>1 DEF Spawn, Detach, BeginCancel
  <2> QED BY <2>1, <2>2, <2>3, <2>4, <1>2, <1>3
<1>8. ASSUME NEW p \in Proc, SchedulerStep(p)
      PROVE  Kept(i)'
  <2>1. UNCHANGED <<canc, handed, primary, replay>>
    BY <1>8 DEF SchedulerStep, WakeScheduler, TakeJob, SchedulerParks
  <2>2. pc[i] = "wrapup" => pc'[i] = "wrapup"
    <3>1. CASE TakeJob(p)
      <4>1. pool[p] \in Pool /\ CanTake(pool[p]) /\ IsInjective(pool[p].queue)
        BY <3>1 DEF TakeJob, Typed, TypeOK, SlotInv, QueueExclusive
      <4>2. /\ NextJob(pool[p]) \in ToSet(pool[p].queue)
            /\ NextJob(pool[p]) \in Job
        BY <4>1, TakeEffect
      <4>3. pc[NextJob(pool[p])] = "queued"
        BY <4>2 DEF SlotInv, QueueExclusive, InQueue
      <4> QED BY <1>0, <3>1, <4>2, <4>3 DEF TakeJob, Goto
    <3> QED BY <1>8, <3>1 DEF SchedulerStep, WakeScheduler, SchedulerParks
  <2> QED BY <2>1, <2>2, <1>2, <1>3
<1>9. ASSUME NEW p \in Proc, ReplayStep(p)
      PROVE  Kept(i)'
  <2>1. UNCHANGED <<pc, canc, primary>>
    BY <1>9 DEF ReplayStep, ReplayList, ReplayPending, ReplayEnds,
                ReplayInterrupt, ReplayDispatch
  <2>2. CASE p # primary
    <3>1. primary \in Proc => replay'[primary] = replay[primary]
      BY <1>0, <1>9, <2>2
         DEF ReplayStep, ReplayList, ReplayPending, ReplayEnds,
             ReplayInterrupt, ReplayDispatch, ReplayGoto
    <3>2. ToBeReplayed(i) => ToBeReplayed(i)'
      BY <1>0, <2>1, <3>1 DEF ToBeReplayed
    <3>3. \A q \in Proc : i \in handed[q] => i \in handed'[q]
      <4>1. \/ handed' = handed
            \/ \E j \in Job : handed' = [handed EXCEPT ![p] = @ \cup {j}]
        BY <1>9 DEF ReplayStep, ReplayList, ReplayPending, ReplayEnds,
                    ReplayInterrupt, ReplayDispatch
      <4> QED BY <1>0, <4>1
    <3> QED BY <2>1, <3>2, <3>3, <1>2
  <2>3. CASE p = primary /\ (ReplayList(p) \/ \E j \in Job : ReplayInterrupt(p, j))
    <3>1. replay'[primary'].pc = "interrupt"
      BY <1>0, <2>1, <2>3 DEF ReplayList, ReplayInterrupt, ReplayGoto
    <3> QED BY <3>1 DEF Kept, ToBeReplayed
  <2>4. CASE p = primary /\ ReplayPending(p)
    <3>1. i \in replay'[primary'].work
      BY <1>0, <2>1, <2>4 DEF ReplayPending, ReplayGoto
    <3> QED BY <3>1 DEF Kept, ToBeReplayed
  <2>5. CASE p = primary /\ ReplayEnds(p)
    <3>1. ~ToBeReplayed(i)
      BY <1>0, <2>5 DEF ReplayEnds, ToBeReplayed
    <3>2. handed' = handed
      BY <2>5 DEF ReplayEnds
    <3> QED BY <2>1, <3>1, <3>2, <1>2
  <2>6. ASSUME p = primary, NEW j \in Job, ReplayDispatch(p, j)
        PROVE  Kept(i)'
    <3>1. CASE j = i
      <4>1. rows'[i] # MarkInjected(rows[i])
        BY <1>1
      <4>2. i \in handed'[p]
        BY <1>0, <2>6, <3>1, <4>1 DEF ReplayDispatch, Update
      <4> QED BY <4>2 DEF Kept
    <3>2. CASE j # i
      <4>1. ToBeReplayed(i) => ToBeReplayed(i)'
        BY <1>0, <2>1, <2>6, <3>2 DEF ReplayDispatch, ReplayGoto, ToBeReplayed
      <4>2. \A q \in Proc : i \in handed[q] => i \in handed'[q]
        BY <1>0, <2>6 DEF ReplayDispatch
      <4> QED BY <2>1, <4>1, <4>2, <1>2
    <3> QED BY <3>1, <3>2
  <2> QED BY <1>9, <2>2, <2>3, <2>4, <2>5, <2>6 DEF ReplayStep
<1>10. ASSUME NEW p \in Proc, StartProcess(p)
       PROVE  Kept(i)'
  <2>1. CASE primary = NoProc
    <3>1. primary' = p /\ replay'[p].pc = "list"
      BY <1>0, <1>10, <2>1 DEF StartProcess, NoReplay
    <3> QED BY <3>1 DEF Kept, ToBeReplayed
  <2>2. CASE primary # NoProc
    BY <1>2, <1>3, <1>10, <2>2 DEF StartProcess
  <2> QED BY <2>1, <2>2
<1>11. ASSUME NEW p \in Proc, Crash(p)
       PROVE  Kept(i)'
  BY <1>11, CrashFreesTheLock DEF Typed, Kept, ToBeReplayed
<1>12. ASSUME NEW p \in Proc, NEW s \in Session, PurgeSession(s, p)
       PROVE  Kept(i)'
  <2>1. SessionOf[i] # s
    BY <1>1, <1>12 DEF PurgeSession
  <2>2. pc'[i] = pc[i] /\ UNCHANGED <<canc, primary, replay>>
    BY <1>12, <2>1 DEF PurgeSession
  <2>3. \A q \in Proc : i \in handed[q] => i \in handed'[q]
    BY <1>0, <1>12, <2>1 DEF PurgeSession
  <2> QED BY <2>2, <2>3, <1>2, <1>3
<1>13. CASE UNCHANGED vars
  BY <1>2, <1>3, <1>13 DEF vars
<1> HIDE DEF jobVars, poolVars, procVars
<1> QED BY <1>4, <1>5, <1>6, <1>7, <1>8, <1>9, <1>10, <1>11, <1>12, <1>13
        DEF Next

(* No settled result is forgotten: until it is marked as injected it is in *)
(* a pipeline, about to enter one, or to be listed by a replay.  As above, *)
(* no process dies or there is only one (finalize_job, cancel_job,         *)
(* replay_pending_jobs).                                                   *)
THEOREM ResultsAreKept ==
  ASSUME NoOrphans PROVE Spec => []NoResultForgotten
<1> DEFINE Inv == /\ Typed /\ SlotInv /\ CallerKnown /\ RowInv
                  /\ ReplayerIsPrimary /\ SoleProc
<1>1. Init => ReplayerIsPrimary /\ SoleProc /\ NoResultForgotten
  BY DEF Init, NoReplay, NoRow, Terminal, PendingInjection,
         ReplayerIsPrimary, SoleProc, NoResultForgotten
<1>2. Inv /\ NoResultForgotten /\ [Next]_vars => NoResultForgotten'
  <2>1. NoResultForgotten <=>
          \A j \in Job : PendingInjection(rows[j]) => Kept(j)
    BY DEF NoResultForgotten, Kept
  <2>2. NoResultForgotten' <=>
          \A j \in Job : PendingInjection(rows'[j]) => Kept(j)'
    BY DEF NoResultForgotten, Kept, PendingInjection
  <2> SUFFICES ASSUME Inv, NoResultForgotten, [Next]_vars, NEW i \in Job,
                      PendingInjection(rows'[i])
               PROVE  Kept(i)'
    BY <2>2
  <2>3. CASE PendingInjection(rows[i])
    BY <2>1, <2>3, KeptStays
  <2>4. CASE ~PendingInjection(rows[i])
    <3>1. rows[i].status \in Active /\ rows'[i].status \in Terminal
      BY <2>4, PendingStarts DEF PendingInjection
    <3>2. ASSUME NEW p \in Proc, ReplayInterrupt(p, i)
          PROVE  ToBeReplayed(i)'
      <4>1. primary = p /\ primary' = primary /\ replay'[p].pc = "interrupt"
        BY <3>2 DEF ReplayInterrupt, ReplayGoto, ReplayerIsPrimary, Typed, TypeOK
      <4> QED BY <4>1 DEF ToBeReplayed
    <3> QED BY <3>1, <3>2, SettledBy DEF Kept, CancelOf
  <2> QED BY <2>3, <2>4
<1>3. Typed /\ ReplayerIsPrimary /\ SoleProc /\ [Next]_vars
        => ReplayerIsPrimary' /\ SoleProc'
  BY PrimaryStep DEF Typed
<1> QED BY <1>1, <1>2, <1>3, RowInvariant, Invariants, PTL DEF Spec

-----------------------------------------------------------------------------
(* The end of a job: its runner settles the row, or a cancel call does.    *)

(* A row is terminal after a step if it was before, or was active.         *)
LEMMA TerminalComes ==
  ASSUME Typed, RowInv, [Next]_vars, NEW i \in Job,
         rows'[i].status \in Terminal
  PROVE  rows[i].status \in Active \cup Terminal
<1>0. /\ rows \in [Job -> Row] /\ rows[i] \in Row
      /\ Active \cap Terminal = {} /\ "absent" \notin Active \cup Terminal
      /\ NoRow.status = "absent"
  BY DEF Typed, TypeOK, Active, Terminal, NoRow
<1>1. ~RowMade \/ rows'[i] = rows[i]
  <2>1. NewRow("queued").status \in Active /\ NewRow("running").status \in Active
    BY DEF NewRow, NoRow, Active
  <2> QED BY <1>0, <2>1 DEF RowMade
<1>2. ~RowsGone \/ rows'[i] = rows[i]
  BY <1>0 DEF RowsGone
<1>3. ASSUME RowEdge
      PROVE  rows'[i] = rows[i] \/ rows[i].status \in Active \cup Terminal
  <2>1. PICK j \in Job : \E row : /\ MayBecome(rows[j], row)
                                  /\ rows' = [rows EXCEPT ![j] = row]
    BY <1>3 DEF RowEdge
  <2>2. PICK row : /\ MayBecome(rows[j], row)
                   /\ rows' = [rows EXCEPT ![j] = row]
    BY <2>1
  <2>3. \A e \in Lifecycle!Edges : e[1] \in Active
    BY DEF Lifecycle!Edges, Active
  <2> QED BY <1>0, <2>2, <2>3 DEF MayBecome
<1> QED BY <1>0, <1>1, <1>2, <1>3, RowChange

(* A step that does not concern how job i ends: it may take its thread     *)
(* anywhere before the wrap-up, and drop its token.                        *)
Indifferent(i) ==
  /\ hooks'[i] = hooks[i] /\ canc'[i] = canc[i]
  /\ pc[i] \in Spent \cup {"wrapup", "gone"} => pc'[i] = pc[i]
  /\ pc[i] # "idle" /\ registered'[i] => registered[i]

(* Every step is, but the end of its runner and its own cancel call.       *)
LEMMA MostAreIndifferent ==
  ASSUME TypeOK, SlotInv, CallerKnown, [Next]_vars, NEW i \in Job,
         ~WrapUp(i), ~ExitRunner(i), ~CancelStep(i),
         \A p \in Proc : /\ ~Crash(p) /\ ~ReplayStep(p)
                         /\ ~BeginCancel(i, p)
  PROVE  Indifferent(i)
<1> USE DEF jobVars, poolVars, procVars, Spent
<1>0. /\ pc \in [Job -> PC] /\ registered \in [Job -> BOOLEAN]
      /\ hooks \in [Job -> 0..2]
      /\ canc \in [Job -> [pc : CancelPC, proc : Proc \cup {NoProc},
                           signalled : BOOLEAN]]
      /\ \A p \in Proc : \A j \in Job : InQueue(pool[p], j) => pc[j] = "queued"
  BY DEF TypeOK, SlotInv, QueueExclusive
<1>1. ASSUME NEW j \in Job, SpawnStep(j)
      PROVE  Indifferent(i)
  BY <1>0, <1>1 DEF SpawnStep, InsertRow, InsertFails, EnqueueJob, RejectJob,
                    Goto, Indifferent
<1>2. ASSUME NEW j \in Job, RunnerStep(j)
      PROVE  Indifferent(i)
  <2>1. CASE PromoteRow(j)
    <3>1. /\ pc[j] = "taken" /\ UNCHANGED <<registered, hooks, canc>>
          /\ \E l \in {"start", "dropped"} : pc' = [pc EXCEPT ![j] = l]
      BY <2>1 DEF PromoteRow, Goto
    <3> QED BY <1>0, <3>1 DEF Indifferent
  <2>2. CASE WrapUp(j) \/ ExitRunner(j)
    <3>1. j # i
      BY <2>2
    <3>2. pc'[i] = pc[i] /\ hooks'[i] = hooks[i]
      BY <1>0, <2>2, <3>1 DEF WrapUp, ExitRunner, Goto, FireHook
    <3>3. canc' = canc /\ (registered'[i] => registered[i])
      BY <1>0, <2>2, <3>1 DEF WrapUp, ExitRunner
    <3> QED BY <3>2, <3>3 DEF Indifferent
  <2>3. CASE \/ PromoteFails(j) \/ StartRunner(j) \/ RunnerFails(j)
             \/ SettleRow(j) \/ SettleLost(j)
    BY <1>0, <2>3 DEF PromoteFails, StartRunner, RunnerFails, SettleRow,
                      SettleLost, Goto, Indifferent
  <2> QED BY <1>2, <2>1, <2>2, <2>3 DEF RunnerStep
<1>3. ASSUME NEW j \in Job, ToolStep(j) \/ ToolCancelled(j) \/ PollCancelFlag(j)
      PROVE  Indifferent(i)
  BY <1>0, <1>3
     DEF ToolStep, ToolReturns, BudgetExpires, ParkApproval, ResumeApproval,
         DenyApproval, ToolCancelled, Dispatching, PollCancelFlag,
         EndDispatch, Goto, Indifferent
<1>4. ASSUME NEW j \in Job, CancelStep(j)
      PROVE  Indifferent(i)
  <2>1. j # i
    BY <1>4
  <2>2. pc'[i] = pc[i] /\ canc'[i] = canc[i] /\ hooks'[i] = hooks[i]
    BY <1>0, <1>4, <2>1
       DEF CancelStep, CancelUnqueue, CancelFlag, CancelTrip, CancelDismiss,
           CancelMark, CancelSettle, CancelAnnounce, CancelGoto, Goto, FireHook
  <2>3. registered'[i] => registered[i]
    BY <1>0, <1>4, <2>1
       DEF CancelStep, CancelUnqueue, CancelFlag, CancelTrip, CancelDismiss,
           CancelMark, CancelSettle, CancelAnnounce
  <2> QED BY <2>2, <2>3 DEF Indifferent
<1>5. ASSUME NEW j \in Job, NEW p \in Proc, Spawn(j, p) \/ Detach(j, p)
      PROVE  Indifferent(i)
  BY <1>0, <1>5 DEF Spawn, Detach, Goto, Indifferent
<1>6. ASSUME NEW j \in Job, NEW p \in Proc,
             BeginCancel(j, p) \/ InjectResult(p, j)
      PROVE  Indifferent(i)
  BY <1>0, <1>6 DEF BeginCancel, InjectResult, Indifferent
<1>7. ASSUME NEW p \in Proc, TakeJob(p)
      PROVE  Indifferent(i)
  <2>1. pool[p] \in Pool /\ CanTake(pool[p]) /\ IsInjective(pool[p].queue)
    BY <1>7 DEF TakeJob, TypeOK, SlotInv, QueueExclusive
  <2>2. NextJob(pool[p]) \in ToSet(pool[p].queue) /\ NextJob(pool[p]) \in Job
    BY <2>1, TakeEffect
  <2>3. pc[NextJob(pool[p])] = "queued"
    BY <1>0, <2>2 DEF InQueue
  <2>4. /\ pc' = [pc EXCEPT ![NextJob(pool[p])] = "taken"]
        /\ UNCHANGED <<registered, hooks, canc>>
    BY <1>7 DEF TakeJob, Goto
  <2> QED BY <1>0, <2>2, <2>3, <2>4 DEF Indifferent
<1>8. ASSUME NEW p \in Proc,
             WakeScheduler(p) \/ SchedulerParks(p) \/ StartProcess(p)
      PROVE  Indifferent(i)
  BY <1>8 DEF WakeScheduler, SchedulerParks, StartProcess, Indifferent
<1>9. ASSUME NEW p \in Proc, NEW s \in Session, PurgeSession(s, p)
      PROVE  Indifferent(i)
  <2>1. /\ pc'[i] = pc[i] \/ InQueue(pool[p], i)
        /\ UNCHANGED <<registered, hooks, canc>>
    BY <1>9 DEF PurgeSession
  <2> QED BY <1>0, <2>1 DEF Indifferent
<1>10. CASE UNCHANGED vars
  BY <1>10 DEF vars, Indifferent
<1> HIDE DEF jobVars, poolVars, procVars, Spent
<1> QED BY <1>1, <1>2, <1>3, <1>4, <1>5, <1>6, <1>7, <1>8, <1>9, <1>10
        DEF Next, SchedulerStep

(* A job about to start its runner was about to before, or has just been   *)
(* marked as running.                                                      *)
LEMMA StartComes ==
  ASSUME TypeOK, [Next]_vars, NEW i \in Job, pc'[i] = "start"
  PROVE  pc[i] = "start" \/ rows'[i].status = "running"
<1> USE DEF jobVars, poolVars, procVars
<1>0. rows \in [Job -> Row] /\ pc \in [Job -> PC] /\ rows[i] \in Row
  BY DEF TypeOK
<1>1. ASSUME NEW j \in Job, SpawnStep(j)
      PROVE  pc[i] = "start" \/ rows'[i].status = "running"
  BY <1>0, <1>1
     DEF SpawnStep, InsertRow, InsertFails, EnqueueJob, RejectJob, Goto,
         Update, NewRow, NoRow
<1>2. ASSUME NEW j \in Job, RunnerStep(j)
      PROVE  pc[i] = "start" \/ rows'[i].status = "running"
  <2>1. CASE PromoteRow(j)
    <3>1. CASE CanMarkRunning(rows[j])
      <4>1. rows' = [rows EXCEPT ![j] = MarkRunning(rows[j])]
        BY <2>1 DEF PromoteRow, Update
      <4>2. rows[j] \in Row
        BY DEF TypeOK
      <4>3. MarkRunning(rows[j]).status = "running"
        BY <3>1, <4>2 DEF MarkRunning, Row
      <4>4. j # i => pc'[i] = pc[i]
        BY <1>0, <2>1, <3>1 DEF PromoteRow, Goto
      <4> QED BY <1>0, <4>1, <4>3, <4>4
    <3>2. CASE ~CanMarkRunning(rows[j])
      BY <1>0, <2>1, <3>2 DEF PromoteRow, Goto
    <3> QED BY <3>1, <3>2
  <2>2. CASE ~PromoteRow(j)
    BY <1>0, <1>2, <2>2
       DEF RunnerStep, PromoteFails, StartRunner, RunnerFails, SettleRow,
           SettleLost, WrapUp, ExitRunner, Goto
  <2> QED BY <2>1, <2>2
<1>3. ASSUME NEW j \in Job,
             \/ ToolStep(j) \/ ToolCancelled(j)
             \/ PollCancelFlag(j) \/ CancelStep(j)
      PROVE  pc[i] = "start"
  BY <1>0, <1>3
     DEF ToolStep, ToolReturns, BudgetExpires, ParkApproval, ResumeApproval,
         DenyApproval, EndDispatch, ToolCancelled, PollCancelFlag, CancelStep,
         CancelUnqueue, CancelFlag, CancelTrip, CancelDismiss, CancelMark,
         CancelSettle, CancelAnnounce, Goto
<1>4. ASSUME NEW j \in Job, NEW p \in Proc,
             \/ Spawn(j, p) \/ Detach(j, p)
             \/ BeginCancel(j, p) \/ InjectResult(p, j)
      PROVE  pc[i] = "start"
  BY <1>0, <1>4 DEF Spawn, Detach, BeginCancel, InjectResult, Goto
<1>5. ASSUME NEW p \in Proc,
             \/ SchedulerStep(p) \/ ReplayStep(p) \/ StartProcess(p)
             \/ Crash(p) \/ \E s \in Session : PurgeSession(s, p)
      PROVE  pc[i] = "start"
  BY <1>0, <1>5
     DEF SchedulerStep, WakeScheduler, TakeJob, SchedulerParks, ReplayStep,
         ReplayList, ReplayPending, ReplayEnds, ReplayInterrupt,
         ReplayDispatch, StartProcess, Crash, PurgeSession, Goto
<1>6. CASE UNCHANGED vars
  BY <1>6 DEF vars
<1> HIDE DEF jobVars, poolVars, procVars
<1> QED BY <1>1, <1>2, <1>3, <1>4, <1>5, <1>6 DEF Next

(* Where there is one process, a cancel call that settles a row itself     *)
(* found no token, so the thread of its job is over or died, and no runner *)
(* starts on a row that was cancelled (cancel_job).                        *)
Settling(j) == canc[j].pc \in {"settle", "force", "announce"}

CancelsAlone(j) ==
  /\ Settling(j) => pc[j] \in Spent \cup {"gone"}
  /\ /\ canc[j].pc \in {"dismiss", "mark"}
     /\ ~canc[j].signalled
     => ~registered[j]
  /\ pc[j] = "start" => rows[j].status # "cancelled"

SoleInv == Proc = {Lead} => \A j \in Job : CancelsAlone(j)

(* Every step preserves that.                                              *)
LEMMA SoleStep ==
  ASSUME Typed, SlotInv, CallerKnown, RowInv, TokenInv, SoleInv, [Next]_vars
  PROVE  SoleInv'
<1> SUFFICES ASSUME Proc = {Lead}, NEW i \in Job
             PROVE  CancelsAlone(i)'
  BY DEF SoleInv
<1> USE DEF jobVars, poolVars, procVars
<1>0. /\ rows \in [Job -> Row] /\ rows[i] \in Row
      /\ pc \in [Job -> PC] /\ registered \in [Job -> BOOLEAN]
      /\ canc \in [Job -> [pc : CancelPC, proc : Proc \cup {NoProc},
                           signalled : BOOLEAN]]
  BY DEF Typed, TypeOK
<1>1. /\ Settling(i) => pc[i] \in Spent \cup {"gone"}
      /\ canc[i].pc \in {"dismiss", "mark"} /\ ~canc[i].signalled
           => ~registered[i]
      /\ pc[i] = "start" => rows[i].status # "cancelled"
  BY DEF SoleInv, CancelsAlone
<1>2. canc[i].pc # "idle" => Begun(i)
  BY DEF RowInv
<1> DEFINE Call == /\ Settling(i)' => pc'[i] \in Spent \cup {"gone"}
                   /\ /\ canc'[i].pc \in {"dismiss", "mark"}
                      /\ ~canc'[i].signalled
                      => ~registered'[i]
<1>3. ASSUME Indifferent(i)
      PROVE  Call
  <2>1. Settling(i)' => pc'[i] \in Spent \cup {"gone"}
    BY <1>1, <1>3 DEF Indifferent, Settling
  <2>2. canc'[i].pc \in {"dismiss", "mark"} /\ ~canc'[i].signalled
          => ~registered'[i]
    BY <1>1, <1>2, <1>3 DEF Indifferent, Begun
  <2> QED BY <2>1, <2>2
<1>4. ASSUME NEW p \in Proc, ReplayStep(p)
      PROVE  Call
  <2>1. UNCHANGED <<pc, canc, registered>>
    BY <1>4 DEF ReplayStep, ReplayList, ReplayPending, ReplayEnds,
                ReplayInterrupt, ReplayDispatch
  <2> QED BY <1>1, <2>1 DEF Settling
<1>5. ASSUME NEW p \in Proc, Crash(p)
      PROVE  Call
  <2>1. canc[i].pc # "idle" => canc[i].proc = p
    BY DEF CallerKnown
  <2>2. canc'[i].pc = "idle"
    BY <1>0, <1>5, <2>1 DEF Crash, Idle
  <2> QED BY <2>2 DEF Settling
<1>6. ASSUME NEW p \in Proc, BeginCancel(i, p)
      PROVE  Call
  <2>1. canc'[i].pc = "unqueue"
    BY <1>0, <1>6 DEF BeginCancel, Idle
  <2> QED BY <2>1 DEF Settling
<1>7. ASSUME WrapUp(i) \/ ExitRunner(i)
      PROVE  Call
  <2>1. /\ pc[i] \in {"wrapup", "exit"} /\ pc'[i] \in Spent /\ canc' = canc
        /\ registered'[i] => registered[i]
    BY <1>0, <1>7 DEF WrapUp, ExitRunner, Goto, Spent
  <2> QED BY <1>1, <2>1 DEF Settling
<1>8. ASSUME CancelUnqueue(i)
      PROVE  Call
  <2>1. CASE InQueue(pool[canc[i].proc], i)
    <3>1. pc'[i] = "unqueued" /\ canc'[i].pc = "settle"
      BY <1>0, <1>8, <2>1 DEF CancelUnqueue, Goto, CancelGoto
    <3> QED BY <3>1 DEF Settling, Spent
  <2>2. CASE ~InQueue(pool[canc[i].proc], i)
    <3>1. canc'[i].pc = "flag"
      BY <1>0, <1>8, <2>2 DEF CancelUnqueue, CancelGoto
    <3> QED BY <3>1 DEF Settling
  <2> QED BY <2>1, <2>2
<1>9. ASSUME CancelFlag(i)
      PROVE  Call
  <2>1. canc'[i].pc = "trip"
    BY <1>0, <1>9 DEF CancelFlag, CancelGoto
  <2> QED BY <2>1 DEF Settling
<1>10. ASSUME CancelTrip(i)
       PROVE  Call
  <2>1. /\ canc[i].pc = "trip" /\ canc'[i].pc = "dismiss"
        /\ canc'[i].signalled = (Owned(i) /\ registered[i])
        /\ registered' = registered
    BY <1>0, <1>10 DEF CancelTrip, CancelOf
  <2>2. Owned(i)
    <3>1. canc[i].proc \in Proc /\ home[i] \in Proc
      BY <1>2, <2>1 DEF CallerKnown, Begun, SlotInv, SeatFollowsPc
    <3> QED BY <3>1 DEF Owned
  <2> QED BY <1>0, <2>1, <2>2 DEF Settling
<1>11. ASSUME CancelDismiss(i)
       PROVE  Call
  <2>1. /\ canc[i].pc = "dismiss" /\ canc'[i].pc = "mark"
        /\ canc'[i].signalled = canc[i].signalled
        /\ registered' = registered
    BY <1>0, <1>11 DEF CancelDismiss, CancelOf, CancelGoto
  <2> QED BY <1>1, <2>1 DEF Settling
<1>12. ASSUME CancelMark(i)
       PROVE  Call
  <2>1. canc[i].pc = "mark" /\ pc' = pc
    BY <1>12 DEF CancelMark, CancelOf
  <2>2. CASE CanMarkCancelling(rows[i]) /\ ~canc[i].signalled
    <3>1. canc'[i].pc = "force"
      BY <1>0, <1>12, <2>2 DEF CancelMark, CancelGoto
    <3>2. pc[i] \in Spent \cup {"gone"}
      BY <1>1, <1>2, <2>1, <2>2 DEF TokenInv, Begun
    <3> QED BY <2>1, <3>1, <3>2
  <2>3. CASE ~(CanMarkCancelling(rows[i]) /\ ~canc[i].signalled)
    <3>1. canc'[i].pc = "idle"
      BY <1>0, <1>12, <2>3 DEF CancelMark, Idle
    <3> QED BY <3>1 DEF Settling
  <2> QED BY <2>2, <2>3
<1>13. ASSUME CancelSettle(i)
       PROVE  Call
  <2>1. Settling(i) /\ canc'[i].pc = "announce" /\ pc' = pc
    BY <1>0, <1>13 DEF CancelSettle, CancelOf, CancelGoto, Settling
  <2> QED BY <1>1, <2>1
<1>14. ASSUME CancelAnnounce(i)
       PROVE  Call
  <2>1. canc'[i].pc = "idle"
    BY <1>0, <1>14 DEF CancelAnnounce, Idle
  <2> QED BY <2>1 DEF Settling
<1> HIDE DEF jobVars, poolVars, procVars, Call
<1>15. ASSUME CancelStep(i)
       PROVE  Call
  BY <1>8, <1>9, <1>10, <1>11, <1>12, <1>13, <1>14, <1>15 DEF CancelStep
<1>16. Call
  <2>1. CASE /\ ~WrapUp(i) /\ ~ExitRunner(i) /\ ~CancelStep(i)
             /\ \A p \in Proc : /\ ~Crash(p) /\ ~ReplayStep(p)
                                /\ ~BeginCancel(i, p)
    BY <1>3, <2>1, MostAreIndifferent DEF Typed
  <2> QED BY <1>4, <1>5, <1>6, <1>7, <1>15, <2>1
<1>17. ASSUME pc'[i] = "start", rows'[i].status = "cancelled"
       PROVE  FALSE
  <2>0. "cancelled" \in Terminal \ Active /\ "interrupted" \in Terminal
    BY DEF Terminal, Active
  <2>1. pc[i] = "start"
    BY <1>17, StartComes DEF Typed
  <2>2. rows[i].status \in Active \cup Terminal
    BY <1>17, <2>0, TerminalComes
  <2>3. CASE rows[i].status \notin Active
    <3>1. IsOver(i)
      BY <2>1, <2>3 DEF IsOver, Begun
    <3>2. rows'[i].status \in {rows[i].status, "absent"}
      BY <3>1, OverStays
    <3> QED BY <1>1, <1>17, <2>1, <3>2
  <2>4. CASE rows[i].status \in Active
    <3>1. \/ pc'[i] = "wrapup" \/ canc'[i].pc = "announce"
          \/ \E p \in Proc : ReplayInterrupt(p, i)
      BY <1>17, <2>0, <2>4, SettledBy
    <3>2. canc'[i].pc # "announce"
      BY <1>16, <1>17 DEF Call, Settling, Spent
    <3>3. ASSUME NEW p \in Proc, ReplayInterrupt(p, i)
          PROVE  FALSE
      <4>1. rows'[i] = Settle(rows[i], "interrupted")
        BY <1>0, <3>3 DEF ReplayInterrupt, Update
      <4>2. rows'[i].status = "interrupted"
        BY <1>0, <2>0, <2>4, <4>1, SettledIsSettled
      <4> QED BY <1>17, <4>2
    <3> QED BY <1>17, <3>1, <3>2, <3>3
  <2> QED BY <2>3, <2>4
<1> QED BY <1>16, <1>17 DEF Call, CancelsAlone

(* It holds in every state.                                                *)
LEMMA SoleInvariant == Spec => []SoleInv
<1>1. Init => SoleInv
  BY DEF Init, SoleInv, CancelsAlone, Settling, Idle
<1> QED BY <1>1, SoleStep, RowInvariant, TokenInvariant, Invariants, PTL
        DEF Spec

-----------------------------------------------------------------------------
(* Results.  The verdict of a thread changes only while its dispatch runs, *)
(* or when its runtime cannot be built.                                    *)
LEMMA VerdictStays ==
  ASSUME TypeOK, [Next]_vars, NEW j \in Job, pc[j] = "wrapup"
  PROVE  verdict'[j] = verdict[j]
<1> USE DEF jobVars, poolVars, procVars
<1>1. ASSUME NEW i \in Job, SpawnStep(i) \/ CancelStep(i)
      PROVE  verdict' = verdict
  BY <1>1
     DEF SpawnStep, InsertRow, InsertFails, EnqueueJob, RejectJob, CancelStep,
         CancelUnqueue, CancelFlag, CancelTrip, CancelDismiss, CancelMark,
         CancelSettle, CancelAnnounce
<1>2. ASSUME NEW i \in Job, RunnerStep(i)
      PROVE  verdict'[j] = verdict[j]
  BY <1>2
     DEF RunnerStep, PromoteRow, PromoteFails, StartRunner, RunnerFails,
         SettleRow, SettleLost, WrapUp, ExitRunner, TypeOK
<1>3. ASSUME NEW i \in Job, ToolStep(i) \/ ToolCancelled(i) \/ PollCancelFlag(i)
      PROVE  verdict'[j] = verdict[j]
  BY <1>3 DEF ToolStep, ToolReturns, BudgetExpires, ParkApproval,
              ResumeApproval, DenyApproval, ToolCancelled, Dispatching,
              PollCancelFlag, EndDispatch, TypeOK
<1>4. ASSUME NEW i \in Job, NEW p \in Proc,
             \/ Spawn(i, p) \/ Detach(i, p)
             \/ BeginCancel(i, p) \/ InjectResult(p, i)
      PROVE  verdict' = verdict
  BY <1>4 DEF Spawn, Detach, BeginCancel, InjectResult
<1>5. ASSUME NEW p \in Proc,
             \/ SchedulerStep(p) \/ ReplayStep(p) \/ StartProcess(p)
             \/ Crash(p) \/ \E s \in Session : PurgeSession(s, p)
      PROVE  verdict' = verdict
  BY <1>5 DEF SchedulerStep, WakeScheduler, TakeJob, SchedulerParks, ReplayStep,
              ReplayList, ReplayPending, ReplayEnds, ReplayInterrupt,
              ReplayDispatch, StartProcess, Crash, PurgeSession
<1>6. CASE UNCHANGED vars
  BY <1>6 DEF vars
<1> QED BY <1>1, <1>2, <1>3, <1>4, <1>5, <1>6 DEF Next

(* A runner wraps up a cancelled row only when it cancelled it itself, and *)
(* it goes by the verdict it reached.                                      *)
WroteVerdict ==
  \A j \in Job :
    pc[j] = "wrapup" /\ rows[j].status = "cancelled" =>
      verdict[j] = "cancelled"

(* Every step preserves both that and the property: what is handed over    *)
(* was not cancelled when it was, and is settled for good.                 *)
LEMMA ResultStep ==
  ASSUME ~BuildFaults \/ Proc = {Lead}, Typed, Typed', RowInv, SoleInv,
         WroteVerdict, CancelledNotInjected, [Next]_vars
  PROVE  WroteVerdict' /\ CancelledNotInjected'
<1>1. ASSUME NEW j \in Job, pc'[j] = "wrapup", rows'[j].status = "cancelled"
      PROVE  verdict'[j] = "cancelled"
  <2>1. pc[j] = "wrapup" \/ RunnerFails(j) \/ SettleRow(j)
    BY <1>1, WrapUpStarts DEF Typed
  <2>2. CASE pc[j] = "wrapup"
    <3>1. rows'[j].status \in {rows[j].status, "absent"}
      BY <2>2, OverStays DEF RowInv
    <3>2. verdict'[j] = verdict[j]
      BY <2>2, VerdictStays DEF Typed
    <3> QED BY <1>1, <2>2, <3>1, <3>2 DEF WroteVerdict
  <2>3. CASE SettleRow(j)
    <3>1. /\ verdict[j] \in Terminal /\ verdict'[j] = verdict[j]
          /\ rows[j] \in Row /\ rows[j].status \in Active
          /\ rows'[j] = Settle(rows[j], verdict[j])
      BY <2>3 DEF SettleRow, CanSettle, Update, Typed, VerdictKnown, TypeOK,
                  Verdict, Terminal
    <3> QED BY <1>1, <3>1, SettledIsSettled
  <2>4. CASE RunnerFails(j)
    <3>1. rows[j].status # "cancelled"
      BY <2>4 DEF RunnerFails, SoleInv, CancelsAlone
    <3>2. rows[j] \in Row /\ rows'[j] = Settle(rows[j], "failed")
      BY <2>4 DEF RunnerFails, Update, Typed, TypeOK
    <3>3. "failed" \in Terminal
      BY DEF Terminal
    <3> QED BY <1>1, <3>1, <3>2, <3>3, SettledIsSettled
  <2> QED BY <2>1, <2>2, <2>3, <2>4
<1>2. ASSUME NEW p \in Proc, NEW j \in handed'[p]
      PROVE  rows'[j].status # "cancelled"
  <2>1. /\ j \in Job
        /\ \/ j \in handed[p]
           \/ WrapUp(j) /\ home[j] = p
           \/ ReplayDispatch(p, j)
    BY <1>2, HandedBy DEF Typed
  <2>2. CASE j \in handed[p]
    <3>1. rows[j].status # "cancelled" /\ IsOver(j)
      BY <2>2 DEF CancelledNotInjected, RowInv
    <3> QED BY <2>1, <3>1, OverStays
  <2>3. CASE WrapUp(j) /\ j \notin handed[p]
    <3>1. verdict[j] # "cancelled" /\ pc[j] = "wrapup"
      <4>1. handed'[p] # handed[p]
        BY <1>2, <2>3
      <4> QED BY <2>3, <4>1 DEF WrapUp
    <3>2. IsOver(j) /\ rows[j].status # "cancelled"
      BY <2>1, <3>1 DEF RowInv, WroteVerdict
    <3> QED BY <2>1, <3>2, OverStays
  <2>4. CASE ReplayDispatch(p, j) /\ j \notin handed[p]
    <3>1. rows[j].status # "cancelled" /\ IsOver(j)
      <4>1. handed'[p] # handed[p]
        BY <1>2, <2>4
      <4> QED BY <2>1, <2>4, <4>1 DEF ReplayDispatch, RowInv
    <3> QED BY <2>1, <3>1, OverStays
  <2> QED BY <2>1, <2>2, <2>3, <2>4
<1> QED BY <1>1, <1>2 DEF WroteVerdict, CancelledNotInjected

(* A cancelled job starts no turn of its parent session, however the       *)
(* cancel, the runner, the other processes and the replays interleave and  *)
(* crash, provided that runtimes can be built or that there is one process *)
(* (mod.rs: "any late runner completion is ignored by update_terminal's    *)
(* active-status guard").                                                  *)
THEOREM CancelledStartsNoTurn ==
  ASSUME ~BuildFaults \/ Proc = {Lead} PROVE Spec => []CancelledNotInjected
<1>1. Init => WroteVerdict /\ CancelledNotInjected
  BY DEF Init, WroteVerdict, CancelledNotInjected
<1>2. Typed /\ Typed' /\ RowInv /\ SoleInv /\ WroteVerdict
        /\ CancelledNotInjected /\ [Next]_vars
        => WroteVerdict' /\ CancelledNotInjected'
  BY ResultStep
<1> QED BY <1>1, <1>2, RowInvariant, SoleInvariant, PTL DEF Spec

-----------------------------------------------------------------------------
(* Hooks.  While the one process there is lives, whoever fires the hook of *)
(* a job is the only one to: a runner that wraps up settled the row, and a *)
(* cancel call settles only a job whose thread is over.                    *)
Announced(j) ==
  rows[j].status \in Terminal =>
    hooks[j] = 1 \/ pc[j] = "wrapup" \/ CancelOf(j, "announce")

HookOf(j) ==
  /\ hooks[j] # 0 => pc[j] \in {"exit", "done"} /\ IsOver(j)
  /\ Settling(j) => hooks[j] = 0
  /\ hooks[j] \in {0, 1}
  /\ Announced(j)

HookInv ==
  crashes = 0 =>
    /\ up = Proc /\ \A p \in Proc : replay[p].pc = "off"
    /\ \A j \in Job : HookOf(j)

(* While no process has died, no step is a crash, a start or a replay.     *)
LEMMA StayingUp ==
  ASSUME TypeOK, HookInv, [Next]_vars, crashes' = 0
  PROVE  /\ crashes = 0 /\ UNCHANGED <<up, replay>>
         /\ \A p \in Proc : /\ ~Crash(p) /\ ~StartProcess(p)
                            /\ ~ReplayStep(p)
                            /\ \A j \in Job : ~ReplayInterrupt(p, j)
<1> USE DEF jobVars, poolVars, procVars
<1>1. ASSUME NEW p \in Proc
      PROVE  ~Crash(p)
  <2>1. crashes \in Nat
    BY ProcAssumption DEF TypeOK
  <2> QED BY <2>1 DEF Crash
<1>2. ASSUME NEW j \in Job,
             \/ SpawnStep(j) \/ RunnerStep(j) \/ ToolStep(j) \/ CancelStep(j)
             \/ ToolCancelled(j) \/ PollCancelFlag(j)
      PROVE  UNCHANGED <<up, replay, crashes>>
  BY <1>2
     DEF SpawnStep, InsertRow, InsertFails, EnqueueJob, RejectJob, ToolStep,
         ToolReturns, BudgetExpires, ParkApproval, ResumeApproval,
         DenyApproval, EndDispatch, CancelStep, CancelUnqueue, CancelFlag,
         CancelTrip, CancelDismiss, CancelMark, CancelSettle, CancelAnnounce,
         RunnerStep, PromoteRow, PromoteFails, StartRunner, RunnerFails,
         SettleRow, SettleLost, WrapUp, ExitRunner, ToolCancelled,
         PollCancelFlag
<1>3. ASSUME NEW p \in Proc,
             \/ SchedulerStep(p) \/ \E s \in Session : PurgeSession(s, p)
             \/ \E j \in Job : \/ Spawn(j, p) \/ Detach(j, p)
                               \/ BeginCancel(j, p) \/ InjectResult(p, j)
      PROVE  UNCHANGED <<up, replay, crashes>>
  BY <1>3 DEF Spawn, Detach, BeginCancel, InjectResult, SchedulerStep,
              WakeScheduler, TakeJob, SchedulerParks, PurgeSession
<1>4. ASSUME NEW p \in Proc, ReplayStep(p) \/ StartProcess(p)
      PROVE  crashes' = crashes
  BY <1>4 DEF ReplayStep, ReplayList, ReplayPending, ReplayEnds,
              ReplayInterrupt, ReplayDispatch, StartProcess
<1>5. ASSUME UNCHANGED vars
      PROVE  UNCHANGED <<up, replay, crashes>>
  BY <1>5 DEF vars
<1> HIDE DEF jobVars, poolVars, procVars
<1>6. crashes = 0
  BY <1>1, <1>2, <1>3, <1>4, <1>5 DEF Next
<1>7. \A p \in Proc : /\ ~StartProcess(p) /\ ~ReplayStep(p)
                      /\ \A j \in Job : ~ReplayInterrupt(p, j)
  <2>1. up = Proc /\ \A p \in Proc : replay[p].pc = "off"
    BY <1>6 DEF HookInv
  <2> QED BY <2>1 DEF StartProcess, ReplayStep, ReplayList, ReplayPending,
                      ReplayEnds, ReplayInterrupt, ReplayDispatch
<1>8. UNCHANGED <<up, replay>>
  BY <1>1, <1>2, <1>3, <1>5, <1>7 DEF Next
<1> QED BY <1>1, <1>6, <1>7, <1>8

(* Every step preserves it, for each job: the steps that concern its hook  *)
(* are those of its runner's end and of its cancel call.                   *)
LEMMA HookStep ==
  ASSUME Proc = {Lead}, Typed, SlotInv, CallerKnown, RowInv, TokenInv, SoleInv,
         HookInv, [Next]_vars, crashes' = 0, NEW i \in Job
  PROVE  HookOf(i)'
<1> USE DEF jobVars, poolVars, procVars
<1>0. /\ rows \in [Job -> Row] /\ rows[i] \in Row
      /\ pc \in [Job -> PC] /\ registered \in [Job -> BOOLEAN]
      /\ hooks \in [Job -> 0..2]
      /\ canc \in [Job -> [pc : CancelPC, proc : Proc \cup {NoProc},
                           signalled : BOOLEAN]]
      /\ Active \cap Terminal = {}
  BY DEF Typed, TypeOK, Active, Terminal
<1>1. /\ crashes = 0
      /\ \A p \in Proc : /\ ~Crash(p) /\ ~StartProcess(p) /\ ~ReplayStep(p)
                         /\ \A j \in Job : ~ReplayInterrupt(p, j)
  BY StayingUp DEF Typed
<1>2. /\ hooks[i] # 0 => pc[i] \in {"exit", "done"} /\ IsOver(i)
      /\ Settling(i) => pc[i] \in Spent /\ hooks[i] = 0
      /\ hooks[i] \in {0, 1}
      /\ Announced(i)
  <2>1. HookOf(i)
    BY <1>1 DEF HookInv
  <2>2. Settling(i) => pc[i] \in Spent
    BY <1>1 DEF SoleInv, CancelsAlone, TokenInv
  <2> QED BY <2>1, <2>2 DEF HookOf
<1>3. /\ IsOver(i) => IsOver(i)'
      /\ pc[i] = "wrapup" \/ CancelOf(i, "announce") => IsOver(i)
      /\ canc[i].pc # "idle" => Begun(i)
  BY OverStays DEF RowInv, CancelOf
<1>4. ASSUME hooks'[i] = hooks[i], pc[i] = "wrapup" => pc'[i] = "wrapup",
             CancelOf(i, "announce") => CancelOf(i, "announce")'
      PROVE  Announced(i)'
  <2> SUFFICES ASSUME rows'[i].status \in Terminal
               PROVE  hooks'[i] = 1 \/ pc'[i] = "wrapup"
                        \/ CancelOf(i, "announce")'
    BY DEF Announced
  <2>1. CASE rows[i].status \in Terminal
    BY <1>2, <1>4, <2>1 DEF Announced
  <2>2. CASE rows[i].status \in Active
    BY <1>1, <2>2, SettledBy DEF CancelOf
  <2> QED BY <2>1, <2>2, TerminalComes
<1>5. ASSUME Indifferent(i)
      PROVE  HookOf(i)'
  <2>1. Announced(i)'
    BY <1>4, <1>5 DEF Indifferent, CancelOf
  <2>2. hooks'[i] # 0 => pc'[i] \in {"exit", "done"} /\ IsOver(i)'
    BY <1>2, <1>3, <1>5 DEF Indifferent, Spent
  <2>3. Settling(i)' => hooks'[i] = 0
    BY <1>2, <1>5 DEF Indifferent, Settling
  <2> QED BY <2>1, <2>2, <2>3, <1>2, <1>5 DEF HookOf, Indifferent
<1>6. ASSUME NEW p \in Proc, BeginCancel(i, p)
      PROVE  HookOf(i)'
  <2>1. /\ canc[i].pc = "idle" /\ canc'[i].pc = "unqueue"
        /\ UNCHANGED <<pc, hooks>>
    BY <1>0, <1>6 DEF BeginCancel, CancelOf, Idle
  <2>2. Announced(i)'
    BY <1>4, <2>1 DEF CancelOf
  <2> QED BY <1>2, <1>3, <2>1, <2>2 DEF HookOf, Settling
<1>7. CASE WrapUp(i)
  <2>1. /\ pc[i] = "wrapup" /\ pc'[i] = "exit" /\ canc' = canc
        /\ hooks' = [hooks EXCEPT ![i] = IF @ < 2 THEN @ + 1 ELSE 2]
    BY <1>0, <1>7 DEF WrapUp, Goto, FireHook
  <2>2. hooks[i] = 0
    BY <1>2, <2>1
  <2>3. hooks'[i] = 1
    BY <1>0, <2>1, <2>2
  <2>4. ~Settling(i)'
    BY <1>2, <2>1 DEF Settling, Spent
  <2> QED BY <1>3, <2>1, <2>3, <2>4 DEF HookOf, Announced
<1>8. CASE ExitRunner(i)
  <2>1. /\ pc[i] = "exit" /\ pc'[i] = "done"
        /\ UNCHANGED <<canc, hooks>>
    BY <1>0, <1>8 DEF ExitRunner, Goto
  <2>2. Announced(i)'
    BY <1>4, <2>1 DEF CancelOf
  <2> QED BY <1>2, <1>3, <2>1, <2>2 DEF HookOf, Settling, Spent
<1>9. CASE CancelUnqueue(i)
  <2>1. canc[i].pc = "unqueue" /\ hooks' = hooks
    BY <1>9 DEF CancelUnqueue, CancelOf
  <2>2. CASE InQueue(pool[canc[i].proc], i)
    <3>1. pc[i] = "queued"
      BY <2>1, <2>2 DEF CallerKnown, SlotInv, QueueExclusive
    <3>2. pc'[i] = "unqueued" /\ canc'[i].pc = "settle"
      BY <1>0, <1>9, <2>2 DEF CancelUnqueue, Goto, CancelGoto
    <3>3. hooks[i] = 0
      BY <1>2, <3>1
    <3>4. Announced(i)'
      BY <1>4, <2>1, <3>1 DEF CancelOf
    <3> QED BY <2>1, <3>2, <3>3, <3>4 DEF HookOf, Settling, Spent
  <2>3. CASE ~InQueue(pool[canc[i].proc], i)
    <3>1. canc'[i].pc = "flag" /\ UNCHANGED <<pc, hooks>>
      BY <1>0, <1>9, <2>3 DEF CancelUnqueue, CancelGoto
    <3>2. Announced(i)'
      BY <1>4, <2>1, <3>1 DEF CancelOf
    <3> QED BY <1>2, <1>3, <3>1, <3>2 DEF HookOf, Settling
  <2> QED BY <2>2, <2>3
<1>10. CASE CancelFlag(i)
  <2>1. /\ canc[i].pc = "flag" /\ canc'[i].pc = "trip"
        /\ UNCHANGED <<pc, hooks>>
    BY <1>0, <1>10 DEF CancelFlag, CancelOf, CancelGoto
  <2>2. Announced(i)'
    BY <1>4, <2>1 DEF CancelOf
  <2> QED BY <1>2, <1>3, <2>1, <2>2 DEF HookOf, Settling
<1>11. CASE CancelTrip(i)
  <2>1. /\ canc[i].pc = "trip" /\ canc'[i].pc = "dismiss"
        /\ UNCHANGED <<pc, hooks>>
    BY <1>0, <1>11 DEF CancelTrip, CancelOf
  <2>2. Announced(i)'
    BY <1>4, <2>1 DEF CancelOf
  <2> QED BY <1>2, <1>3, <2>1, <2>2 DEF HookOf, Settling
<1>12. CASE CancelDismiss(i)
  <2>1. /\ canc[i].pc = "dismiss" /\ canc'[i].pc = "mark"
        /\ hooks' = hooks
        /\ pc'[i] = pc[i] \/ pc[i] = "parked"
    BY <1>0, <1>12 DEF CancelDismiss, CancelOf, CancelGoto
  <2>2. Announced(i)'
    BY <1>4, <2>1 DEF CancelOf
  <2> QED BY <1>2, <1>3, <2>1, <2>2 DEF HookOf, Settling
<1>13. CASE CancelMark(i)
  <2>1. canc[i].pc = "mark" /\ UNCHANGED <<pc, hooks>>
    BY <1>13 DEF CancelMark, CancelOf
  <2>2. Announced(i)'
    BY <1>4, <2>1 DEF CancelOf
  <2>3. CASE CanMarkCancelling(rows[i]) /\ ~canc[i].signalled
    <3>1. canc'[i].pc = "force"
      BY <1>0, <1>13, <2>3 DEF CancelMark, CancelGoto
    <3>2. hooks[i] = 0
      BY <1>2, <2>3 DEF IsOver, CanMarkCancelling
    <3> QED BY <2>1, <2>2, <3>1, <3>2 DEF HookOf, Settling
  <2>4. CASE ~(CanMarkCancelling(rows[i]) /\ ~canc[i].signalled)
    <3>1. canc'[i].pc = "idle"
      BY <1>0, <1>13, <2>4 DEF CancelMark, Idle
    <3> QED BY <1>2, <1>3, <2>1, <2>2, <3>1 DEF HookOf, Settling
  <2> QED BY <2>3, <2>4
<1>14. CASE CancelSettle(i)
  <2>1. /\ Settling(i) /\ canc'[i].pc = "announce"
        /\ UNCHANGED <<pc, hooks>>
    BY <1>0, <1>14 DEF CancelSettle, CancelOf, CancelGoto, Settling
  <2> QED BY <1>2, <2>1 DEF HookOf, Settling, Announced, CancelOf
<1>15. CASE CancelAnnounce(i)
  <2>1. /\ canc[i].pc = "announce" /\ canc'[i].pc = "idle"
        /\ hooks' = [hooks EXCEPT ![i] = IF @ < 2 THEN @ + 1 ELSE 2]
        /\ pc'[i] = IF pc[i] = "unqueued" THEN "done" ELSE pc[i]
    BY <1>0, <1>15 DEF CancelAnnounce, CancelOf, FireHook, Goto, Idle
  <2>2. hooks[i] = 0 /\ pc[i] \in Spent
    BY <1>2, <2>1 DEF Settling
  <2>3. hooks'[i] = 1
    BY <1>0, <2>1, <2>2
  <2>4. pc'[i] \in {"exit", "done"} /\ IsOver(i)'
    BY <1>3, <2>1, <2>2 DEF Spent, CancelOf
  <2> QED BY <2>1, <2>3, <2>4 DEF HookOf, Settling, Announced
<1> HIDE DEF jobVars, poolVars, procVars
<1>16. CASE CancelStep(i)
  BY <1>9, <1>10, <1>11, <1>12, <1>13, <1>14, <1>15, <1>16 DEF CancelStep
<1>17. CASE /\ ~WrapUp(i) /\ ~ExitRunner(i) /\ ~CancelStep(i)
            /\ \A p \in Proc : ~BeginCancel(i, p)
  BY <1>1, <1>5, <1>17, MostAreIndifferent DEF Typed
<1> QED BY <1>6, <1>7, <1>8, <1>16, <1>17

(* The hooks see every terminal job, and see it once, as long as the one   *)
(* process there is lives, also when statements and builds fail: a runner  *)
(* and a cancel call never both announce a job, and none settles it in     *)
(* silence (finalize_job, start_runner, cancel_job; contract H4).          *)
THEOREM HooksSeeJobsOnce ==
  ASSUME Proc = {Lead} PROVE Spec => []HookedOnce
<1> DEFINE Inv == /\ Typed /\ SlotInv /\ CallerKnown /\ RowInv /\ TokenInv
                  /\ SoleInv
<1>1. Init => HookInv
  BY DEF Init, HookInv, HookOf, NoReplay, Idle, NoRow, Settling, Announced,
         Terminal
<1>2. Inv /\ HookInv /\ [Next]_vars => HookInv'
  <2> SUFFICES ASSUME Inv, HookInv, [Next]_vars, crashes' = 0
               PROVE  /\ up' = Proc /\ \A p \in Proc : replay'[p].pc = "off"
                      /\ \A j \in Job : HookOf(j)'
    BY DEF HookInv
  <2>1. up' = Proc /\ \A p \in Proc : replay'[p].pc = "off"
    BY StayingUp DEF Typed, HookInv
  <2> QED BY <2>1, HookStep
<1>3. HookInv => HookedOnce
  BY DEF HookInv, HookOf, HookedOnce, Announced
<1> QED BY <1>1, <1>2, <1>3, RowInvariant, TokenInvariant, SoleInvariant,
           Invariants, PTL DEF Spec
=============================================================================

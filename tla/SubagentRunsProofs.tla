--------------------------- MODULE SubagentRunsProofs ---------------------------
(***************************************************************************)
(* Theorems about SubagentRuns, for any runs, batches, cancel calls and    *)
(* limits: what is told of a run is told once and is not stranded, a run   *)
(* that was killed while parked does not come back, a cancelled batch is   *)
(* silent, and no row is left without somebody to drive it.                *)
(***************************************************************************)
EXTENDS SubagentRuns, SeqFilterProofs, FiniteSetTheorems

-----------------------------------------------------------------------------
(* Types.  The queue holds parked runs, each once, and the scheduler holds *)
(* a run only with a slot to give it.                                      *)
QueueInv ==
  /\ \A r \in ToSet(queue) : pc[r] = "parked"
  /\ sched.held # NoRun =>
       /\ sched.free > 0 /\ pc[sched.held] \in {"parked", "launch"}
       /\ sched.held \notin ToSet(queue)

(* A run is inserted once it has a row.  Whoever cancels a run read it     *)
(* from one.                                                               *)
Inserted(r) == pc[r] \notin {"new", "insert", "insertParked"}

CallInv ==
  \A c \in Call :
    /\ \A r \in call[c].todo : Inserted(r)
    /\ call[c].at \in {"claim", "signal", "stamp"} =>
         call[c].run \in Run /\ Inserted(call[c].run)

(* The runs that count against the limit are finitely many.                *)
FiniteActive == IsFiniteSet(Active)

(* What the queue is after each step that changes it.                      *)
LEMMA QueueChange ==
  ASSUME TypeOK, QueueInv, [Next]_vars
  PROVE  /\ queue' \in Seq(Run) /\ IsInjective(queue')
         /\ \/ ToSet(queue') \subseteq ToSet(queue)
            \/ \E r \in Run : /\ Enqueue(r)
                              /\ ToSet(queue') = ToSet(queue) \cup {r}
<1> USE DEF spawnVars, tables, memory, history
<1>0. queue \in Seq(Run) /\ IsInjective(queue)
  BY DEF TypeOK
<1>1. ASSUME NEW r \in Run, Enqueue(r)
      PROVE  /\ queue' \in Seq(Run) /\ IsInjective(queue')
             /\ ToSet(queue') = ToSet(queue) \cup {r}
  <2>1. queue' = Append(queue, r) /\ r \notin ToSet(queue)
    BY <1>1 DEF Enqueue, QueueInv
  <2> QED BY <1>0, <2>1, Pushed
<1> DEFINE Less == /\ queue' \in Seq(Run) /\ IsInjective(queue')
                   /\ ToSet(queue') \subseteq ToSet(queue)
<1>2. ASSUME queue' = queue
      PROVE  Less
  BY <1>0, <1>2
<1>3. ASSUME queue' = <<>>
      PROVE  Less
  BY <1>3 DEF ToSet, IsInjective
<1>4. ASSUME SchedulerTakes
      PROVE  Less
  <2>1. \/ queue' = queue
        \/ queue # <<>> /\ queue' = Tail(queue)
    BY <1>4 DEF SchedulerTakes
  <2>2. CASE queue # <<>> /\ queue' = Tail(queue)
    BY <1>0, <2>2, TailOf
  <2> QED BY <1>2, <2>1, <2>2
<1>5. ASSUME NEW c \in Call, ClaimParked(c)
      PROVE  Less
  <2>1. queue' = Without(queue, {call[c].run})
    BY <1>5 DEF ClaimParked, Unpark
  <2> QED BY <1>0, <2>1, WithoutSpec
<1>6. ASSUME NEW c \in Call, CallBegins(c) \/ CallStep(c)
      PROVE  Less
  <2>1. CASE ClaimParked(c)
    BY <1>5, <2>1
  <2>2. CASE PurgeParked(c)
    BY <1>3, <2>2 DEF PurgeParked
  <2>3. CASE \/ CallBegins(c) \/ MarkGroup(c) \/ NextChild(c)
             \/ Signal(c) \/ Stamp(c)
    <3>1. queue' = queue
      BY <2>3 DEF CallBegins, CancelProjection, Kill, CancelGroup, KillAll,
                  MarkGroup, NextChild, Signal, Stamp
    <3> QED BY <1>2, <3>1
  <2> QED BY <1>6, <2>1, <2>2, <2>3 DEF CallStep
<1>7. ASSUME NEW r \in Run,
             \/ CountActive(r) \/ InsertRun(r) \/ EnqueueFull(r)
             \/ TaskStep(r) \/ MarkFetched(r) \/ Promote(r) \/ PromoteLost(r)
      PROVE  Less
  <2>1. queue' = queue
    BY <1>7 DEF CountActive, InsertRun, EnqueueFull, TaskStep, Launch, TaskEnds,
                TaskCleansUp, MarkFetched, Promote, PromoteLost
  <2> QED BY <1>2, <2>1
<1>8. ASSUME NEW t \in Thread, CheckStep(t)
      PROVE  Less
  BY <1>2, <1>8 DEF CheckStep, LoadGroup, ClaimGroup
<1>9. ASSUME SpawnGroup \/ SealGroup \/ SchedulerCounts
      PROVE  Less
  BY <1>2, <1>9 DEF SpawnGroup, SealGroup, SchedulerCounts
<1>10. ASSUME Restart
       PROVE  Less
  BY <1>3, <1>10 DEF Restart
<1>11. ASSUME UNCHANGED vars
       PROVE  Less
  BY <1>2, <1>11 DEF vars
<1> HIDE DEF Less
<1>12. Less \/ \E r \in Run : Enqueue(r)
  BY <1>4, <1>6, <1>7, <1>8, <1>9, <1>10, <1>11
     DEF Next, SpawnStep, SchedulerStep
<1> QED BY <1>1, <1>12 DEF Less

(* A step writes at most one row, or is the restart.                       *)
LEMMA RowWritten ==
  ASSUME TypeOK, [Next]_vars
  PROVE  \/ UNCHANGED row
         \/ Restart
         \/ \E r \in Run : \E s : row' = [row EXCEPT ![r] = s]
<1> USE DEF spawnVars, tables, memory, history
<1>1. ASSUME NEW r \in Run,
             \/ SpawnStep(r) \/ TaskStep(r) \/ Promote(r)
      PROVE  UNCHANGED row \/ \E s : row' = [row EXCEPT ![r] = s]
  BY <1>1 DEF SpawnStep, InsertRun, InsertRow, Enqueue, EnqueueFull, TaskStep,
              Launch, TaskEnds, TaskCleansUp, Promote
<1>2. ASSUME NEW r \in Run, CountActive(r) \/ MarkFetched(r) \/ PromoteLost(r)
      PROVE  UNCHANGED row
  BY <1>2 DEF CountActive, MarkFetched, PromoteLost
<1>3. ASSUME NEW c \in Call, CallBegins(c) \/ CallStep(c)
      PROVE  UNCHANGED row \/ \E r \in Run : \E s : row' = [row EXCEPT ![r] = s]
  <2>1. CASE Stamp(c)
    <3>1. row' = [row EXCEPT ![call[c].run] = "killed"]
      BY <2>1 DEF Stamp
    <3>2. call[c].run \notin Run => row' = row
      BY <3>1 DEF TypeOK
    <3> QED BY <3>1, <3>2
  <2>2. CASE CallBegins(c) \/ (CallStep(c) /\ ~Stamp(c))
    BY <2>2 DEF CallBegins, CancelProjection, CancelGroup, Kill, KillAll,
                CallStep, MarkGroup, PurgeParked, NextChild, ClaimParked,
                Unpark, Signal
  <2> QED BY <1>3, <2>1, <2>2
<1>4. ASSUME NEW t \in Thread, CheckStep(t)
      PROVE  UNCHANGED row
  BY <1>4 DEF CheckStep, LoadGroup, ClaimGroup
<1>5. ASSUME \/ SpawnGroup \/ SealGroup \/ SchedulerCounts \/ SchedulerTakes
             \/ UNCHANGED vars
      PROVE  UNCHANGED row
  BY <1>5 DEF SpawnGroup, SealGroup, SchedulerCounts, SchedulerTakes, vars
<1> HIDE DEF spawnVars, tables, memory, history
<1> QED BY <1>1, <1>2, <1>3, <1>4, <1>5 DEF Next, SchedulerStep

(* So the active runs stay finitely many, whatever there are of runs.      *)
LEMMA FiniteStep ==
  ASSUME TypeOK, FiniteActive, [Next]_vars
  PROVE  FiniteActive'
<1>1. CASE UNCHANGED row
  BY <1>1 DEF FiniteActive, Active
<1>2. CASE Restart
  <2>1. Active' = {}
    BY <1>2 DEF Restart, Active, Terminal, TypeOK
  <2> QED BY <2>1, FS_EmptySet DEF FiniteActive
<1>3. ASSUME NEW r \in Run, NEW s, row' = [row EXCEPT ![r] = s]
      PROVE  FiniteActive'
  <2>1. Active' \subseteq Active \cup {r}
    BY <1>3 DEF Active, TypeOK
  <2>2. IsFiniteSet(Active \cup {r})
    BY FS_AddElement DEF FiniteActive
  <2> QED BY <2>1, <2>2, FS_Subset DEF FiniteActive
<1> QED BY <1>1, <1>2, <1>3, RowWritten

(* The records of the cancel calls.                                        *)
CallRec == [kind : Kind \cup {"none"}, at : CallAt, run : Run \cup {NoRun},
            todo : SUBSET Run]

(* Every step keeps them so.                                               *)
LEMMA CallTyped ==
  ASSUME TypeOK, NEW c \in Call, CallBegins(c) \/ CallStep(c)
  PROVE  call' \in [Call -> CallRec]
<1>0. call \in [Call -> CallRec] /\ call[c] \in CallRec
      /\ ToSet(queue) \subseteq Run /\ grouped \subseteq Run
  <2>1. ToSet(queue) \subseteq Run
    BY ElementOfSeq, LenProperties DEF ToSet, TypeOK
  <2> QED BY <2>1 DEF TypeOK, CallRec
<1>1. ASSUME NEW k \in Kind, NEW l \in CallAt, NEW r \in Run \cup {NoRun},
             Begin(c, k, l, r)
      PROVE  call' \in [Call -> CallRec]
  BY <1>0, <1>1 DEF Begin, CallRec
<1>2. ASSUME NEW l \in CallAt, Step(c, l)
      PROVE  call' \in [Call -> CallRec]
  BY <1>0, <1>2 DEF Step, CallRec
<1>3. ASSUME NEW T \in SUBSET Run,
             call' = [call EXCEPT ![c] = [@ EXCEPT !.at = "next", !.todo = T]]
      PROVE  call' \in [Call -> CallRec]
  <2>1. [call[c] EXCEPT !.at = "next", !.todo = T] \in CallRec
    BY <1>0 DEF CallRec, CallAt
  <2> QED BY <1>0, <1>3, <2>1
<1>4. ASSUME NEW r \in call[c].todo,
             call' = [call EXCEPT ![c] = [@ EXCEPT !.at = "claim", !.run = r,
                                          !.todo = call[c].todo \ {r}]]
      PROVE  call' \in [Call -> CallRec]
  <2> DEFINE rec == [call[c] EXCEPT !.at = "claim", !.run = r,
                                    !.todo = call[c].todo \ {r}]
  <2>1. rec \in CallRec
    BY <1>0 DEF CallRec, CallAt
  <2>2. call' = [call EXCEPT ![c] = rec]
    BY <1>4
  <2> HIDE DEF rec
  <2> QED BY <1>0, <2>1, <2>2
<1>5. CASE CallBegins(c)
  BY <1>1, <1>5, RunsAssumption
     DEF CallBegins, CancelProjection, CancelGroup, Kill, KillAll, Kind, CallAt
<1>6. CASE MarkGroup(c) \/ PurgeParked(c)
  BY <1>0, <1>3, <1>6 DEF MarkGroup, PurgeParked, Children
<1>7. CASE NextChild(c)
  BY <1>2, <1>4, <1>7 DEF NextChild, CallAt
<1>8. CASE ClaimParked(c) \/ Signal(c) \/ Stamp(c)
  BY <1>2, <1>8 DEF ClaimParked, Unpark, Signal, Stamp, AfterCancel, CallAt
<1> QED BY <1>5, <1>6, <1>7, <1>8 DEF CallStep

(* Every step preserves the types.                                         *)
LEMMA TypeStep ==
  ASSUME TypeOK, FiniteActive, QueueInv, CallInv, [Next]_vars
  PROVE  TypeOK'
<1> USE DEF spawnVars, tables, memory, history
<1>0. queue' \in Seq(Run) /\ IsInjective(queue')
  BY QueueChange
<1>1. Cap \in Nat \ {0} /\ Batch \subseteq Run /\ Run \subseteq Thread
        /\ Call \subseteq Thread /\ Seal \in Thread
  BY RunsAssumption DEF Thread
<1>2. ASSUME NEW r \in Run, SpawnStep(r) \/ CountActive(r)
      PROVE  TypeOK'
  <2>1. CASE InsertRun(r)
    <3>1. PICK s \in {"spawning", "queued"}, l \in {"launch", "park"} :
            row' = [row EXCEPT ![r] = s] /\ pc' = [pc EXCEPT ![r] = l]
      BY <2>1 DEF InsertRun, InsertRow, Goto
    <3>2. row'[r] = s /\ AsJob(s) \in {"queued", "running"}
      BY <3>1 DEF TypeOK, AsJob
    <3>3. proj' = [proj EXCEPT ![r] = AsJob(s)] \/ proj' = proj
      BY <2>1, <3>2 DEF InsertRun
    <3>4. grouped' \subseteq Run
          /\ UNCHANGED <<out, grp, flag, queue, sched, check, call, fetched>>
          /\ UNCHANGED <<solo, merged, seen, booted>>
      BY <1>1, <2>1 DEF InsertRun, TypeOK
    <3>5. pc' \in [Run -> PC]
      BY <3>1 DEF TypeOK, PC, Tasked, Spawning
    <3>6. row' \in [Run -> {"none", "queued", "spawning", "running"} \cup Terminal]
      BY <3>1 DEF TypeOK
    <3>7. proj' \in [Run -> {"none", "queued", "running", "cancelling"} \cup Settled]
      BY <3>2, <3>3 DEF TypeOK
    <3> QED BY <1>0, <3>4, <3>5, <3>6, <3>7 DEF TypeOK
  <2>2. CASE Enqueue(r)
    BY <1>0, <2>2 DEF Enqueue, Goto, Register, TypeOK, PC
  <2>3. CASE EnqueueFull(r)
    BY <1>0, <2>3 DEF EnqueueFull, Goto, SyncTo, AsJob, TypeOK, PC, Settled,
                      Terminal
  <2>4. CASE CountActive(r)
    BY <1>0, <2>4 DEF CountActive, Goto, TypeOK, PC, Spawning
  <2> QED BY <1>2, <2>1, <2>2, <2>3, <2>4 DEF SpawnStep
<1>3. ASSUME NEW r \in Run, TaskStep(r)
      PROVE  TypeOK'
  <2>1. CASE Launch(r)
    <3>1. sched' \in [free : 0 .. Cap, held : Run \cup {NoRun}]
      BY <1>1, <2>1, RunsAssumption DEF Launch, TypeOK, QueueInv
    <3> QED BY <1>0, <2>1, <3>1
            DEF Launch, Goto, Register, SyncTo, AsJob, TypeOK, PC, Tasked,
                Settled, Terminal
  <2>2. ASSUME NEW o \in Terminal, TaskEnds(r, o)
        PROVE  TypeOK'
    BY <1>0, <1>1, <2>2 DEF TaskEnds, Goto, SyncTo, AsJob, CheckAfter, TypeOK,
                            PC, Tasked, Settled, Terminal
  <2>3. CASE TaskCleansUp(r)
    BY <1>0, <2>3 DEF TaskCleansUp, Goto, TypeOK, PC
  <2> QED BY <1>3, <2>1, <2>2, <2>3 DEF TaskStep
<1>4. ASSUME NEW r \in Run, Promote(r) \/ PromoteLost(r) \/ MarkFetched(r)
      PROVE  TypeOK'
  <2>1. CASE Promote(r)
    BY <1>0, <2>1 DEF Promote, Goto, SyncTo, AsJob, TypeOK, PC, Tasked, Settled
  <2>2. CASE PromoteLost(r)
    BY <1>0, <2>2 DEF PromoteLost, Goto, TypeOK, PC
  <2>3. CASE MarkFetched(r)
    BY <1>0, <2>3 DEF MarkFetched, TypeOK
  <2> QED BY <1>4, <2>1, <2>2, <2>3
<1>5. ASSUME NEW t \in Thread, CheckStep(t)
      PROVE  TypeOK'
  <2>1. CASE LoadGroup(t)
    BY <1>0, <2>1 DEF LoadGroup, ToCheck, TypeOK
  <2>2. CASE ClaimGroup(t)
    <3>1. grp' \in [status : {"none", "running"} \cup Settled, sealed : BOOLEAN]
      BY <2>2 DEF ClaimGroup, TypeOK, Settled
    <3>2. fetched' \subseteq Run /\ merged' \in [Run -> Nat]
      <4>1. CASE Report
        <5>1. fetched' \subseteq Run
          BY <4>1 DEF Report, TypeOK
        <5>2. \A r \in Run : merged[r] \in Nat /\ merged[r] + 1 \in Nat
          BY DEF TypeOK
        <5>3. merged' \in [Run -> Nat]
          BY <4>1, <5>2 DEF Report
        <5> QED BY <5>1, <5>3
      <4>2. CASE UNCHANGED <<fetched, merged>>
        BY <4>2 DEF TypeOK
      <4> QED BY <2>2, <4>1, <4>2 DEF ClaimGroup
    <3>3. check' \in [Thread -> {"none", "load", "claim"}]
      BY <2>2 DEF ClaimGroup, ToCheck, TypeOK
    <3> QED BY <1>0, <2>2, <3>1, <3>2, <3>3 DEF ClaimGroup, TypeOK
  <2> QED BY <1>5, <2>1, <2>2 DEF CheckStep
<1>6. ASSUME SchedulerCounts
      PROVE  TypeOK'
  <2>1. Cardinality(Active) \in Nat
    BY FS_CardinalityType DEF FiniteActive
  <2> QED BY <1>0, <1>1, <1>6, <2>1 DEF SchedulerCounts, TypeOK, MayCount
<1>7. ASSUME SchedulerTakes
      PROVE  TypeOK'
  <2>1. queue # <<>> => Head(queue) \in Run
    BY HeadTailProperties DEF TypeOK
  <2> QED BY <1>0, <1>1, <1>7, <2>1 DEF SchedulerTakes, TypeOK, MayTake
<1>8. ASSUME SpawnGroup \/ SealGroup
      PROVE  TypeOK'
  BY <1>0, <1>1, <1>8 DEF SpawnGroup, SealGroup, TypeOK
<1>9. ASSUME NEW c \in Call, CallBegins(c)
      PROVE  TypeOK'
  <2>1. call' \in [Call -> CallRec]
    BY <1>9, CallTyped
  <2>2. /\ proj' \in [Run -> {"none", "queued", "running", "cancelling"} \cup Settled]
        /\ flag' \in [Run -> {"none", "clear", "tripped"}]
    BY <1>9 DEF CallBegins, CancelProjection, CancelGroup, Kill, KillAll, TypeOK
  <2>3. /\ UNCHANGED <<spawnVars, row, grouped, grp, queue, sched, check, fetched>>
        /\ UNCHANGED history
    BY <1>9 DEF CallBegins, CancelProjection, CancelGroup, Kill, KillAll
  <2> QED BY <1>0, <2>1, <2>2, <2>3 DEF TypeOK, CallRec
<1>10. ASSUME NEW c \in Call, CallStep(c)
       PROVE  TypeOK'
  <2>1. call' \in [Call -> CallRec]
    BY <1>10, CallTyped
  <2>2. CASE MarkGroup(c)
    <3>1. grp' \in [status : {"none", "running"} \cup Settled, sealed : BOOLEAN]
      BY <2>2 DEF MarkGroup, TypeOK, Settled
    <3> QED BY <1>0, <2>1, <2>2, <3>1 DEF MarkGroup, TypeOK, CallRec
  <2>3. CASE PurgeParked(c)
    <3>1. ToSet(queue) \subseteq Run
      BY ElementOfSeq, LenProperties DEF ToSet, TypeOK
    <3> QED BY <1>0, <2>1, <2>3, <3>1 DEF PurgeParked, TypeOK, CallRec
  <2>4. CASE NextChild(c)
    BY <1>0, <2>1, <2>4 DEF NextChild, TypeOK, CallRec
  <2>5. CASE ClaimParked(c)
    <3>1. flag' \in [Run -> {"none", "clear", "tripped"}]
          /\ seen'.withdrawn \in BOOLEAN /\ seen'.stamped = seen.stamped
          /\ seen'.dropped = seen.dropped
      BY <2>5 DEF ClaimParked, Unpark, TypeOK
    <3>2. seen' \in [stamped : SUBSET Run, dropped : SUBSET Run,
                     withdrawn : BOOLEAN]
      BY <2>5, <3>1 DEF ClaimParked, Unpark, TypeOK
    <3> QED BY <1>0, <2>1, <2>5, <3>1, <3>2
            DEF ClaimParked, Unpark, TypeOK, CallRec
  <2>6. CASE Signal(c)
    BY <1>0, <2>1, <2>6 DEF Signal, TypeOK, CallRec
  <2>7. CASE Stamp(c)
    <3>1. /\ row' \in [Run -> {"none", "queued", "spawning", "running"} \cup Terminal]
          /\ proj' \in [Run -> {"none", "queued", "running", "cancelling"} \cup Settled]
      BY <2>7 DEF Stamp, SyncTo, AsJob, TypeOK, Settled, Terminal
    <3>2. check' \in [Thread -> {"none", "load", "claim"}]
      BY <1>1, <2>7 DEF Stamp, CheckAfter, TypeOK
    <3>3. seen' \in [stamped : SUBSET Run, dropped : SUBSET Run,
                     withdrawn : BOOLEAN]
      BY <2>7 DEF Stamp, TypeOK, CallInv
    <3> QED BY <1>0, <2>1, <2>7, <3>1, <3>2, <3>3 DEF Stamp, TypeOK, CallRec
  <2> QED BY <1>10, <2>2, <2>3, <2>4, <2>5, <2>6, <2>7 DEF CallStep
<1>11. CASE Restart
  <2>1. /\ row' \in [Run -> {"none", "queued", "spawning", "running"} \cup Terminal]
        /\ proj' \in [Run -> {"none", "queued", "running", "cancelling"} \cup Settled]
    BY <1>11 DEF Restart, TypeOK, Settled, Terminal
  <2>2. grp' \in [status : {"none", "running"} \cup Settled, sealed : BOOLEAN]
    BY <1>11 DEF Restart, TypeOK, Settled
  <2>3. pc' \in [Run -> PC] /\ out' \in [Run -> {"none"} \cup Terminal]
    BY <1>11 DEF Restart, TypeOK, PC
  <2>4. call' \in [Call -> CallRec]
    BY <1>11 DEF Restart, Idle, CallRec, CallAt
  <2>5. /\ sched' \in [free : 0 .. Cap, held : Run \cup {NoRun}]
        /\ flag' \in [Run -> {"none", "clear", "tripped"}]
        /\ check' \in [Thread -> {"none", "load", "claim"}]
        /\ fetched' \subseteq Run /\ booted' \in BOOLEAN
        /\ UNCHANGED <<grouped, solo, merged, seen>>
    BY <1>1, <1>11 DEF Restart
  <2> QED BY <1>0, <2>1, <2>2, <2>3, <2>4, <2>5 DEF TypeOK, CallRec
<1>12. CASE UNCHANGED vars
  BY <1>12 DEF vars, TypeOK
<1> HIDE DEF spawnVars, tables, memory, history
<1> QED BY <1>2, <1>3, <1>4, <1>5, <1>6, <1>7, <1>8, <1>9, <1>10, <1>11, <1>12
        DEF Next, SchedulerStep

-----------------------------------------------------------------------------
(* Rows.  The steps of the threads of one run.                             *)
OwnStep(i) ==
  \/ CountActive(i) \/ SpawnStep(i) \/ TaskStep(i)
  \/ Promote(i) \/ PromoteLost(i)

(* Any other step leaves the run alone, but a cancel call may stamp it.    *)
LEMMA Elsewhere ==
  ASSUME TypeOK, CallInv, [Next]_vars, NEW i \in Run, ~OwnStep(i), ~Restart
  PROVE  /\ pc'[i] = pc[i] /\ out'[i] = out[i] /\ solo'[i] = solo[i]
         /\ i \in grouped' <=> i \in grouped
         /\ \/ row'[i] = row[i]
            \/ \E c \in Call : Stamp(c) /\ call[c].run = i /\ row'[i] = "killed"
<1> USE DEF spawnVars, tables, memory, history
<1>1. ASSUME NEW r \in Run, OwnStep(r)
      PROVE  /\ pc'[i] = pc[i] /\ out'[i] = out[i] /\ solo'[i] = solo[i]
             /\ i \in grouped' <=> i \in grouped
             /\ row'[i] = row[i]
  <2>0. r # i
    BY <1>1
  <2>1. CASE SpawnStep(r) \/ CountActive(r)
    BY <2>0, <2>1 DEF SpawnStep, InsertRun, InsertRow, Enqueue, EnqueueFull,
                      CountActive, Goto, TypeOK
  <2>2. CASE TaskStep(r)
    BY <2>0, <2>2 DEF TaskStep, Launch, TaskEnds, TaskCleansUp, Goto, TypeOK
  <2>3. CASE Promote(r) \/ PromoteLost(r)
    BY <2>0, <2>3 DEF Promote, PromoteLost, Goto, TypeOK
  <2> QED BY <1>1, <2>1, <2>2, <2>3 DEF OwnStep
<1>2. ASSUME NEW c \in Call, Stamp(c)
      PROVE  /\ UNCHANGED <<pc, out, solo, grouped>>
             /\ row'[i] = row[i] \/ (call[c].run = i /\ row'[i] = "killed")
  BY <1>2 DEF Stamp, CallInv, TypeOK
<1>3. ASSUME NEW c \in Call, CallBegins(c) \/ (CallStep(c) /\ ~Stamp(c))
      PROVE  UNCHANGED <<pc, out, solo, grouped, row>>
  BY <1>3 DEF CallBegins, CancelProjection, CancelGroup, Kill, KillAll,
              CallStep, MarkGroup, PurgeParked, NextChild, ClaimParked, Unpark,
              Signal
<1>4. ASSUME NEW t \in Thread, CheckStep(t)
      PROVE  UNCHANGED <<pc, out, solo, grouped, row>>
  BY <1>4 DEF CheckStep, LoadGroup, ClaimGroup
<1>5. ASSUME \/ SpawnGroup \/ SealGroup \/ SchedulerCounts \/ SchedulerTakes
             \/ UNCHANGED vars \/ \E r \in Run : MarkFetched(r)
      PROVE  UNCHANGED <<pc, out, solo, grouped, row>>
  BY <1>5 DEF SpawnGroup, SealGroup, SchedulerCounts, SchedulerTakes,
              MarkFetched, vars
<1> HIDE DEF spawnVars, tables, memory, history
<1>6. CASE \E r \in Run : OwnStep(r)
  BY <1>1, <1>6
<1>7. CASE \E c \in Call : Stamp(c)
  BY <1>2, <1>7
<1>8. CASE ~(\E r \in Run : OwnStep(r)) /\ ~(\E c \in Call : Stamp(c))
  <2>1. UNCHANGED <<pc, out, solo, grouped, row>>
    BY <1>3, <1>4, <1>5, <1>8 DEF Next, SchedulerStep, OwnStep
  <2> QED BY <2>1
<1> QED BY <1>6, <1>7, <1>8

(* What a row says of a run, by where its threads are.                     *)
RowOf(r) ==
  /\ ~Inserted(r) => row[r] = "none" /\ proj[r] = "none" /\ r \notin grouped
  /\ pc[r] \in {"park", "parked"} => row[r] \in {"queued", "killed"}
  /\ pc[r] = "launch" => row[r] \in {"spawning", "killed"}
  /\ pc[r] = "exec" => row[r] \in {"running", "killed"}
  /\ pc[r] \in {"checking", "done"} => row[r] \in Terminal
  /\ pc[r] \in {"rejected", "lost"} => row[r] \in {"none"} \cup Terminal

RowInv == \A r \in Run : RowOf(r)

(* A projection once made stays, and keeps its verdict.                    *)
LEMMA ProjStays ==
  ASSUME TypeOK, CallInv, [Next]_vars, NEW i \in Run, ~InsertRun(i)
  PROVE  /\ proj[i] = "none" <=> proj'[i] = "none"
         /\ proj[i] \in Settled => proj'[i] = proj[i]
<1> USE DEF spawnVars, tables, memory, history
<1> DEFINE Kept == /\ proj[i] = "none" <=> proj'[i] = "none"
                   /\ proj[i] \in Settled => proj'[i] = proj[i]
<1>0. proj \in [Run -> {"none", "queued", "running", "cancelling"} \cup Settled]
      /\ Settled = {"done", "cancelled", "interrupted"}
  BY DEF TypeOK, Settled
<1>1. ASSUME NEW r, NEW s, SyncTo(r, s)
      PROVE  Kept
  BY <1>0, <1>1 DEF SyncTo, AsJob
<1>2. ASSUME proj' = proj
      PROVE  Kept
  BY <1>2
<1>3. ASSUME NEW r \in Run, InsertRun(r)
      PROVE  Kept
  <2>1. r # i
    BY <1>3
  <2> QED BY <1>0, <1>3, <2>1 DEF InsertRun
<1>4. ASSUME NEW c \in Call, NEW r \in Run, CancelProjection(c, r)
      PROVE  Kept
  BY <1>0, <1>4 DEF CancelProjection
<1>5. ASSUME Restart
      PROVE  Kept
  BY <1>0, <1>5 DEF Restart
<1> HIDE DEF Kept
<1>6. ASSUME NEW r \in Run,
             \/ CountActive(r) \/ Enqueue(r) \/ EnqueueFull(r) \/ TaskStep(r)
             \/ Promote(r) \/ PromoteLost(r) \/ MarkFetched(r)
      PROVE  Kept
  BY <1>1, <1>2, <1>6
     DEF CountActive, Enqueue, EnqueueFull, TaskStep, Launch, TaskEnds,
         TaskCleansUp, Promote, PromoteLost, MarkFetched
<1>7. ASSUME NEW c \in Call, CallStep(c) \/ CancelGroup(c) \/ KillAll(c)
      PROVE  Kept
  BY <1>1, <1>2, <1>7
     DEF CallStep, MarkGroup, PurgeParked, NextChild, ClaimParked, Unpark,
         Signal, Stamp, CancelGroup, KillAll
<1>8. ASSUME NEW c \in Call, NEW r \in Run, Kill(c, r)
      PROVE  Kept
  BY <1>2, <1>8 DEF Kill
<1>9. ASSUME \/ SpawnGroup \/ SealGroup \/ SchedulerCounts \/ SchedulerTakes
             \/ UNCHANGED vars \/ \E t \in Thread : CheckStep(t)
      PROVE  Kept
  BY <1>2, <1>9 DEF SpawnGroup, SealGroup, SchedulerCounts, SchedulerTakes,
                    vars, CheckStep, LoadGroup, ClaimGroup
<1> HIDE DEF spawnVars, tables, memory, history
<1>10. Target \subseteq Run
  BY RunsAssumption
<1> QED BY <1>3, <1>4, <1>5, <1>6, <1>7, <1>8, <1>9, <1>10
        DEF Next, SchedulerStep, SpawnStep, CallBegins, Kept

(* Every step keeps the rows as the threads expect them.                   *)
LEMMA RowStep ==
  ASSUME TypeOK, CallInv, RowInv, [Next]_vars
  PROVE  RowInv'
<1> SUFFICES ASSUME NEW i \in Run PROVE RowOf(i)'
  BY DEF RowInv
<1> USE DEF spawnVars, tables, memory, history, Inserted
<1>0. RowOf(i) /\ pc \in [Run -> PC] /\ Terminal = {"completed", "failed", "killed"}
      /\ row \in [Run -> {"none", "queued", "spawning", "running"} \cup Terminal]
  BY DEF RowInv, TypeOK, Terminal
<1>1. CASE ~OwnStep(i) /\ ~Restart
  <2>1. ~InsertRun(i)
    BY <1>1 DEF OwnStep, SpawnStep
  <2>2. /\ pc'[i] = pc[i]
        /\ i \in grouped' <=> i \in grouped
        /\ proj[i] = "none" <=> proj'[i] = "none"
    BY <1>1, <2>1, Elsewhere, ProjStays
  <2>3. CASE row'[i] = row[i]
    BY <1>0, <2>2, <2>3 DEF RowOf
  <2>4. ASSUME NEW c \in Call, Stamp(c), call[c].run = i, row'[i] = "killed"
        PROVE  RowOf(i)'
    <3>1. Inserted(i)
      BY <2>4 DEF Stamp, CallInv
    <3> QED BY <1>0, <2>2, <2>4, <3>1 DEF RowOf
  <2> QED BY <1>1, <2>3, <2>4, Elsewhere
<1>2. CASE CountActive(i)
  <2>1. /\ pc[i] = "new" /\ pc'[i] \in {"insert", "insertParked", "rejected"}
        /\ UNCHANGED <<row, proj, grouped>>
    BY <1>0, <1>2 DEF CountActive, Goto
  <2> QED BY <1>0, <2>1 DEF RowOf
<1>3. CASE InsertRun(i)
  <2>1. \/ pc'[i] = "launch" /\ row'[i] = "spawning"
        \/ pc'[i] = "park" /\ row'[i] = "queued"
    BY <1>0, <1>3 DEF InsertRun, InsertRow, Goto
  <2> QED BY <2>1 DEF RowOf
<1>4. CASE Enqueue(i)
  BY <1>0, <1>4 DEF Enqueue, Goto, RowOf
<1>5. CASE EnqueueFull(i)
  BY <1>0, <1>5 DEF EnqueueFull, Goto, RowOf
<1>6. CASE Launch(i)
  BY <1>0, <1>6 DEF Launch, Goto, RowOf
<1>7. ASSUME NEW o \in Terminal, TaskEnds(i, o)
      PROVE  RowOf(i)'
  BY <1>0, <1>7 DEF TaskEnds, Goto, RowOf
<1>8. CASE TaskCleansUp(i)
  BY <1>0, <1>8 DEF TaskCleansUp, Goto, RowOf
<1>9. CASE Promote(i)
  BY <1>0, <1>9 DEF Promote, Goto, RowOf
<1>10. CASE PromoteLost(i)
  BY <1>0, <1>10 DEF PromoteLost, Goto, RowOf, MayPromote
<1>11. CASE Restart
  <2>1. /\ pc'[i] = IF pc[i] \in {"done", "rejected"} THEN pc[i] ELSE "lost"
        /\ row'[i] = IF row[i] = "none" \/ row[i] \in Terminal THEN row[i]
                     ELSE "failed"
    BY <1>11 DEF Restart
  <2> QED BY <1>0, <2>1 DEF RowOf
<1> HIDE DEF spawnVars, tables, memory, history, Inserted
<1> QED BY <1>1, <1>2, <1>3, <1>4, <1>5, <1>6, <1>7, <1>8, <1>9, <1>10, <1>11
        DEF OwnStep, SpawnStep, TaskStep

(* A parked run stays parked unless the scheduler that holds it goes on    *)
(* with it.                                                                *)
LEMMA QueueStep ==
  ASSUME TypeOK, CallInv, QueueInv, [Next]_vars
  PROVE  QueueInv'
<1> USE DEF spawnVars, tables, memory, history
<1>0. /\ pc \in [Run -> PC] /\ NoRun \notin Run
      /\ ToSet(queue) \subseteq Run
      /\ sched \in [free : 0 .. Cap, held : Run \cup {NoRun}]
      /\ queue \in Seq(Run) /\ IsInjective(queue) /\ Cap \in Nat
  <2>1. ToSet(queue) \subseteq Run
    BY ElementOfSeq, LenProperties DEF ToSet, TypeOK
  <2> QED BY <2>1, RunsAssumption DEF TypeOK
<1>1. ASSUME NEW r \in Run, pc[r] = "parked", ~Promote(r), ~PromoteLost(r),
             ~Restart
      PROVE  pc'[r] = "parked"
  <2>1. CASE OwnStep(r)
    BY <1>1, <2>1
       DEF OwnStep, CountActive, SpawnStep, InsertRun, InsertRow, Enqueue,
           EnqueueFull, TaskStep, Launch, TaskEnds, TaskCleansUp
  <2>2. CASE ~OwnStep(r)
    BY <1>1, <2>2, Elsewhere
  <2> QED BY <2>1, <2>2
<1>2. ASSUME NEW r \in ToSet(queue')
      PROVE  pc'[r] = "parked"
  <2>1. CASE r \in ToSet(queue)
    <3>1. r \in Run /\ pc[r] = "parked" /\ r # sched.held
      BY <1>0, <2>1 DEF QueueInv
    <3>2. ~Restart
      BY <1>2 DEF Restart, ToSet
    <3> QED BY <1>1, <3>1, <3>2 DEF Promote, PromoteLost, MayPromote
  <2>2. CASE r \notin ToSet(queue)
    <3>1. PICK k \in Run : Enqueue(k) /\ ToSet(queue') = ToSet(queue) \cup {k}
      BY <1>2, <2>2, QueueChange
    <3>2. r = k
      BY <1>2, <2>2, <3>1
    <3> QED BY <1>0, <3>1, <3>2 DEF Enqueue, Goto
  <2> QED BY <2>1, <2>2
<1> DEFINE Held == sched'.held # NoRun =>
                     /\ sched'.free > 0 /\ pc'[sched'.held] \in {"parked", "launch"}
                     /\ sched'.held \notin ToSet(queue')
<1>3. ASSUME SchedulerTakes
      PROVE  Held
  <2>1. CASE queue = <<>>
    BY <1>0, <1>3, <2>1 DEF SchedulerTakes, MayTake
  <2>2. CASE queue # <<>>
    <3>1. /\ sched' = [sched EXCEPT !.held = Head(queue)] /\ sched.free > 0
          /\ queue' = Tail(queue) /\ pc' = pc
      BY <1>3, <2>2 DEF SchedulerTakes, MayTake
    <3>2. Head(queue) \in ToSet(queue) /\ Head(queue) \notin ToSet(Tail(queue))
      BY <1>0, <2>2, TailOf
    <3>3. pc[Head(queue)] = "parked"
      BY <3>2 DEF QueueInv
    <3> QED BY <1>0, <3>1, <3>2, <3>3
  <2> QED BY <1>3, <2>1, <2>2 DEF SchedulerTakes
<1>4. ASSUME SchedulerCounts \/ Restart \/ \E r \in Run : PromoteLost(r)
      PROVE  Held
  BY <1>0, <1>4 DEF SchedulerCounts, Restart, PromoteLost, MayCount, MayPromote
<1>5. ASSUME NEW r \in Run, Launch(r)
      PROVE  Held
  BY <1>0, <1>5 DEF Launch, Goto, QueueInv
<1>6. ASSUME NEW r \in Run, OwnStep(r), ~PromoteLost(r), ~Launch(r)
      PROVE  UNCHANGED sched
  BY <1>6 DEF OwnStep, CountActive, SpawnStep, InsertRun, Enqueue, EnqueueFull,
              TaskStep, TaskEnds, TaskCleansUp, Promote
<1>7. ASSUME NEW c \in Call, CallBegins(c) \/ CallStep(c)
      PROVE  UNCHANGED sched
  BY <1>7 DEF CallBegins, CancelProjection, CancelGroup, Kill, KillAll, CallStep,
              MarkGroup, PurgeParked, NextChild, ClaimParked, Unpark, Signal,
              Stamp
<1>8. ASSUME \/ SpawnGroup \/ SealGroup \/ UNCHANGED vars
             \/ \E r \in Run : MarkFetched(r)
             \/ \E t \in Thread : CheckStep(t)
      PROVE  UNCHANGED sched
  BY <1>8 DEF SpawnGroup, SealGroup, MarkFetched, CheckStep, LoadGroup,
              ClaimGroup, vars
<1>9. ASSUME UNCHANGED sched, ~Restart, sched.held # NoRun,
             \A r \in Run : ~Launch(r) /\ ~PromoteLost(r)
      PROVE  Held
  <2>1. /\ sched.held \in Run /\ sched.free > 0
        /\ pc[sched.held] \in {"parked", "launch"}
        /\ sched.held \notin ToSet(queue)
    BY <1>0, <1>9 DEF QueueInv
  <2>2. pc'[sched.held] \in {"parked", "launch"}
    <3>1. CASE Promote(sched.held)
      BY <1>0, <2>1, <3>1 DEF Promote, Goto
    <3>2. CASE pc[sched.held] = "parked" /\ ~Promote(sched.held)
      BY <1>1, <1>9, <2>1, <3>2
    <3>3. CASE pc[sched.held] = "launch" /\ ~OwnStep(sched.held)
      BY <1>9, <2>1, <3>3, Elsewhere
    <3>4. CASE pc[sched.held] = "launch" /\ OwnStep(sched.held)
      BY <1>9, <2>1, <3>4
         DEF OwnStep, CountActive, SpawnStep, InsertRun, InsertRow, Enqueue,
             EnqueueFull, TaskStep, TaskEnds, TaskCleansUp, Promote, MayPromote
    <3> QED BY <2>1, <3>1, <3>2, <3>3, <3>4
  <2>3. sched.held \notin ToSet(queue')
    BY <2>1, QueueChange DEF Enqueue
  <2> QED BY <1>9, <2>1, <2>2, <2>3
<1> HIDE DEF spawnVars, tables, memory, history
<1>10. Held
  <2>1. CASE UNCHANGED sched /\ ~Restart
             /\ \A r \in Run : ~Launch(r) /\ ~PromoteLost(r)
    <3>1. CASE sched.held = NoRun
      BY <2>1, <3>1
    <3> QED BY <1>9, <2>1, <3>1
  <2>2. CASE ~UNCHANGED sched
    <3> HIDE DEF Held
    <3> QED BY <1>3, <1>4, <1>5, <1>6, <1>7, <1>8, <2>2
            DEF Next, SchedulerStep, OwnStep
  <2> HIDE DEF Held
  <2> QED BY <1>4, <1>5, <2>1, <2>2
<1> QED BY <1>2, <1>10 DEF QueueInv
(* What the record of a call is after it begins.                           *)
LEMMA BeginEffect ==
  ASSUME TypeOK, NEW c \in Call, NEW k, NEW l, NEW r, Begin(c, k, l, r)
  PROVE  /\ call'[c].kind = k /\ call'[c].at = l /\ call'[c].run = r
         /\ call'[c].todo = call[c].todo
<1> DEFINE old == call[c]
<1>1. call'[c] = [old EXCEPT !.kind = k, !.at = l, !.run = r] /\ old \in CallRec
  BY DEF Begin, TypeOK, CallRec
<1> HIDE DEF old
<1>2. /\ call'[c].kind = k /\ call'[c].at = l /\ call'[c].run = r
      /\ call'[c].todo = old.todo
  BY <1>1 DEF CallRec
<1> QED BY <1>2 DEF old

(* What it is when the call has listed the runs it will cancel.            *)
LEMMA ListEffect ==
  ASSUME TypeOK, NEW c \in Call, NEW T,
         call' = [call EXCEPT ![c] = [@ EXCEPT !.at = "next", !.todo = T]]
  PROVE  /\ call'[c].kind = call[c].kind /\ call'[c].at = "next"
         /\ call'[c].run = call[c].run /\ call'[c].todo = T
<1> DEFINE old == call[c]
<1>1. call'[c] = [old EXCEPT !.at = "next", !.todo = T] /\ old \in CallRec
  BY DEF TypeOK, CallRec
<1> HIDE DEF old
<1>2. /\ call'[c].kind = old.kind /\ call'[c].at = "next"
      /\ call'[c].run = old.run /\ call'[c].todo = T
  BY <1>1 DEF CallRec
<1> QED BY <1>2 DEF old

(* What it is when the call only goes on.                                  *)
LEMMA StepEffect ==
  ASSUME TypeOK, NEW c \in Call, NEW l, Step(c, l)
  PROVE  /\ call'[c].kind = call[c].kind /\ call'[c].at = l
         /\ call'[c].run = call[c].run /\ call'[c].todo = call[c].todo
BY DEF Step, TypeOK

(* What it is when the call takes the next of those runs.                  *)
LEMMA NextEffect ==
  ASSUME TypeOK, NEW c \in Call, NEW r,
         call' = [call EXCEPT ![c] = [@ EXCEPT !.at = "claim", !.run = r,
                                               !.todo = call[c].todo \ {r}]]
  PROVE  /\ call'[c].kind = call[c].kind /\ call'[c].at = "claim"
         /\ call'[c].run = r /\ call'[c].todo = call[c].todo \ {r}
<1> DEFINE old == call[c]
           rest == call[c].todo \ {r}
<1>1. call'[c] = [old EXCEPT !.at = "claim", !.run = r, !.todo = rest]
      /\ old \in CallRec
  BY DEF TypeOK, CallRec
<1> HIDE DEF old, rest
<1>2. /\ call'[c].kind = old.kind /\ call'[c].at = "claim"
      /\ call'[c].run = r /\ call'[c].todo = rest
  BY <1>1 DEF CallRec
<1> QED BY <1>2 DEF old, rest


(* Once inserted, always inserted.                                         *)
LEMMA InsertedStays ==
  ASSUME TypeOK, CallInv, [Next]_vars, NEW i \in Run, Inserted(i)
  PROVE  Inserted(i)'
<1>0. pc \in [Run -> PC]
  BY DEF TypeOK
<1>1. CASE OwnStep(i)
  BY <1>0, <1>1
     DEF OwnStep, CountActive, SpawnStep, InsertRun, InsertRow, Enqueue,
         EnqueueFull, TaskStep, Launch, TaskEnds, TaskCleansUp, Promote,
         PromoteLost, Goto, Inserted
<1>2. CASE Restart
  BY <1>2 DEF Restart, Inserted
<1>3. CASE ~OwnStep(i) /\ ~Restart
  BY <1>3, Elsewhere DEF Inserted
<1> QED BY <1>1, <1>2, <1>3

(* A call record is written by the call, or by the restart.                *)
LEMMA CallChange ==
  ASSUME TypeOK, [Next]_vars, NEW c \in Call
  PROVE  call'[c] = call[c] \/ CallBegins(c) \/ CallStep(c) \/ Restart
<1> USE DEF spawnVars, tables, memory, history
<1>0. call \in [Call -> CallRec]
  BY DEF TypeOK, CallRec
<1>1. ASSUME NEW d \in Call, c # d, CallBegins(d) \/ CallStep(d)
      PROVE  call'[c] = call[c]
  BY <1>0, <1>1
     DEF CallBegins, CancelProjection, CancelGroup, Kill, KillAll, Begin,
         CallStep, MarkGroup, PurgeParked, NextChild, ClaimParked, Unpark,
         Signal, Stamp, Step
<1>2. ASSUME NEW r \in Run, OwnStep(r) \/ MarkFetched(r)
       PROVE  UNCHANGED call
  BY <1>2 DEF OwnStep, CountActive, SpawnStep, InsertRun, Enqueue, EnqueueFull,
               TaskStep, Launch, TaskEnds, TaskCleansUp, Promote, PromoteLost,
               MarkFetched
<1>3. ASSUME \/ SpawnGroup \/ SealGroup \/ SchedulerCounts \/ SchedulerTakes
              \/ UNCHANGED vars \/ \E t \in Thread : CheckStep(t)
       PROVE  UNCHANGED call
  BY <1>3 DEF SpawnGroup, SealGroup, SchedulerCounts, SchedulerTakes, CheckStep,
               LoadGroup, ClaimGroup, vars
<1> HIDE DEF spawnVars, tables, memory, history
<1> QED BY <1>1, <1>2, <1>3 DEF Next, SchedulerStep, OwnStep

(* Every step keeps what the cancel calls know of their runs.              *)
LEMMA CallInvStep ==
  ASSUME TypeOK, TypeOK', QueueInv, RowInv, CallInv, [Next]_vars
  PROVE  CallInv'
<1> USE DEF spawnVars, tables, memory, history
<1> DEFINE Knows(c) == /\ \A r \in call[c].todo : Inserted(r)
                       /\ call[c].at \in {"claim", "signal", "stamp"} =>
                            call[c].run \in Run /\ Inserted(call[c].run)
<1>0. /\ call \in [Call -> CallRec] /\ call' \in [Call -> CallRec]
      /\ Target \subseteq Run /\ grouped \subseteq Run
      /\ ToSet(queue) \subseteq Run
  <2>1. ToSet(queue) \subseteq Run
    BY ElementOfSeq, LenProperties DEF ToSet, TypeOK
  <2> QED BY <2>1, RunsAssumption DEF TypeOK, CallRec
<1>1. \A r \in Run : Inserted(r) => Inserted(r)'
  BY InsertedStays
<1>2. ASSUME NEW c \in Call, call'[c] = call[c]
      PROVE  Knows(c)'
  BY <1>0, <1>1, <1>2 DEF CallInv, CallRec
<1>3. ASSUME NEW c \in Call, NEW r \in Target, CancelProjection(c, r) \/ Kill(c, r)
      PROVE  Knows(c)'
  <2>1. Inserted(r)
    BY <1>0, <1>3 DEF CancelProjection, Kill, RowInv, RowOf
  <2>2. Begin(c, "job", "claim", r) \/ Begin(c, "kill", "signal", r)
    BY <1>3 DEF CancelProjection, Kill
  <2>3. call'[c].run = r /\ call'[c].todo = call[c].todo
    <3>1. CASE Begin(c, "job", "claim", r)
      BY <3>1, BeginEffect
    <3>2. CASE Begin(c, "kill", "signal", r)
      BY <3>2, BeginEffect
    <3> QED BY <2>2, <3>1, <3>2
  <2> QED BY <1>0, <1>1, <2>1, <2>3 DEF CallInv, CallRec
<1>4. ASSUME NEW c \in Call, CancelGroup(c) \/ KillAll(c)
      PROVE  Knows(c)'
  <2>1. Begin(c, "group", "mark", NoRun) \/ Begin(c, "kill_all", "purge", NoRun)
    BY <1>4 DEF CancelGroup, KillAll
  <2>2. call'[c].at \in {"mark", "purge"} /\ call'[c].todo = call[c].todo
    <3>1. CASE Begin(c, "group", "mark", NoRun)
      BY <3>1, BeginEffect
    <3>2. CASE Begin(c, "kill_all", "purge", NoRun)
      BY <3>2, BeginEffect
    <3> QED BY <2>1, <3>1, <3>2
  <2> QED BY <1>0, <1>1, <2>2 DEF CallInv, CallRec
<1>5. ASSUME NEW c \in Call, MarkGroup(c) \/ PurgeParked(c)
      PROVE  Knows(c)'
  <2>1. \/ call'[c].at = "next" /\ call'[c].todo = grouped
        \/ call'[c].at = "next" /\ call'[c].todo = ToSet(queue)
    BY <1>5, ListEffect DEF MarkGroup, PurgeParked, Children
  <2>2. \A r \in grouped \cup ToSet(queue) : r \in Run /\ Inserted(r)
    BY <1>0 DEF RowInv, RowOf, QueueInv, Inserted
  <2> QED BY <1>1, <2>1, <2>2
<1>6. ASSUME NEW c \in Call, NextChild(c)
      PROVE  Knows(c)'
  <2>1. CASE call[c].todo = {} /\ Step(c, "done")
    <3>1. call'[c].at = "done" /\ call'[c].todo = {}
      BY <1>0, <2>1 DEF Step, CallRec
    <3> QED BY <3>1
  <2>2. ASSUME NEW r \in call[c].todo,
               call' = [call EXCEPT ![c] = [@ EXCEPT !.at = "claim", !.run = r,
                                            !.todo = call[c].todo \ {r}]]
        PROVE  Knows(c)'
    <3>1. call'[c].run = r /\ call'[c].todo \subseteq call[c].todo
      BY <1>0, <2>2 DEF CallRec
    <3> QED BY <1>0, <1>1, <3>1 DEF CallInv, CallRec
  <2> QED BY <1>6, <2>1, <2>2 DEF NextChild
<1>7. ASSUME NEW c \in Call, ClaimParked(c) \/ Signal(c) \/ Stamp(c)
      PROVE  Knows(c)'
  <2>1. /\ call[c].at \in {"claim", "signal", "stamp"}
        /\ call'[c].run = call[c].run /\ call'[c].todo = call[c].todo
    BY <1>0, <1>7 DEF ClaimParked, Unpark, Signal, Stamp, Step, CallRec
  <2> QED BY <1>0, <1>1, <2>1 DEF CallInv, CallRec
<1>8. ASSUME Restart, NEW c \in Call
      PROVE  Knows(c)'
  BY <1>8 DEF Restart, Idle
<1> HIDE DEF spawnVars, tables, memory, history, Knows
<1>9. ASSUME NEW c \in Call
      PROVE  Knows(c)'
  <2>1. CASE CallBegins(c) \/ CallStep(c)
    BY <1>3, <1>4, <1>5, <1>6, <1>7, <2>1 DEF CallBegins, CallStep
  <2> QED BY <1>2, <1>8, <2>1, CallChange
<1> QED BY <1>9 DEF CallInv, Knows

-----------------------------------------------------------------------------
(* Stamps.  Only a stamp adds to the runs that were stamped while parked.  *)
LEMMA StampedBy ==
  ASSUME TypeOK, [Next]_vars
  PROVE  \/ seen'.stamped = seen.stamped
         \/ \E c \in Call :
              /\ Stamp(c) /\ row[call[c].run] = "queued"
              /\ seen'.stamped = seen.stamped \cup {call[c].run}
<1> USE DEF spawnVars, tables, memory, history
<1>0. seen \in [stamped : SUBSET Run, dropped : SUBSET Run, withdrawn : BOOLEAN]
  BY DEF TypeOK
<1>1. ASSUME NEW r \in Run, OwnStep(r) \/ MarkFetched(r)
      PROVE  UNCHANGED seen
  BY <1>1 DEF OwnStep, CountActive, SpawnStep, InsertRun, Enqueue, EnqueueFull,
              TaskStep, Launch, TaskEnds, TaskCleansUp, Promote, PromoteLost,
              MarkFetched
<1>2. ASSUME \/ SpawnGroup \/ SealGroup \/ SchedulerCounts \/ SchedulerTakes
             \/ UNCHANGED vars \/ Restart \/ \E t \in Thread : CheckStep(t)
      PROVE  UNCHANGED seen
  BY <1>2 DEF SpawnGroup, SealGroup, SchedulerCounts, SchedulerTakes, CheckStep,
              LoadGroup, ClaimGroup, Restart, vars
<1>3. ASSUME NEW c \in Call, CallBegins(c) \/ MarkGroup(c) \/ NextChild(c) \/ Signal(c)
      PROVE  UNCHANGED seen
  BY <1>3 DEF CallBegins, CancelProjection, CancelGroup, Kill, KillAll, MarkGroup,
              NextChild, Signal
<1>4. ASSUME NEW c \in Call, PurgeParked(c) \/ ClaimParked(c)
      PROVE  seen'.stamped = seen.stamped
  BY <1>0, <1>4 DEF PurgeParked, ClaimParked, Unpark
<1>5. ASSUME NEW c \in Call, Stamp(c)
      PROVE  \/ seen'.stamped = seen.stamped
             \/ /\ row[call[c].run] = "queued"
                /\ seen'.stamped = seen.stamped \cup {call[c].run}
  BY <1>0, <1>5 DEF Stamp
<1> HIDE DEF spawnVars, tables, memory, history
<1> QED BY <1>1, <1>2, <1>3, <1>4, <1>5 DEF Next, SchedulerStep, OwnStep, CallStep

(* A run that a call stamped while it was parked is never launched.        *)
StampOf(r) ==
  pc[r] \in {"park", "parked", "rejected", "lost"} /\ row[r] # "queued"

StampInv == \A r \in seen.stamped : StampOf(r)

(* Every step keeps the stamped runs from being launched.                  *)
LEMMA StampStep ==
  ASSUME TypeOK, CallInv, RowInv, StampInv, [Next]_vars
  PROVE  StampInv'
<1> USE DEF spawnVars, tables, memory, history
<1>0. /\ pc \in [Run -> PC] /\ seen.stamped \subseteq Run
      /\ row \in [Run -> {"none", "queued", "spawning", "running"} \cup Terminal]
  BY DEF TypeOK
<1>1. ASSUME NEW i \in Run, StampOf(i)
      PROVE  StampOf(i)'
  <2>1. CASE ~OwnStep(i) /\ ~Restart
    BY <1>1, <2>1, Elsewhere DEF StampOf
  <2>2. CASE Restart
    BY <1>0, <1>1, <2>2 DEF Restart, StampOf
  <2>3. CASE OwnStep(i)
    <3>1. Enqueue(i) \/ EnqueueFull(i) \/ PromoteLost(i)
      BY <1>1, <2>3
         DEF OwnStep, SpawnStep, CountActive, InsertRun, InsertRow, TaskStep,
             Launch, TaskEnds, TaskCleansUp, Promote, StampOf
    <3> QED BY <1>0, <1>1, <3>1
            DEF Enqueue, EnqueueFull, PromoteLost, Goto, StampOf
  <2> QED BY <2>1, <2>2, <2>3
<1>2. ASSUME NEW c \in Call, Stamp(c), NEW r, r = call[c].run, row[r] = "queued"
      PROVE  r \in Run /\ StampOf(r)'
  <2>1. r \in Run /\ Inserted(r) /\ RowOf(r)
    BY <1>2 DEF Stamp, CallInv, RowInv
  <2>2. pc[r] \in {"park", "parked"}
    BY <1>0, <1>2, <2>1
       DEF RowOf, Inserted, PC, Spawning, Tasked, Terminal
  <2>3. pc' = pc /\ row'[r] = "killed"
    BY <1>0, <1>2, <2>1 DEF Stamp
  <2> QED BY <2>1, <2>2, <2>3 DEF StampOf
<1>3. ASSUME NEW r \in seen'.stamped
      PROVE  StampOf(r)'
  <2>1. CASE r \in seen.stamped
    BY <1>0, <1>1, <2>1 DEF StampInv
  <2>2. CASE r \notin seen.stamped
    <3>1. PICK c \in Call : /\ Stamp(c) /\ row[call[c].run] = "queued"
                            /\ r = call[c].run
      BY <1>3, <2>2, StampedBy
    <3> QED BY <1>2, <3>1
  <2> QED BY <2>1, <2>2
<1> HIDE DEF spawnVars, tables, memory, history
<1> QED BY <1>3 DEF StampInv

-----------------------------------------------------------------------------
(* The group.  It is over when it is sealed and none of its children is    *)
(* open.                                                                   *)
Complete == grp.sealed /\ \A r \in grouped : proj[r] \in Settled

Spawned(r) == pc[r] \notin Spawning \cup {"new"}

GroupInv ==
  /\ grp.status = "none" =>
       ~grp.sealed /\ \A b \in Batch : pc[b] \in {"new", "lost"}
  /\ grouped \subseteq Batch
  /\ \A b \in Batch : b \in grouped <=> proj[b] # "none"
  /\ grp.sealed => \A b \in Batch : Spawned(b)
  /\ grp.status = "done" => Complete
  /\ \A t \in Thread : check[t] = "claim" => Complete

(* The steps that write the Group row, and those that add a child.         *)
LEMMA GrpChange ==
  ASSUME TypeOK, [Next]_vars
  PROVE  /\ \/ grp' = grp \/ SpawnGroup \/ SealGroup \/ Restart
            \/ \E c \in Call : MarkGroup(c)
            \/ \E t \in Thread : ClaimGroup(t)
         /\ \/ grouped' = grouped
            \/ \E r \in Run : /\ InsertRun(r) /\ r \in Batch
                              /\ grouped' = grouped \cup {r}
<1> USE DEF spawnVars, tables, memory, history
<1>1. ASSUME NEW r \in Run, OwnStep(r) \/ MarkFetched(r), ~InsertRun(r)
      PROVE  UNCHANGED <<grp, grouped>>
  BY <1>1 DEF OwnStep, CountActive, SpawnStep, Enqueue, EnqueueFull, TaskStep,
              Launch, TaskEnds, TaskCleansUp, Promote, PromoteLost, MarkFetched
<1>2. ASSUME NEW r \in Run, InsertRun(r)
      PROVE  /\ UNCHANGED grp
             /\ grouped' = grouped \/ (r \in Batch /\ grouped' = grouped \cup {r})
  BY <1>2 DEF InsertRun
<1>3. ASSUME NEW c \in Call, CallBegins(c) \/ (CallStep(c) /\ ~MarkGroup(c))
      PROVE  UNCHANGED <<grp, grouped>>
  BY <1>3 DEF CallBegins, CancelProjection, CancelGroup, Kill, KillAll, CallStep,
              PurgeParked, NextChild, ClaimParked, Unpark, Signal, Stamp
<1>4. ASSUME NEW c \in Call, MarkGroup(c)
      PROVE  UNCHANGED grouped
  BY <1>4 DEF MarkGroup
<1>5. ASSUME NEW t \in Thread, LoadGroup(t) \/ ClaimGroup(t)
      PROVE  UNCHANGED grouped /\ (LoadGroup(t) => UNCHANGED grp)
  BY <1>5 DEF LoadGroup, ClaimGroup
<1>6. ASSUME SpawnGroup \/ SealGroup \/ Restart
      PROVE  UNCHANGED grouped
  BY <1>6 DEF SpawnGroup, SealGroup, Restart
<1>7. ASSUME SchedulerCounts \/ SchedulerTakes \/ UNCHANGED vars
      PROVE  UNCHANGED <<grp, grouped>>
  BY <1>7 DEF SchedulerCounts, SchedulerTakes, vars
<1> HIDE DEF spawnVars, tables, memory, history
<1>8. \/ grp' = grp \/ SpawnGroup \/ SealGroup \/ Restart
      \/ \E c \in Call : MarkGroup(c)
      \/ \E t \in Thread : ClaimGroup(t)
  BY <1>1, <1>2, <1>3, <1>5, <1>7
     DEF Next, SchedulerStep, CheckStep, OwnStep, CallStep
<1>9. \/ grouped' = grouped
      \/ \E r \in Run : /\ InsertRun(r) /\ r \in Batch
                        /\ grouped' = grouped \cup {r}
  BY <1>1, <1>2, <1>3, <1>4, <1>5, <1>6, <1>7
     DEF Next, SchedulerStep, CheckStep, OwnStep, CallStep
<1> QED BY <1>8, <1>9

(* What those steps do to it.                                              *)
LEMMA GrpEffect ==
  ASSUME TypeOK, [Next]_vars
  PROVE  /\ grp.status # "none" => grp'.status # "none"
         /\ grp.sealed => grp'.sealed
         /\ grp'.sealed => grp.sealed \/ SealGroup
         /\ grp'.status = "running" => grp.status = "running" \/ SpawnGroup
         /\ grp'.status = "done" =>
              \/ grp.status = "done"
              \/ \E t \in Thread : ClaimGroup(t) /\ check[t] = "claim"
         /\ grp.status \in Settled => grp'.status = grp.status
<1>0. grp \in [status : {"none", "running"} \cup Settled, sealed : BOOLEAN]
  BY DEF TypeOK
<1> DEFINE Fine == /\ grp.status # "none" => grp'.status # "none"
                   /\ grp.sealed => grp'.sealed
                   /\ grp'.sealed => grp.sealed \/ SealGroup
                   /\ grp'.status = "running" => grp.status = "running" \/ SpawnGroup
                   /\ grp'.status = "done" =>
                        \/ grp.status = "done"
                        \/ \E t \in Thread : ClaimGroup(t) /\ check[t] = "claim"
                   /\ grp.status \in Settled => grp'.status = grp.status
<1>1. ASSUME grp' = grp PROVE Fine
  BY <1>1
<1>2. ASSUME SpawnGroup PROVE Fine
  BY <1>0, <1>2 DEF SpawnGroup, Settled
<1>3. ASSUME SealGroup PROVE Fine
  BY <1>0, <1>3 DEF SealGroup
<1>4. ASSUME Restart PROVE Fine
  BY <1>0, <1>4 DEF Restart, Settled
<1>5. ASSUME NEW c \in Call, MarkGroup(c) PROVE Fine
  BY <1>0, <1>5 DEF MarkGroup, Settled
<1>6. ASSUME NEW t \in Thread, ClaimGroup(t) PROVE Fine
  BY <1>0, <1>6 DEF ClaimGroup, Settled
<1> HIDE DEF Fine
<1>7. Fine
  BY <1>1, <1>2, <1>3, <1>4, <1>5, <1>6, GrpChange
<1> QED BY <1>7 DEF Fine

(* Once spawned, always spawned.                                           *)
LEMMA SpawnedStays ==
  ASSUME TypeOK, CallInv, [Next]_vars, NEW i \in Run, Spawned(i)
  PROVE  Spawned(i)'
<1>0. pc \in [Run -> PC]
  BY DEF TypeOK
<1>1. CASE OwnStep(i)
  <2>1. \/ Launch(i) \/ TaskCleansUp(i) \/ Promote(i) \/ PromoteLost(i)
        \/ \E o \in Terminal : TaskEnds(i, o)
    BY <1>1 DEF OwnStep, CountActive, SpawnStep, InsertRun, InsertRow, Enqueue,
                EnqueueFull, TaskStep, Spawned, Spawning
  <2> QED BY <1>0, <2>1 DEF Launch, TaskCleansUp, Promote, PromoteLost, TaskEnds,
                            Goto, Spawned, Spawning
<1>2. CASE Restart
  BY <1>2 DEF Restart, Spawned, Spawning
<1>3. CASE ~OwnStep(i) /\ ~Restart
  BY <1>3, Elsewhere DEF Spawned
<1> QED BY <1>1, <1>2, <1>3

(* A complete group stays complete.                                        *)
LEMMA CompleteStays ==
  ASSUME TypeOK, CallInv, GroupInv, Complete, [Next]_vars
  PROVE  Complete'
<1>1. grp'.sealed
  BY GrpEffect DEF Complete
<1>2. \A b \in Batch : b \in Run /\ ~InsertRun(b)
  BY RunsAssumption
     DEF Complete, GroupInv, Spawned, Spawning, InsertRun, InsertRow
<1>3. grouped' = grouped /\ grouped \subseteq Batch
  BY <1>2, GrpChange DEF GroupInv
<1>4. ASSUME NEW r \in grouped
      PROVE  proj'[r] \in Settled
  BY <1>2, <1>3, <1>4, ProjStays DEF Complete
<1> QED BY <1>1, <1>3, <1>4 DEF Complete

(* Who looks at the group, and when.                                       *)
LEMMA CheckChange ==
  ASSUME TypeOK, [Next]_vars, NEW t \in Thread
  PROVE  \/ check'[t] = check[t] \/ Restart
         \/ SealGroup /\ t = Seal
         \/ CheckStep(t)
         \/ t \in Run /\ \E o \in Terminal : TaskEnds(t, o)
         \/ t \in Call /\ Stamp(t)
<1> USE DEF spawnVars, tables, memory, history
<1>0. check \in [Thread -> {"none", "load", "claim"}]
  BY DEF TypeOK
<1>1. ASSUME NEW r \in Run, OwnStep(r) \/ MarkFetched(r),
             ~(\E o \in Terminal : TaskEnds(r, o))
      PROVE  UNCHANGED check
  BY <1>1 DEF OwnStep, CountActive, SpawnStep, InsertRun, Enqueue, EnqueueFull,
              TaskStep, Launch, TaskCleansUp, Promote, PromoteLost, MarkFetched
<1>2. ASSUME NEW r \in Run, NEW o \in Terminal, TaskEnds(r, o), r # t
      PROVE  check'[t] = check[t]
  BY <1>0, <1>2 DEF TaskEnds, CheckAfter
<1>3. ASSUME NEW c \in Call, CallBegins(c) \/ (CallStep(c) /\ ~Stamp(c))
      PROVE  UNCHANGED check
  BY <1>3 DEF CallBegins, CancelProjection, CancelGroup, Kill, KillAll, CallStep,
              MarkGroup, PurgeParked, NextChild, ClaimParked, Unpark, Signal
<1>4. ASSUME NEW c \in Call, Stamp(c), c # t
      PROVE  check'[t] = check[t]
  BY <1>0, <1>4 DEF Stamp, CheckAfter
<1>5. ASSUME NEW u \in Thread, CheckStep(u), u # t
      PROVE  check'[t] = check[t]
  BY <1>0, <1>5 DEF CheckStep, LoadGroup, ClaimGroup, ToCheck
<1>6. ASSUME SealGroup, t # Seal
      PROVE  check'[t] = check[t]
  BY <1>0, <1>6 DEF SealGroup
<1>7. ASSUME SpawnGroup \/ SchedulerCounts \/ SchedulerTakes \/ UNCHANGED vars
      PROVE  UNCHANGED check
  BY <1>7 DEF SpawnGroup, SchedulerCounts, SchedulerTakes, vars
<1> HIDE DEF spawnVars, tables, memory, history
<1> QED BY <1>1, <1>2, <1>3, <1>4, <1>5, <1>6, <1>7
        DEF Next, SchedulerStep, OwnStep, TaskStep, CallStep

(* Nobody claims the completion of a group that is not complete.           *)
LEMMA ClaimsAreTrue ==
  ASSUME TypeOK, GroupInv, CallInv, [Next]_vars, NEW t \in Thread,
         check'[t] = "claim"
  PROVE  Complete'
<1>0. check \in [Thread -> {"none", "load", "claim"}]
  BY DEF TypeOK
<1>1. Complete
  <2>1. CASE check'[t] = check[t]
    BY <2>1 DEF GroupInv
  <2>2. CASE Restart
    BY <2>2 DEF Restart
  <2>3. CASE SealGroup /\ t = Seal
    BY <1>0, <2>3 DEF SealGroup
  <2>4. CASE LoadGroup(t)
    BY <1>0, <2>4 DEF LoadGroup, ToCheck, Children, Complete
  <2>5. CASE ClaimGroup(t)
    BY <1>0, <2>5 DEF ClaimGroup, ToCheck
  <2>6. ASSUME NEW o \in Terminal, TaskEnds(t, o)
        PROVE  FALSE
    BY <1>0, <2>6 DEF TaskEnds, CheckAfter
  <2>7. CASE Stamp(t)
    BY <1>0, <2>7 DEF Stamp, CheckAfter
  <2> QED BY <2>1, <2>2, <2>3, <2>4, <2>5, <2>6, <2>7, CheckChange DEF CheckStep
<1> QED BY <1>1, CompleteStays

(* Every step preserves what is said of the group.                         *)
LEMMA GroupStep ==
  ASSUME TypeOK, CallInv, RowInv, GroupInv, [Next]_vars
  PROVE  GroupInv'
<1>0. Batch \subseteq Run /\ pc \in [Run -> PC]
      /\ proj \in [Run -> {"none", "queued", "running", "cancelling"} \cup Settled]
  BY RunsAssumption DEF TypeOK
<1>1. ASSUME grp'.status = "none"
      PROVE  ~grp'.sealed /\ \A b \in Batch : pc'[b] \in {"new", "lost"}
  <2>1. grp.status = "none"
    BY <1>1, GrpEffect
  <2>2. ~grp'.sealed
    BY <2>1, GrpEffect DEF GroupInv, SealGroup
  <2>3. ASSUME NEW b \in Batch
        PROVE  pc'[b] \in {"new", "lost"}
    <3>1. pc[b] \in {"new", "lost"} /\ b \in Run
      BY <1>0, <2>1 DEF GroupInv
    <3>2. ~OwnStep(b)
      BY <2>1, <3>1
         DEF OwnStep, CountActive, SpawnStep, InsertRun, InsertRow, Enqueue,
             EnqueueFull, TaskStep, Launch, TaskEnds, TaskCleansUp, Promote,
             PromoteLost, MayPromote
    <3>3. CASE Restart
      BY <1>0, <3>1, <3>3 DEF Restart
    <3> QED BY <3>1, <3>2, <3>3, Elsewhere
  <2> QED BY <2>2, <2>3
<1>2. grouped' \subseteq Batch
  BY GrpChange DEF GroupInv
<1>3. ASSUME NEW b \in Batch
      PROVE  b \in grouped' <=> proj'[b] # "none"
  <2>0. b \in Run /\ (b \in grouped <=> proj[b] # "none")
    BY <1>0 DEF GroupInv
  <2>1. CASE InsertRun(b)
    <3>1. b \notin grouped /\ proj[b] = "none"
      BY <2>0, <2>1 DEF InsertRun, InsertRow, RowInv, RowOf, Inserted
    <3>2. AsJob(row'[b]) # "none"
      BY DEF AsJob
    <3> QED BY <1>0, <2>0, <2>1, <3>1, <3>2 DEF InsertRun
  <2>2. CASE ~InsertRun(b)
    <3>1. b \in grouped' <=> b \in grouped
      BY <2>2, GrpChange
    <3> QED BY <2>0, <2>2, <3>1, ProjStays
  <2> QED BY <2>1, <2>2
<1>4. ASSUME grp'.sealed, NEW b \in Batch
      PROVE  Spawned(b)'
  <2>1. Spawned(b)
    BY <1>4, GrpEffect DEF GroupInv, SealGroup, Spawned
  <2> QED BY <1>0, <2>1, SpawnedStays
<1>5. grp'.status = "done" => Complete'
  <2>1. ASSUME grp'.status = "done"
        PROVE  Complete
    BY <2>1, GrpEffect DEF GroupInv
  <2> QED BY <2>1, CompleteStays
<1>6. \A t \in Thread : check'[t] = "claim" => Complete'
  BY ClaimsAreTrue
<1> QED BY <1>1, <1>2, <1>3, <1>4, <1>5, <1>6 DEF GroupInv

(* A call that cancels a group has its children, and the group is over     *)
(* before any of them is cancelled.                                        *)
GroupCallOf(c) ==
  call[c].kind = "group" =>
    /\ grp.status # "none" /\ call[c].at # "purge"
    /\ call[c].at # "mark" =>
         /\ grp.status # "running" /\ call[c].todo \subseteq grouped
         /\ call[c].at \in {"claim", "signal", "stamp"} => call[c].run \in grouped

GroupCallInv == \A c \in Call : GroupCallOf(c)

(* Every step preserves what is said of the calls that cancel a group.     *)
LEMMA GroupCallStep ==
  ASSUME TypeOK, GroupCallInv, [Next]_vars
  PROVE  GroupCallInv'
<1> USE DEF spawnVars, tables, memory, history
<1>0. /\ grp.status # "none" => grp'.status # "none"
      /\ grp.status \notin {"none", "running"} => grp'.status # "running"
      /\ grouped \subseteq grouped'
  BY GrpEffect, GrpChange DEF SpawnGroup
<1> HIDE DEF spawnVars, tables, memory, history
<1> SUFFICES ASSUME NEW c \in Call PROVE GroupCallOf(c)'
  BY DEF GroupCallInv
<1> USE DEF GroupCallOf
<1>1. GroupCallOf(c)
  BY DEF GroupCallInv
<1>2. CASE call'[c] = call[c]
  BY <1>0, <1>1, <1>2
<1>3. CASE Restart
  BY <1>3 DEF Restart, Idle
<1>4. ASSUME NEW r, CancelProjection(c, r) \/ Kill(c, r)
      PROVE  GroupCallOf(c)'
  <2>1. CASE Begin(c, "job", "claim", r)
    BY <2>1, BeginEffect
  <2>2. CASE Begin(c, "kill", "signal", r)
    BY <2>2, BeginEffect
  <2> QED BY <1>4, <2>1, <2>2 DEF CancelProjection, Kill
<1>5. CASE CancelGroup(c)
  <2>1. call'[c].at = "mark" /\ grp.status = "running"
    BY <1>5, BeginEffect DEF CancelGroup
  <2> QED BY <1>0, <2>1
<1>6. CASE KillAll(c)
  <2>1. Begin(c, "kill_all", "purge", NoRun)
    BY <1>6 DEF KillAll
  <2>2. call'[c].kind = "kill_all"
    BY <2>1, BeginEffect
  <2> QED BY <2>2
<1>7. CASE MarkGroup(c)
  <2>1. /\ call'[c].kind = call[c].kind /\ call'[c].at = "next"
        /\ call'[c].todo = grouped
    BY <1>7, ListEffect DEF MarkGroup, Children
  <2>2. grp'.status # "running"
    BY <1>7 DEF MarkGroup, TypeOK
  <2> QED BY <1>0, <1>1, <2>1, <2>2
<1>8. CASE PurgeParked(c)
  <2>1. call[c].kind # "group" /\ call'[c].kind = call[c].kind
    BY <1>1, <1>8, ListEffect DEF PurgeParked
  <2> QED BY <2>1
<1>9. CASE NextChild(c)
  <2>1. call[c].at = "next"
    BY <1>9 DEF NextChild
  <2>2. CASE Step(c, "done")
    BY <1>0, <1>1, <2>1, <2>2, StepEffect
  <2>3. ASSUME NEW r \in call[c].todo,
               call' = [call EXCEPT ![c] = [@ EXCEPT !.at = "claim", !.run = r,
                                            !.todo = call[c].todo \ {r}]]
        PROVE  GroupCallOf(c)'
    <3>1. /\ call'[c].kind = call[c].kind /\ call'[c].at = "claim"
          /\ call'[c].run = r /\ call'[c].todo = call[c].todo \ {r}
      BY <2>3, NextEffect
    <3> QED BY <1>0, <1>1, <2>1, <2>3, <3>1
  <2> QED BY <1>9, <2>2, <2>3 DEF NextChild
<1>10. ASSUME NEW l, Step(c, l), call[c].at \in {"claim", "signal", "stamp"},
              l \notin {"mark", "purge"}
       PROVE  GroupCallOf(c)'
  BY <1>0, <1>1, <1>10, StepEffect
<1>11. CASE ClaimParked(c) \/ Signal(c) \/ Stamp(c)
  <2>1. call[c].at \in {"claim", "signal", "stamp"}
    BY <1>11 DEF ClaimParked, Unpark, Signal, Stamp
  <2>2. \E l \in {"stamp", "signal", "done", "next"} : Step(c, l)
    BY <1>11 DEF ClaimParked, Unpark, Signal, Stamp, AfterCancel
  <2> QED BY <1>10, <2>1, <2>2
<1> QED BY <1>2, <1>3, <1>4, <1>5, <1>6, <1>7, <1>8, <1>9, <1>11, CallChange
        DEF CallBegins, CallStep

-----------------------------------------------------------------------------
(* Completion checks.  A task or a call that looks at the group does so    *)
(* between two of its own steps.                                           *)
CheckInv ==
  /\ \A r \in Run : check[r] # "none" => pc[r] = "checking"
  /\ \A c \in Call : check[c] # "none" => call[c].at \in {"next", "done"}

(* The thread of a check makes no other step.                              *)
LEMMA CheckersWait ==
  ASSUME TypeOK, CallInv, CheckInv, [Next]_vars, ~Restart
  PROVE  /\ \A r \in Run : check[r] # "none" => pc'[r] = "checking"
         /\ \A c \in Call : check[c] # "none" => call'[c] = call[c]
<1>1. ASSUME NEW r \in Run, check[r] # "none"
      PROVE  pc'[r] = "checking"
  <2>1. pc[r] = "checking"
    BY <1>1 DEF CheckInv
  <2>2. ~OwnStep(r)
    BY <1>1, <2>1
       DEF OwnStep, CountActive, SpawnStep, InsertRun, InsertRow, Enqueue,
           EnqueueFull, TaskStep, Launch, TaskEnds, TaskCleansUp, Promote,
           PromoteLost, MayPromote
  <2> QED BY <2>1, <2>2, Elsewhere
<1>2. ASSUME NEW c \in Call, check[c] # "none"
      PROVE  call'[c] = call[c]
  <2>1. call[c].at \in {"next", "done"}
    BY <1>2 DEF CheckInv
  <2>2. ~CallBegins(c)
    BY <2>1 DEF CallBegins, CancelProjection, CancelGroup, Kill, KillAll, Begin
  <2>3. ~CallStep(c)
    BY <1>2, <2>1 DEF CallStep, MarkGroup, PurgeParked, NextChild, ClaimParked,
                      Unpark, Signal, Stamp
  <2> QED BY <2>2, <2>3, CallChange
<1> QED BY <1>1, <1>2

(* Every step preserves it.                                                *)
LEMMA CheckInvStep ==
  ASSUME TypeOK, CallInv, CheckInv, [Next]_vars
  PROVE  CheckInv'
<1>0. /\ Run \subseteq Thread /\ Call \subseteq Thread
      /\ Seal \notin Run \cup Call /\ Run \cap Call = {}
      /\ check \in [Thread -> {"none", "load", "claim"}] /\ pc \in [Run -> PC]
  BY RunsAssumption DEF Thread, TypeOK
<1>1. CASE Restart
  BY <1>0, <1>1 DEF Restart, CheckInv
<1>2. ASSUME ~Restart, NEW r \in Run, check'[r] # "none"
      PROVE  pc'[r] = "checking"
  <2>1. CASE check[r] # "none"
    BY <1>2, <2>1, CheckersWait
  <2>2. CASE check[r] = "none"
    <3>1. ~CheckStep(r)
      BY <2>2 DEF CheckStep, LoadGroup, ClaimGroup
    <3>2. \E o \in Terminal : TaskEnds(r, o)
      BY <1>0, <1>2, <2>2, <3>1, CheckChange
    <3> QED BY <1>0, <3>2 DEF TaskEnds, Goto
  <2> QED BY <2>1, <2>2
<1>3. ASSUME ~Restart, NEW c \in Call, check'[c] # "none"
      PROVE  call'[c].at \in {"next", "done"}
  <2>1. CASE check[c] # "none"
    BY <1>3, <2>1, CheckersWait DEF CheckInv
  <2>2. CASE check[c] = "none"
    <3>1. ~CheckStep(c)
      BY <2>2 DEF CheckStep, LoadGroup, ClaimGroup
    <3>2. Stamp(c)
      BY <1>0, <1>3, <2>2, <3>1, CheckChange
    <3>3. \E l \in {"next", "done"} : Step(c, l)
      BY <3>2 DEF Stamp, AfterCancel
    <3> QED BY <3>3, StepEffect
  <2> QED BY <2>1, <2>2
<1> QED BY <1>1, <1>2, <1>3 DEF CheckInv

(* Who settles a projection.                                               *)
LEMMA ProjSettles ==
  ASSUME TypeOK, CallInv, [Next]_vars, NEW i \in Run,
         proj[i] \notin Settled \cup {"none"}, proj'[i] \in Settled
  PROVE  \/ Restart \/ EnqueueFull(i)
         \/ \E o \in Terminal : TaskEnds(i, o)
         \/ \E c \in Call : Stamp(c) /\ call[c].run = i
<1> USE DEF spawnVars, tables, memory, history
<1> DEFINE Open == proj'[i] \notin Settled
<1>0. proj \in [Run -> {"none", "queued", "running", "cancelling"} \cup Settled]
      /\ Settled = {"done", "cancelled", "interrupted"}
  BY DEF TypeOK, Settled
<1>1. ASSUME proj' = proj
      PROVE  Open
  BY <1>1
<1>2. ASSUME NEW r \in Run, NEW s, SyncTo(r, s), r # i
      PROVE  Open
  BY <1>0, <1>2 DEF SyncTo
<1>3. ASSUME NEW r \in Run, NEW s \in {"queued", "spawning", "running"}, SyncTo(r, s)
      PROVE  Open
  BY <1>0, <1>3 DEF SyncTo, AsJob
<1>4. ASSUME NEW r \in Run, InsertRun(r)
      PROVE  Open
  <2>1. row'[r] \in {"queued", "spawning"}
    BY <1>4 DEF InsertRun, InsertRow, TypeOK
  <2>2. AsJob(row'[r]) \notin Settled
    BY <1>0, <2>1 DEF AsJob
  <2> QED BY <1>0, <1>4, <2>2 DEF InsertRun
<1>5. ASSUME NEW c \in Call, NEW r \in Run, CancelProjection(c, r)
      PROVE  Open
  BY <1>0, <1>5 DEF CancelProjection
<1> HIDE DEF Open
<1>6. ASSUME NEW r \in Run, OwnStep(r) \/ MarkFetched(r), r # i
      PROVE  Open
  BY <1>1, <1>2, <1>4, <1>6
     DEF OwnStep, CountActive, SpawnStep, Enqueue, EnqueueFull, TaskStep, Launch,
         TaskEnds, TaskCleansUp, Promote, PromoteLost, MarkFetched
<1>7. ASSUME OwnStep(i) \/ MarkFetched(i), ~EnqueueFull(i),
             ~(\E o \in Terminal : TaskEnds(i, o))
      PROVE  Open
  BY <1>1, <1>3, <1>4, <1>7
     DEF OwnStep, CountActive, SpawnStep, Enqueue, TaskStep, Launch,
         TaskCleansUp, Promote, PromoteLost, MarkFetched
<1>8. ASSUME NEW c \in Call, Stamp(c), call[c].run # i
      PROVE  Open
  <2>1. call[c].run \in Run
    BY <1>8 DEF Stamp, CallInv
  <2> QED BY <1>2, <1>8, <2>1 DEF Stamp
<1>9. ASSUME NEW c \in Call,
             \/ CancelGroup(c) \/ KillAll(c) \/ (CallStep(c) /\ ~Stamp(c))
             \/ \E r \in Run : Kill(c, r)
      PROVE  Open
  BY <1>1, <1>9 DEF CancelGroup, KillAll, CallStep, MarkGroup, PurgeParked,
                    NextChild, ClaimParked, Unpark, Signal, Kill
<1>10. ASSUME \/ SpawnGroup \/ SealGroup \/ SchedulerCounts \/ SchedulerTakes
              \/ UNCHANGED vars \/ \E t \in Thread : CheckStep(t)
       PROVE  Open
  BY <1>1, <1>10 DEF SpawnGroup, SealGroup, SchedulerCounts, SchedulerTakes,
                     CheckStep, LoadGroup, ClaimGroup, vars
<1> HIDE DEF spawnVars, tables, memory, history
<1>11. Target \subseteq Run
  BY RunsAssumption
<1>12. ~Open
  BY DEF Open
<1> QED BY <1>5, <1>6, <1>7, <1>8, <1>9, <1>10, <1>11, <1>12
        DEF Next, SchedulerStep, OwnStep, CallBegins

(* When a sealed group has no open child left, somebody is looking at it.  *)
LEMMA NoticedStep ==
  ASSUME TypeOK, CallInv, GroupInv, CheckInv, GroupIsNoticed, [Next]_vars
  PROVE  GroupIsNoticed'
<1> SUFFICES ASSUME grp'.status = "running", grp'.sealed,
                    \A r \in grouped' : proj'[r] \in Settled
             PROVE  \E t \in Thread : check'[t] # "none"
  BY DEF GroupIsNoticed, Children
<1>0. /\ Run \subseteq Thread /\ Call \subseteq Thread /\ Seal \in Thread
      /\ check \in [Thread -> {"none", "load", "claim"}] /\ Batch \subseteq Run
      /\ proj \in [Run -> {"none", "queued", "running", "cancelling"} \cup Settled]
  BY RunsAssumption DEF Thread, TypeOK
<1>1. CASE SealGroup
  <2>1. check'[Seal] = "load"
    BY <1>0, <1>1 DEF SealGroup
  <2> QED BY <1>0, <2>1
<1>2. CASE ~SealGroup
  <2>1. grp.sealed /\ grp.status = "running"
    <3>1. grp.sealed
      BY <1>2, GrpEffect
    <3>2. ~SpawnGroup
      BY <3>1 DEF SpawnGroup, GroupInv
    <3> QED BY <3>1, <3>2, GrpEffect
  <2>2. ~Restart
    BY <2>1 DEF Restart, TypeOK
  <2>3. /\ grouped' = grouped /\ grouped \subseteq Batch
        /\ \A r \in grouped : r \in Run /\ ~EnqueueFull(r) /\ proj[r] # "none"
    <3>1. \A b \in Batch : b \in Run /\ ~InsertRun(b) /\ ~EnqueueFull(b)
      BY <1>0, <2>1 DEF GroupInv, Spawned, Spawning, InsertRun, InsertRow,
                        EnqueueFull
    <3> QED BY <3>1, GrpChange DEF GroupInv
  <2>4. ASSUME NEW t \in Thread, check[t] # "none",
               \A r \in grouped : proj[r] \in Settled
        PROVE  check'[t] # "none"
    <3>1. CASE LoadGroup(t)
      BY <1>0, <2>1, <2>4, <3>1 DEF LoadGroup, ToCheck, Children
    <3>2. ~ClaimGroup(t)
      BY <2>1 DEF ClaimGroup, TypeOK
    <3>3. t \in Run => \A o \in Terminal : ~TaskEnds(t, o)
      BY <2>4 DEF CheckInv, TaskEnds
    <3>4. t \in Call => ~Stamp(t)
      BY <2>4 DEF CheckInv, Stamp
    <3> QED BY <1>2, <2>2, <2>4, <3>1, <3>2, <3>3, <3>4, CheckChange DEF CheckStep
  <2>5. CASE \A r \in grouped : proj[r] \in Settled
    <3>1. PICK t \in Thread : check[t] # "none"
      BY <2>1, <2>5 DEF GroupIsNoticed, Children
    <3> QED BY <2>4, <2>5, <3>1
  <2>6. ASSUME NEW r \in grouped, proj[r] \notin Settled
        PROVE  \E t \in Thread : check'[t] # "none"
    <3>1. \/ \E o \in Terminal : TaskEnds(r, o)
          \/ \E c \in Call : Stamp(c) /\ call[c].run = r
      BY <2>2, <2>3, <2>6, ProjSettles
    <3>2. ASSUME NEW o \in Terminal, TaskEnds(r, o)
          PROVE  check'[r] = "load" /\ r \in Thread
      BY <1>0, <2>3, <2>6, <3>2 DEF TaskEnds, CheckAfter
    <3>3. ASSUME NEW c \in Call, Stamp(c), call[c].run = r
          PROVE  check'[c] = "load" /\ c \in Thread
      BY <1>0, <2>3, <2>6, <3>3 DEF Stamp, CheckAfter
    <3> QED BY <3>1, <3>2, <3>3
  <2> QED BY <2>5, <2>6
<1> QED BY <1>1, <1>2

-----------------------------------------------------------------------------
(* Deliveries.  The merged injection of a group that is done reports each  *)
(* of its children once, a run that is alone is injected by its own task,  *)
(* and a group that was cancelled with an open child is never done.        *)
DeliveryOf(r) ==
  /\ merged[r] # 0 => merged[r] = 1 /\ r \in grouped /\ grp.status = "done"
  /\ solo[r] # 0 => solo[r] = 1 /\ pc[r] = "done" /\ r \notin grouped
  /\ pc[r] = "checking" =>
       out[r] \in Terminal /\ (out[r] = "killed" => row[r] = "killed")
  /\ r \notin Readable \cup grouped /\ pc[r] = "done" /\ row[r] # "killed"
       => solo[r] = 1

DeliveryInv ==
  /\ fetched \subseteq Readable
  /\ seen.withdrawn => grp.status \in {"cancelled", "interrupted"}
  /\ grp.status = "done" => \A r \in grouped \ Readable : merged[r] = 1
  /\ \A r \in Run : DeliveryOf(r)

(* The steps that touch the marks, the merged injections and what is       *)
(* remembered of the group.                                                *)
LEMMA MarksChange ==
  ASSUME TypeOK, [Next]_vars
  PROVE  /\ \/ fetched' \subseteq fetched
            \/ \E r \in Readable : fetched' = fetched \cup {r}
         /\ \/ merged' = merged
            \/ \E t \in Thread : /\ ClaimGroup(t) /\ grp.status = "running"
                                 /\ grp'.status = "done" /\ Report
         /\ \/ seen'.withdrawn = seen.withdrawn
            \/ \E c \in Call : /\ call[c].at = "claim" /\ call[c].kind = "group"
                               /\ proj[call[c].run] \notin Settled
                               /\ UNCHANGED grp
<1> USE DEF spawnVars, tables, memory, history
<1>0. /\ seen \in [stamped : SUBSET Run, dropped : SUBSET Run, withdrawn : BOOLEAN]
      /\ grp \in [status : {"none", "running"} \cup Settled, sealed : BOOLEAN]
  BY DEF TypeOK
<1> DEFINE Marks == \/ fetched' \subseteq fetched
                    \/ \E r \in Readable : fetched' = fetched \cup {r}
           Same == merged' = merged /\ seen'.withdrawn = seen.withdrawn
<1>1. ASSUME NEW r \in Run, OwnStep(r)
      PROVE  Marks /\ Same
  <2>1. CASE TaskCleansUp(r)
    BY <2>1 DEF TaskCleansUp
  <2>2. CASE ~TaskCleansUp(r)
    BY <1>1, <2>2
       DEF OwnStep, CountActive, SpawnStep, InsertRun, Enqueue, EnqueueFull,
           TaskStep, Launch, TaskEnds, Promote, PromoteLost
  <2> QED BY <2>1, <2>2
<1>2. ASSUME NEW r \in Run, MarkFetched(r)
      PROVE  Marks /\ Same
  BY <1>2 DEF MarkFetched
<1>3. ASSUME \/ SpawnGroup \/ SealGroup \/ SchedulerCounts \/ SchedulerTakes
             \/ UNCHANGED vars \/ \E t \in Thread : LoadGroup(t)
      PROVE  Marks /\ Same
  BY <1>3 DEF SpawnGroup, SealGroup, SchedulerCounts, SchedulerTakes, LoadGroup,
              vars
<1>4. ASSUME Restart
      PROVE  Marks /\ Same
  BY <1>4 DEF Restart
<1>5. ASSUME NEW t \in Thread, ClaimGroup(t)
      PROVE  /\ Marks
             /\ \/ merged' = merged
                \/ grp.status = "running" /\ grp'.status = "done" /\ Report
             /\ seen'.withdrawn = seen.withdrawn
  BY <1>0, <1>5 DEF ClaimGroup, Report
<1>6. ASSUME NEW c \in Call, CallBegins(c) \/ (CallStep(c) /\ ~ClaimParked(c))
      PROVE  Marks /\ Same
  <2>1. CASE CallBegins(c)
    BY <2>1 DEF CallBegins, CancelProjection, CancelGroup, Kill, KillAll
  <2>2. CASE MarkGroup(c) \/ NextChild(c) \/ Signal(c)
    BY <2>2 DEF MarkGroup, NextChild, Signal
  <2>3. CASE PurgeParked(c) \/ Stamp(c)
    BY <1>0, <2>3 DEF PurgeParked, Stamp
  <2> QED BY <1>6, <2>1, <2>2, <2>3 DEF CallStep
<1>7. ASSUME NEW c \in Call, ClaimParked(c)
      PROVE  /\ Marks /\ merged' = merged
             /\ \/ seen'.withdrawn = seen.withdrawn
                \/ /\ call[c].at = "claim" /\ call[c].kind = "group"
                   /\ proj[call[c].run] \notin Settled
                   /\ UNCHANGED grp
  BY <1>0, <1>7 DEF ClaimParked, Unpark
<1> HIDE DEF spawnVars, tables, memory, history, Marks, Same
<1>8. \/ Marks /\ Same
      \/ \E t \in Thread : ClaimGroup(t)
      \/ \E c \in Call : ClaimParked(c)
  BY <1>1, <1>2, <1>3, <1>4, <1>6
     DEF Next, SchedulerStep, OwnStep, CheckStep, CallStep
<1>9. CASE Marks /\ Same
  BY <1>9 DEF Marks, Same
<1>10. CASE \E t \in Thread : ClaimGroup(t)
  BY <1>5, <1>10 DEF Marks
<1>11. CASE \E c \in Call : ClaimParked(c)
  BY <1>7, <1>11 DEF Marks
<1> QED BY <1>8, <1>9, <1>10, <1>11

(* Every step keeps what is delivered once delivered once.                 *)
LEMMA DeliveryOfStep ==
  ASSUME TypeOK, CallInv, RowInv, GroupInv, DeliveryInv, [Next]_vars,
         NEW i \in Run
  PROVE  DeliveryOf(i)'
<1> USE DEF spawnVars, tables, memory, history
<1>0. /\ pc \in [Run -> PC] /\ solo \in [Run -> Nat] /\ merged \in [Run -> Nat]
      /\ out \in [Run -> {"none"} \cup Terminal]
      /\ row \in [Run -> {"none", "queued", "spawning", "running"} \cup Terminal]
      /\ DeliveryOf(i) /\ RowOf(i) /\ fetched \subseteq Readable
  BY DEF TypeOK, DeliveryInv, RowInv
<1>1. merged'[i] # 0 => merged'[i] = 1 /\ i \in grouped' /\ grp'.status = "done"
  <2>1. CASE merged' = merged
    <3>1. merged[i] # 0 => grp'.status = "done"
      BY <1>0, GrpEffect DEF DeliveryOf, Settled
    <3>2. grouped \subseteq grouped'
      BY GrpChange
    <3> QED BY <1>0, <2>1, <3>1, <3>2 DEF DeliveryOf
  <2>2. CASE \E t \in Thread : /\ ClaimGroup(t) /\ grp.status = "running"
                               /\ grp'.status = "done" /\ Report
    <3>1. merged[i] = 0 /\ grouped' = grouped
      BY <1>0, <2>2 DEF DeliveryOf, ClaimGroup
    <3> QED BY <1>0, <2>2, <3>1 DEF Report, Children
  <2> QED BY <2>1, <2>2, MarksChange
<1>2. CASE ~OwnStep(i) /\ ~Restart
  <2>1. /\ pc'[i] = pc[i] /\ out'[i] = out[i] /\ solo'[i] = solo[i]
        /\ i \in grouped' <=> i \in grouped
        /\ row'[i] = row[i] \/ row'[i] = "killed"
    BY <1>2, Elsewhere
  <2> QED BY <1>0, <1>1, <2>1 DEF DeliveryOf
<1>3. CASE Restart
  <2>1. /\ pc'[i] = IF pc[i] \in {"done", "rejected"} THEN pc[i] ELSE "lost"
        /\ solo' = solo /\ grouped' = grouped
        /\ row[i] \in Terminal => row'[i] = row[i]
    BY <1>3 DEF Restart
  <2>2. pc'[i] = "done" => pc[i] = "done"
    BY <2>1
  <2>3. pc'[i] = "done" => row'[i] = row[i]
    BY <1>0, <2>1, <2>2 DEF RowOf
  <2> QED BY <1>0, <1>1, <2>1, <2>2, <2>3 DEF DeliveryOf
<1>4. CASE TaskCleansUp(i)
  <2>1. /\ pc[i] = "checking" /\ pc'[i] = "done" /\ row' = row
        /\ grouped' = grouped
        /\ solo'[i] = IF i \notin grouped /\ out[i] # "killed" /\ i \notin fetched
                      THEN solo[i] + 1 ELSE solo[i]
    BY <1>0, <1>4 DEF TaskCleansUp, Goto
  <2>2. solo[i] = 0 /\ (out[i] = "killed" => row[i] = "killed")
    BY <1>0, <2>1 DEF DeliveryOf
  <2> QED BY <1>0, <1>1, <2>1, <2>2 DEF DeliveryOf
<1>5. ASSUME NEW o \in Terminal, TaskEnds(i, o)
      PROVE  DeliveryOf(i)'
  <2>1. /\ pc[i] = "exec" /\ pc'[i] = "checking" /\ row'[i] = o /\ out'[i] = o
        /\ solo' = solo
    BY <1>0, <1>5 DEF TaskEnds, Goto
  <2> QED BY <1>0, <1>1, <2>1 DEF DeliveryOf
<1>6. CASE OwnStep(i) /\ ~TaskCleansUp(i) /\ (\A o \in Terminal : ~TaskEnds(i, o))
  <2>1. /\ pc[i] # "done" /\ pc'[i] \notin {"checking", "done"} /\ solo' = solo
    BY <1>0, <1>6
       DEF OwnStep, CountActive, SpawnStep, InsertRun, InsertRow, Enqueue,
           EnqueueFull, TaskStep, Launch, Promote, PromoteLost, Goto, MayPromote
  <2> QED BY <1>0, <1>1, <2>1 DEF DeliveryOf
<1> HIDE DEF spawnVars, tables, memory, history
<1> QED BY <1>2, <1>3, <1>4, <1>5, <1>6

(* Every step preserves what is said of the deliveries.                    *)
LEMMA DeliveryStep ==
  ASSUME TypeOK, CallInv, RowInv, GroupInv, GroupCallInv, DeliveryInv, [Next]_vars
  PROVE  DeliveryInv'
<1>0. grp \in [status : {"none", "running"} \cup Settled, sealed : BOOLEAN]
      /\ grouped \subseteq Run /\ merged \in [Run -> Nat]
  BY DEF TypeOK
<1>1. fetched' \subseteq Readable
  BY MarksChange DEF DeliveryInv
<1>2. ASSUME seen'.withdrawn
      PROVE  grp'.status \in {"cancelled", "interrupted"}
  <2>1. CASE seen'.withdrawn = seen.withdrawn
    BY <1>2, <2>1, GrpEffect DEF DeliveryInv, Settled
  <2>2. ASSUME NEW c \in Call, call[c].at = "claim", call[c].kind = "group",
               proj[call[c].run] \notin Settled, UNCHANGED grp
        PROVE  grp'.status \in {"cancelled", "interrupted"}
    <3>1. grp.status \notin {"none", "running"} /\ call[c].run \in grouped
      BY <2>2 DEF GroupCallInv, GroupCallOf
    <3>2. grp.status # "done"
      BY <2>2, <3>1 DEF GroupInv, Complete
    <3> QED BY <1>0, <2>2, <3>1, <3>2 DEF Settled
  <2> QED BY <2>1, <2>2, MarksChange
<1>3. ASSUME grp'.status = "done", NEW r \in grouped' \ Readable
      PROVE  merged'[r] = 1
  <2>1. CASE grp.status = "done"
    <3>1. \A b \in Batch : ~InsertRun(b)
      BY <2>1 DEF GroupInv, Complete, Spawned, Spawning, InsertRun, InsertRow
    <3>2. grouped' = grouped
      BY <3>1, GrpChange
    <3>3. merged' = merged
      BY <2>1, MarksChange
    <3> QED BY <1>3, <2>1, <3>2, <3>3 DEF DeliveryInv
  <2>2. CASE grp.status # "done"
    <3>1. PICK t \in Thread : ClaimGroup(t)
      BY <1>3, <2>2, GrpEffect
    <3>2. Report /\ grouped' = grouped
      BY <1>3, <2>2, <3>1 DEF ClaimGroup
    <3>3. merged[r] = 0 /\ r \in Run
      BY <1>0, <1>3, <2>2, <3>2 DEF DeliveryInv, DeliveryOf
    <3>4. r \in Children /\ ~(Children \subseteq fetched)
      BY <1>3, <3>2 DEF DeliveryInv, Children
    <3> QED BY <3>2, <3>3, <3>4 DEF Report
  <2> QED BY <2>1, <2>2
<1>4. \A r \in Run : DeliveryOf(r)'
  BY DeliveryOfStep
<1> QED BY <1>1, <1>2, <1>3, <1>4 DEF DeliveryInv

-----------------------------------------------------------------------------
(* Parked runs.  A run leaves the queue for the hands of the scheduler, of *)
(* the call that claimed it, or of kill_all.                               *)
LEMMA QueueLoss ==
  ASSUME TypeOK, [Next]_vars, NEW r \in Run, r \in ToSet(queue)
  PROVE  \/ r \in ToSet(queue') \/ Restart
         \/ sched'.held = r
         \/ \E c \in Call : ClaimParked(c) /\ call[c].run = r
         \/ r \in seen'.dropped
<1> USE DEF spawnVars, tables, memory, history
<1>0. /\ queue \in Seq(Run) /\ IsInjective(queue)
      /\ sched \in [free : 0 .. Cap, held : Run \cup {NoRun}]
      /\ seen \in [stamped : SUBSET Run, dropped : SUBSET Run, withdrawn : BOOLEAN]
  BY DEF TypeOK
<1>1. ASSUME NEW k \in Run, Enqueue(k)
      PROVE  r \in ToSet(queue')
  BY <1>0, <1>1, Pushed DEF Enqueue
<1>2. ASSUME SchedulerTakes
      PROVE  r \in ToSet(queue') \/ sched'.held = r
  <2>1. CASE queue = <<>>
    BY <1>2, <2>1 DEF SchedulerTakes
  <2>2. CASE queue # <<>>
    <3>1. queue' = Tail(queue) /\ sched'.held = Head(queue)
      BY <1>0, <1>2, <2>2 DEF SchedulerTakes
    <3> QED BY <1>0, <2>2, <3>1, TailOf
  <2> QED BY <2>1, <2>2
<1>3. ASSUME NEW c \in Call, ClaimParked(c), call[c].run # r
      PROVE  r \in ToSet(queue')
  <2>1. queue' = Without(queue, {call[c].run})
    BY <1>3 DEF ClaimParked, Unpark
  <2> QED BY <1>0, <1>3, <2>1, WithoutSpec
<1>4. ASSUME NEW c \in Call, PurgeParked(c)
      PROVE  r \in seen'.dropped
  BY <1>0, <1>4 DEF PurgeParked
<1>5. ASSUME NEW k \in Run, OwnStep(k) \/ MarkFetched(k), ~Enqueue(k)
      PROVE  queue' = queue
  BY <1>5 DEF OwnStep, CountActive, SpawnStep, InsertRun, EnqueueFull, TaskStep,
              Launch, TaskEnds, TaskCleansUp, Promote, PromoteLost, MarkFetched
<1>6. ASSUME NEW c \in Call,
             CallBegins(c) \/ (CallStep(c) /\ ~ClaimParked(c) /\ ~PurgeParked(c))
      PROVE  queue' = queue
  BY <1>6 DEF CallBegins, CancelProjection, CancelGroup, Kill, KillAll, CallStep,
              MarkGroup, NextChild, Signal, Stamp
<1>7. ASSUME \/ SpawnGroup \/ SealGroup \/ SchedulerCounts
             \/ UNCHANGED vars \/ \E t \in Thread : CheckStep(t)
      PROVE  queue' = queue
  BY <1>7 DEF SpawnGroup, SealGroup, SchedulerCounts, CheckStep, LoadGroup,
              ClaimGroup, vars
<1> HIDE DEF spawnVars, tables, memory, history
<1> QED BY <1>1, <1>2, <1>3, <1>4, <1>5, <1>6, <1>7
        DEF Next, SchedulerStep, OwnStep

(* What kill_all dropped stays dropped.                                    *)
LEMMA DroppedGrows ==
  ASSUME TypeOK, [Next]_vars
  PROVE  seen.dropped \subseteq seen'.dropped
<1> USE DEF spawnVars, tables, memory, history
<1>0. seen \in [stamped : SUBSET Run, dropped : SUBSET Run, withdrawn : BOOLEAN]
  BY DEF TypeOK
<1>1. ASSUME NEW r \in Run, OwnStep(r) \/ MarkFetched(r)
      PROVE  UNCHANGED seen
  BY <1>1 DEF OwnStep, CountActive, SpawnStep, InsertRun, Enqueue, EnqueueFull,
              TaskStep, Launch, TaskEnds, TaskCleansUp, Promote, PromoteLost,
              MarkFetched
<1>2. ASSUME \/ SpawnGroup \/ SealGroup \/ SchedulerCounts \/ SchedulerTakes
             \/ UNCHANGED vars \/ Restart \/ \E t \in Thread : CheckStep(t)
      PROVE  UNCHANGED seen
  BY <1>2 DEF SpawnGroup, SealGroup, SchedulerCounts, SchedulerTakes, CheckStep,
              LoadGroup, ClaimGroup, Restart, vars
<1>3. ASSUME NEW c \in Call, CallBegins(c) \/ MarkGroup(c) \/ NextChild(c) \/ Signal(c)
      PROVE  UNCHANGED seen
  BY <1>3 DEF CallBegins, CancelProjection, CancelGroup, Kill, KillAll, MarkGroup,
              NextChild, Signal
<1>4. ASSUME NEW c \in Call, PurgeParked(c) \/ ClaimParked(c) \/ Stamp(c)
      PROVE  seen.dropped \subseteq seen'.dropped
  BY <1>0, <1>4 DEF PurgeParked, ClaimParked, Unpark, Stamp
<1> HIDE DEF spawnVars, tables, memory, history
<1> QED BY <1>1, <1>2, <1>3, <1>4 DEF Next, SchedulerStep, OwnStep, CallStep

(* The scheduler keeps the run it holds until it has promoted or lost it.  *)
LEMMA HeldStays ==
  ASSUME TypeOK, CallInv, QueueInv, [Next]_vars, NEW r \in Run, sched.held = r,
         pc[r] = "parked", row[r] = "queued", ~Restart
  PROVE  sched'.held = r
<1> USE DEF spawnVars, tables, memory, history
<1>0. NoRun \notin Run
  BY RunsAssumption
<1>1. ASSUME NEW k \in Run, OwnStep(k)
      PROVE  UNCHANGED sched
  BY <1>1 DEF OwnStep, CountActive, SpawnStep, InsertRun, Enqueue, EnqueueFull,
              TaskStep, Launch, TaskEnds, TaskCleansUp, Promote, PromoteLost,
              MayPromote
<1>2. ASSUME NEW c \in Call, CallBegins(c) \/ CallStep(c)
      PROVE  UNCHANGED sched
  BY <1>2 DEF CallBegins, CancelProjection, CancelGroup, Kill, KillAll, CallStep,
              MarkGroup, PurgeParked, NextChild, ClaimParked, Unpark, Signal,
              Stamp
<1>3. ASSUME \/ SpawnGroup \/ SealGroup \/ UNCHANGED vars
             \/ \E k \in Run : MarkFetched(k)
             \/ \E t \in Thread : CheckStep(t)
      PROVE  UNCHANGED sched
  BY <1>3 DEF SpawnGroup, SealGroup, MarkFetched, CheckStep, LoadGroup,
              ClaimGroup, vars
<1>4. ~SchedulerCounts /\ ~SchedulerTakes
  BY <1>0 DEF SchedulerCounts, SchedulerTakes, MayCount, MayTake
<1> HIDE DEF spawnVars, tables, memory, history
<1>5. UNCHANGED sched
  BY <1>1, <1>2, <1>3, <1>4 DEF Next, SchedulerStep, OwnStep
<1> QED BY <1>5

(* A row that says Queued stays in somebody's hands.                       *)
LEMMA TrackedStep ==
  ASSUME TypeOK, CallInv, RowInv, QueueInv, QueuedIsTracked, [Next]_vars
  PROVE  QueuedIsTracked'
<1> SUFFICES ASSUME NEW r \in Run, row'[r] = "queued", r \notin seen'.dropped
             PROVE  Tracked(r)'
  BY DEF QueuedIsTracked
<1>0. /\ pc \in [Run -> PC] /\ NoRun \notin Run
      /\ row \in [Run -> {"none", "queued", "spawning", "running"} \cup Terminal]
      /\ RowOf(r) /\ "queued" \notin Terminal
  BY RunsAssumption DEF TypeOK, RowInv, Terminal
<1>1. ~Restart
  BY <1>0 DEF Restart
<1>2. CASE row[r] # "queued"
  <2>1. OwnStep(r)
    BY <1>1, <1>2, Elsewhere
  <2>2. InsertRun(r)
    BY <1>0, <1>2, <2>1
       DEF OwnStep, CountActive, SpawnStep, Enqueue, EnqueueFull, TaskStep, Launch,
           TaskEnds, TaskCleansUp, Promote, PromoteLost, spawnVars, tables, memory,
           history
  <2>3. pc'[r] = "park"
    BY <1>0, <2>2 DEF InsertRun, InsertRow, Goto
  <2> QED BY <2>3 DEF Tracked, Spawning
<1>3. CASE row[r] = "queued"
  <2>1. pc[r] \in {"park", "parked"} \cup {"new", "insert", "insertParked"}
    BY <1>0, <1>3 DEF RowOf, PC, Spawning, Tasked, Terminal
  <2>2. pc[r] \in {"park", "parked"}
    BY <1>0, <1>3, <2>1 DEF RowOf, Inserted
  <2>3. Tracked(r)
    BY <1>3, DroppedGrows DEF QueuedIsTracked
  <2>4. CASE r \in ToSet(queue)
    <3>1. ASSUME NEW c \in Call, ClaimParked(c), call[c].run = r
          PROVE  call'[c].run = r /\ call'[c].at = "stamp"
      <4>1. Step(c, "stamp")
        BY <2>4, <3>1 DEF ClaimParked, Unpark
      <4> QED BY <3>1, <4>1, StepEffect
    <3> QED BY <1>1, <2>4, <3>1, QueueLoss DEF Tracked
  <2>5. CASE sched.held = r
    <3>1. pc[r] = "parked"
      BY <1>0, <2>2, <2>5 DEF QueueInv
    <3>2. sched'.held = r
      BY <1>1, <1>3, <2>5, <3>1, HeldStays
    <3> QED BY <3>2 DEF Tracked
  <2>6. CASE pc[r] = "park"
    <3>1. CASE Enqueue(r)
      BY <3>1, Pushed DEF Enqueue, Tracked, TypeOK
    <3>2. ~EnqueueFull(r)
      BY <1>0 DEF EnqueueFull
    <3>3. CASE ~Enqueue(r)
      <4>1. ~OwnStep(r)
        BY <2>6, <3>2, <3>3
           DEF OwnStep, CountActive, SpawnStep, InsertRun, InsertRow, TaskStep,
               Launch, TaskEnds, TaskCleansUp, Promote, PromoteLost, MayPromote
      <4>2. pc'[r] = "park"
        BY <1>1, <2>6, <4>1, Elsewhere
      <4> QED BY <4>2 DEF Tracked, Spawning
    <3> QED BY <3>1, <3>3
  <2>7. ASSUME NEW c \in Call, call[c].run = r, call[c].at = "stamp"
        PROVE  Tracked(r)'
    <3>1. ~Stamp(c)
      BY <1>0, <2>7 DEF Stamp
    <3>2. ~CallBegins(c) /\ ~CallStep(c)
      BY <2>7, <3>1
         DEF CallBegins, CancelProjection, CancelGroup, Kill, KillAll, Begin,
             CallStep, MarkGroup, PurgeParked, NextChild, ClaimParked, Unpark,
             Signal
    <3>3. call'[c] = call[c]
      BY <1>1, <3>2, CallChange
    <3> QED BY <2>7, <3>3 DEF Tracked
  <2> QED BY <2>2, <2>3, <2>4, <2>5, <2>6, <2>7 DEF Tracked, Spawning
<1> QED BY <1>2, <1>3

-----------------------------------------------------------------------------
(* The inductive invariant: where the threads of a run are says what its   *)
(* row is, whom the group knows and who looks at it, and what has been     *)
(* told of a run so far.                                                   *)
Threads == TypeOK /\ FiniteActive /\ QueueInv /\ CallInv /\ RowInv

Groups == GroupInv /\ GroupCallInv /\ CheckInv /\ GroupIsNoticed

Results == StampInv /\ DeliveryInv /\ QueuedIsTracked

RunsInv == Threads /\ Groups /\ Results

(* It holds at first ...                                                   *)
LEMMA RunsInit == Init => RunsInv
<1> SUFFICES ASSUME Init PROVE RunsInv
  OBVIOUS
<1> USE RunsAssumption DEF Init
<1>1. TypeOK
  <2>1. <<>> \in Seq(Run) /\ IsInjective(<<>>)
    BY DEF IsInjective
  <2>2. pc \in [Run -> PC] /\ out \in [Run -> {"none"} \cup Terminal]
    BY DEF PC
  <2>3. /\ row \in [Run -> {"none", "queued", "spawning", "running"} \cup Terminal]
        /\ proj \in [Run -> {"none", "queued", "running", "cancelling"} \cup Settled]
        /\ flag \in [Run -> {"none", "clear", "tripped"}]
    OBVIOUS
  <2>4. call \in [Call -> CallRec]
    BY DEF Idle, CallRec, CallAt
  <2>5. /\ sched \in [free : 0 .. Cap, held : Run \cup {NoRun}]
        /\ grp \in [status : {"none", "running"} \cup Settled, sealed : BOOLEAN]
        /\ check \in [Thread -> {"none", "load", "claim"}]
    OBVIOUS
  <2>6. /\ grouped \subseteq Run /\ fetched \subseteq Run
        /\ solo \in [Run -> Nat] /\ merged \in [Run -> Nat] /\ booted \in BOOLEAN
        /\ seen \in [stamped : SUBSET Run, dropped : SUBSET Run, withdrawn : BOOLEAN]
    OBVIOUS
  <2> QED BY <2>1, <2>2, <2>3, <2>4, <2>5, <2>6 DEF TypeOK, CallRec
<1>2. FiniteActive
  <2>1. Active = {}
    BY DEF Active
  <2> QED BY <2>1, FS_EmptySet DEF FiniteActive
<1>3. QueueInv /\ CallInv /\ RowInv
  BY DEF QueueInv, CallInv, RowInv, RowOf, Idle, ToSet, Inserted
<1>4. GroupInv /\ GroupIsNoticed
  BY DEF GroupInv, GroupIsNoticed, Complete
<1>5. GroupCallInv /\ CheckInv
  <2>1. GroupCallInv
    BY DEF GroupCallInv, GroupCallOf, Idle
  <2>2. CheckInv
    BY DEF CheckInv, Thread
  <2> QED BY <2>1, <2>2
<1>6. StampInv /\ DeliveryInv /\ QueuedIsTracked
  BY DEF StampInv, DeliveryInv, DeliveryOf, QueuedIsTracked
<1> QED BY <1>1, <1>2, <1>3, <1>4, <1>5, <1>6 DEF RunsInv, Threads, Groups, Results

(* ... and every step preserves it.                                        *)
LEMMA RunsStep == RunsInv /\ [Next]_vars => RunsInv'
<1> SUFFICES ASSUME RunsInv, [Next]_vars PROVE RunsInv'
  OBVIOUS
<1> USE DEF RunsInv, Threads, Groups, Results
<1>1. TypeOK'
  BY TypeStep
<1>2. FiniteActive' /\ QueueInv' /\ RowInv'
  BY FiniteStep, QueueStep, RowStep
<1>3. CallInv'
  BY <1>1, CallInvStep
<1>4. GroupInv' /\ GroupCallInv' /\ CheckInv' /\ GroupIsNoticed'
  BY GroupStep, GroupCallStep, CheckInvStep, NoticedStep
<1>5. StampInv' /\ DeliveryInv' /\ QueuedIsTracked'
  BY StampStep, DeliveryStep, TrackedStep
<1> QED BY <1>1, <1>2, <1>3, <1>4, <1>5

(* So it holds in every behaviour of the program.                          *)
THEOREM RunsInvariant == Spec => []RunsInv
<1> QED BY RunsInit, RunsStep, PTL DEF Spec

(* Every variable keeps its type: among others, a run is queued at most    *)
(* once, and the scheduler never holds more slots than there are.          *)
THEOREM RunsTypeCorrect == Spec => []TypeOK
<1>1. RunsInv => TypeOK
  BY DEF RunsInv, Threads
<1> QED BY <1>1, RunsInvariant, PTL

-----------------------------------------------------------------------------
(* A parked run that a cancel call stamped is never launched: promote      *)
(* looks at the row once more.                                             *)
THEOREM NoParkedRunRevives == Spec => []KilledParkedNeverRuns
<1>1. RunsInv => KilledParkedNeverRuns
  BY DEF RunsInv, Results, StampInv, StampOf, KilledParkedNeverRuns, Tasked
<1> QED BY <1>1, RunsInvariant, PTL

(* A batch cancelled while a child was open sends no merged message:       *)
(* cancel_group_job ends the group before it touches the first child.      *)
THEOREM CancelledBatchIsSilent == Spec => []CancelledGroupSilent
<1>1. RunsInv => CancelledGroupSilent
  BY DEF RunsInv, Results, DeliveryInv, DeliveryOf, CancelledGroupSilent
<1> QED BY <1>1, RunsInvariant, PTL

(* The result of a run is told once, in its own injection or in the merged *)
(* one of its batch, and that one is made when every child is over.        *)
THEOREM ResultsAreToldOnce == Spec => []DeliveredOnce
<1>1. ASSUME RunsInv
      PROVE  OneDelivery
  <2>1. ASSUME NEW r \in Run
        PROVE  solo[r] + merged[r] <= 1
    <3>1. DeliveryOf(r) /\ solo[r] \in Nat /\ merged[r] \in Nat
      BY <1>1 DEF RunsInv, Threads, Results, DeliveryInv, TypeOK
    <3> QED BY <3>1 DEF DeliveryOf
  <2> QED BY <2>1 DEF OneDelivery
<1>2. ASSUME RunsInv
      PROVE  MergedIsComplete
  <2>1. ASSUME NEW r \in Run, merged[r] > 0, NEW b \in Batch
        PROVE  Spawned(b) /\ proj[b] \in Settled \cup {"none"}
    <3>1. grp.status = "done"
      BY <1>2, <2>1 DEF RunsInv, Results, DeliveryInv, DeliveryOf
    <3>2. Complete /\ Spawned(b) /\ (b \in grouped <=> proj[b] # "none")
      BY <1>2, <2>1, <3>1 DEF RunsInv, Groups, GroupInv, Complete
    <3> QED BY <3>2 DEF Complete
  <2> QED BY <2>1 DEF MergedIsComplete, Spawned
<1>3. RunsInv => DeliveredOnce
  BY <1>1, <1>2 DEF DeliveredOnce
<1> QED BY <1>3, RunsInvariant, PTL

(* No result is stranded, and a batch whose last child has settled is      *)
(* looked at by the thread that settled it.                                *)
THEOREM NoResultWaitsForever == Spec => []ResultsArrive
<1>1. ASSUME RunsInv
      PROVE  NoResultStranded
  <2>1. ASSUME NEW r \in Run \ Readable, pc[r] = "done",
               row[r] \in {"completed", "failed"}
        PROVE  \/ solo[r] + merged[r] > 0
               \/ /\ r \in grouped /\ proj[r] # "none"
                  /\ grp.status \in {"running", "cancelled", "interrupted"}
    <3>0. /\ DeliveryOf(r) /\ solo[r] \in Nat /\ merged[r] \in Nat
          /\ grp.status \in {"none", "running"} \cup Settled
      BY <1>1 DEF RunsInv, Threads, Results, DeliveryInv, TypeOK
    <3>1. CASE r \notin grouped
      <4>1. solo[r] = 1
        BY <2>1, <3>0, <3>1 DEF DeliveryOf
      <4> QED BY <3>0, <4>1
    <3>2. CASE r \in grouped
      <4>1. r \in Batch /\ proj[r] # "none"
        BY <1>1, <3>2 DEF RunsInv, Groups, GroupInv
      <4>2. grp.status # "none"
        BY <1>1, <2>1, <4>1 DEF RunsInv, Groups, GroupInv
      <4>3. grp.status = "done" => merged[r] = 1
        BY <1>1, <2>1, <3>2 DEF RunsInv, Results, DeliveryInv
      <4>4. CASE grp.status = "done"
        BY <3>0, <4>3, <4>4
      <4>5. CASE grp.status # "done"
        BY <3>0, <3>2, <4>1, <4>2, <4>5 DEF Settled
      <4> QED BY <4>4, <4>5
    <3> QED BY <3>1, <3>2
  <2> QED BY <2>1 DEF NoResultStranded
<1>2. RunsInv => ResultsArrive
  BY <1>1 DEF RunsInv, Groups, ResultsArrive
<1> QED BY <1>2, RunsInvariant, PTL

-----------------------------------------------------------------------------
(* No run waits for ever: a Queued row is in somebody's hands, a row that  *)
(* counts against the limit has a task, and while runs are parked the      *)
(* scheduler can move or a task or a spawn is under way: with every slot   *)
(* taken there is an active run, and that has a task.                      *)
THEOREM NoRowIsForgotten == Spec => []RowsAreDriven
<1>1. RunsInv => ActiveHasTask
  <2>1. ASSUME RunsInv, NEW r \in Active
        PROVE  pc[r] \in Tasked
    <3>1. RowOf(r) /\ r \in Run /\ pc[r] \in PC /\ row[r] \in {"spawning", "running"}
      BY <2>1 DEF RunsInv, Threads, RowInv, Active, TypeOK
    <3> QED BY <3>1 DEF RowOf, Inserted, PC, Spawning, Tasked, Terminal
  <2> QED BY <2>1 DEF ActiveHasTask
<1>2. ASSUME RunsInv
      PROVE  ParkedLeaves
  <2>0. /\ sched \in [free : 0 .. Cap, held : Run \cup {NoRun}]
        /\ Cap \in Nat \ {0} /\ NoRun \notin Run
    BY <1>2, RunsAssumption DEF RunsInv, Threads, TypeOK
  <2>1. CASE sched.held # NoRun
    <3>1. sched.held \in Run /\ pc[sched.held] \in {"parked", "launch"}
      BY <1>2, <2>0, <2>1 DEF RunsInv, Threads, QueueInv
    <3> QED BY <3>1 DEF ParkedLeaves, SchedulerMayMove, MayPromote, Tasked
  <2>2. CASE sched.held = NoRun /\ sched.free > 0
    BY <2>2 DEF ParkedLeaves, SchedulerMayMove, MayTake
  <2>3. CASE sched.held = NoRun /\ sched.free = 0 /\ Active = {}
    <3>1. sched = [free |-> 0, held |-> NoRun]
      BY <2>0, <2>3
    <3>2. Cardinality(Active) < Cap
      BY <2>0, <2>3, FS_EmptySet
    <3> QED BY <3>1, <3>2 DEF ParkedLeaves, SchedulerMayMove, MayCount
  <2>4. CASE Active # {}
    BY <1>1, <1>2, <2>4 DEF ActiveHasTask, Active, ParkedLeaves
  <2> QED BY <2>0, <2>1, <2>2, <2>3, <2>4
<1>3. RunsInv => RowsAreDriven
  BY <1>1, <1>2 DEF RunsInv, Threads, Results, RowsAreDriven
<1> QED BY <1>3, RunsInvariant, PTL
================================================================================

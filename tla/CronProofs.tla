------------------------------ MODULE CronProofs ------------------------------
(***************************************************************************)
(* Theorems about Cron, for any jobs, cap and number of runs: nothing but  *)
(* the user revives a job, a cancel call sets the flag of the run it was   *)
(* meant for, a one-shot job fires once, and every marker has its run.  Of *)
(* jobs whose deliveries end before they are due again: a job has one turn *)
(* at a time, the turns stay within the cap, and the logs are true.        *)
(***************************************************************************)
EXTENDS Cron, SequenceTheorems, FiniteSetTheorems, TLAPS

(* What the proofs need of the types of the variables.                     *)
Status == {"active", "paused", "disabled", "missed", "completed", "deleted"}

RunPC == {"none", "claimed", "drained", "opening", "turn", "ending",
          "unregister", "release", "over"}

RunRecord == [job : Job \cup {None}, pc : RunPC, immediate : BOOLEAN,
              todo : Seq(Steps), outcome : Outcomes \cup {"none"}]

RunShape ==
  /\ run \in [Run -> RunRecord]
  /\ \A r \in Run : Alive(r) => run[r].job \in Job
  /\ \A r \in Run : run[r].pc = "ending" => run[r].todo # <<>>

MemoryShape ==
  /\ running \in [Job -> Run \cup {None}]
  /\ live \in [Job -> Run \cup {None}]
  /\ pending \in [Job -> Run \cup {None}]

CallShape ==
  /\ call \in [pc : {"idle", "cancel", "hold", "delete"},
               job : Job \cup {NoCall.job},
               run : Run \cup {None}, then : {"idle", "delete"}]
  /\ call.pc # "idle" => call.job \in Job
  /\ call.pc \in {"cancel", "hold"} => call.run \in Run

StatusShape == status \in [Job -> Status]

SchedShape ==
  sched = [pc |-> sched.pc, list |-> sched.list, slots |-> sched.slots]

Shape == RunShape /\ MemoryShape /\ CallShape /\ StatusShape /\ SchedShape

-----------------------------------------------------------------------------
(* What is joined of two sequences of steps, one of them nonempty.         *)
LEMMA Joined ==
  ASSUME NEW S, NEW p \in Seq(S), NEW q \in Seq(S), p # <<>> \/ q # <<>>
  PROVE  p \o q \in Seq(S) \ {<<>>}
BY ConcatProperties

(* A step that is made only under a condition.                             *)
LEMMA Conditional ==
  ASSUME NEW S, NEW s \in S, NEW cond
  PROVE  (IF cond THEN <<s>> ELSE <<>>) \in Seq(S)
<1>1. <<s>> \in Seq(S) /\ <<>> \in Seq(S)
  OBVIOUS
<1> QED BY <1>1

(* What is left of a sequence that has more than one element.              *)
LEMMA RestOfMany ==
  ASSUME NEW S, NEW s \in Seq(S), s # <<>>
  PROVE  Tail(s) \in Seq(S) /\ (Len(s) # 1 => Tail(s) # <<>>)
<1>1. Len(Tail(s)) = Len(s) - 1 /\ Tail(s) \in Seq(S) /\ Len(s) \in Nat
  BY HeadTailProperties
<1>2. Len(<<>>) = 0
  OBVIOUS
<1>3. CASE Len(s) # 1
  <2>1. Len(Tail(s)) # 0
    BY <1>1, <1>3
  <2> QED BY <1>1, <1>2, <2>1
<1> QED BY <1>1, <1>3

(* What is left of a sequence of one element is the empty sequence.        *)
LEMMA RestOfOne ==
  ASSUME NEW S, NEW s \in Seq(S), Len(s) = 1
  PROVE  Tail(s) = <<>>
<1>1. Tail(s) \in Seq(S) /\ Len(Tail(s)) = 0
  <2>1. s # <<>>
    OBVIOUS
  <2> QED BY <2>1, HeadTailProperties
<1> QED BY <1>1, EmptySeq

(* The steps that end a run are a nonempty sequence of the known ones.     *)
LEMMA EndingSteps ==
  ASSUME NEW r, NEW outcome \in Outcomes
  PROVE  Ending(r, outcome) \in Seq(Steps) \ {<<>>}
<1> DEFINE last == <<"finish", "clear">>
<1>1. last \in Seq(Steps) \ {<<>>}
  BY DEF Steps
<1>2. CASE outcome = "success"
  <2> DEFINE first == IF Scheduled(r) THEN <<"advance", "clear">> ELSE <<>>
  <2>1. Ending(r, outcome) = first \o last
    BY <1>2 DEF Ending
  <2>2. <<"advance", "clear">> \in Seq(Steps) /\ <<>> \in Seq(Steps)
    BY DEF Steps
  <2>3. first \in Seq(Steps)
    BY <2>2
  <2> HIDE DEF first, last
  <2> QED BY <1>1, <2>1, <2>3, Joined
<1>3. CASE outcome = "empty"
  <2> DEFINE first == IF Scheduled(r)
                      THEN IF run[r].job \in OneShot THEN <<"advance">>
                           ELSE <<"reschedule">>
                      ELSE <<>>
  <2>1. Ending(r, outcome) = first \o last
    BY <1>3 DEF Ending
  <2>2. /\ <<"advance">> \in Seq(Steps) /\ <<"reschedule">> \in Seq(Steps)
        /\ <<>> \in Seq(Steps)
    BY DEF Steps
  <2>3. first \in Seq(Steps)
    BY <2>2
  <2> HIDE DEF first, last
  <2> QED BY <1>1, <2>1, <2>3, Joined
<1>4. CASE outcome = "error"
  <2> DEFINE middle == IF Scheduled(r) THEN <<"fail">> ELSE <<>>
  <2>1. Ending(r, outcome) = <<"finish">> \o middle \o <<"clear">>
    BY <1>4 DEF Ending
  <2>2. /\ <<"finish">> \in Seq(Steps) \ {<<>>}
        /\ <<"clear">> \in Seq(Steps) \ {<<>>}
    BY DEF Steps
  <2>3. middle \in Seq(Steps)
    BY Conditional DEF Steps
  <2> HIDE DEF middle
  <2>4. <<"finish">> \o middle \in Seq(Steps)
    BY <2>2, <2>3, Joined
  <2> QED BY <2>1, <2>2, <2>4, Joined
<1>5. CASE outcome = "cancelled"
  <2> DEFINE rest == IF Scheduled(r) /\ run[r].job \in OneShot
                     THEN <<"complete">> ELSE <<>>
  <2>1. Ending(r, outcome) = last \o rest
    BY <1>5 DEF Ending
  <2>2. rest \in Seq(Steps)
    BY Conditional DEF Steps
  <2> HIDE DEF rest, last
  <2> QED BY <1>1, <2>1, <2>2, Joined
<1> QED BY <1>2, <1>3, <1>4, <1>5 DEF Outcomes

LEMMA ShapeInit == Init => Shape
<1> SUFFICES ASSUME Init PROVE Shape
  OBVIOUS
<1>1. NoRun \in RunRecord
  BY DEF NoRun, RunRecord, RunPC, Steps
<1>2. RunShape
  BY <1>1 DEF Init, RunShape, NoRun, Alive
<1>3. MemoryShape
  BY DEF Init, MemoryShape
<1>4. CallShape
  BY DEF Init, CallShape, NoCall
<1>5. StatusShape
  BY DEF Init, StatusShape, Status
<1>6. SchedShape
  BY DEF Init, SchedShape, Boot
<1> QED BY <1>2, <1>3, <1>4, <1>5, <1>6 DEF Shape

(* The runs keep their shape.                                              *)
LEMMA RunShapeStep == Shape /\ [Next]_vars => RunShape'
<1> SUFFICES ASSUME RunShape, [Next]_vars PROVE RunShape'
  BY DEF Shape
<1> USE DEF RunShape, Alive
<1>1. CASE UNCHANGED run
  BY <1>1
<1>2. ASSUME NEW j \in Job, NEW i \in BOOLEAN, NewRun(j, i) PROVE RunShape'
  <2> DEFINE new == [job |-> j, pc |-> "claimed", immediate |-> i,
                     todo |-> <<>>, outcome |-> "none"]
  <2>1. PICK r \in Run : run' = [run EXCEPT ![r] = new]
    BY <1>2 DEF NewRun
  <2>2. new \in RunRecord
    BY DEF RunRecord, RunPC, Steps
  <2> QED BY <2>1, <2>2
<1>3. ASSUME NEW r \in Run, NEW l \in RunPC \ {"none", "ending"}, Alive(r),
             run' = [run EXCEPT ![r].pc = l]
      PROVE  RunShape'
  BY <1>3 DEF RunRecord, RunPC
<1>4. ASSUME NEW r \in Run, NEW o \in Outcomes, Alive(r),
             NEW steps \in Seq(Steps) \ {<<>>}, End(r, o, steps)
      PROVE  RunShape'
  <2> DEFINE new == [run[r] EXCEPT !.pc = "ending", !.todo = steps,
                                   !.outcome = o]
  <2>1. new \in RunRecord /\ new.job = run[r].job /\ new.todo = steps
    BY <1>4 DEF RunRecord, RunPC
  <2>2. run' = [run EXCEPT ![r] = new]
    BY <1>4 DEF End
  <2> HIDE DEF new
  <2> QED BY <1>4, <2>1, <2>2
<1>5. ASSUME NEW r \in Run, EndingStep(r) PROVE RunShape'
  <2>1. run[r].todo \in Seq(Steps) /\ run[r].todo # <<>>
    BY <1>5 DEF EndingStep, RunRecord
  <2>2. /\ Tail(run[r].todo) \in Seq(Steps)
        /\ Len(run[r].todo) # 1 => Tail(run[r].todo) # <<>>
    BY <2>1, RestOfMany
  <2>3. run' = [run EXCEPT ![r].todo = Tail(run[r].todo),
                           ![r].pc = IF Len(run[r].todo) = 1 THEN "unregister"
                                     ELSE run[r].pc]
    BY <1>5 DEF EndingStep
  <2>4. run[r].pc = "ending"
    BY <1>5 DEF EndingStep
  <2> DEFINE pc == IF Len(run[r].todo) = 1 THEN "unregister" ELSE run[r].pc
             new == [run[r] EXCEPT !.todo = Tail(run[r].todo), !.pc = pc]
  <2>5. new \in RunRecord /\ new.job = run[r].job /\ new.pc = pc
          /\ new.todo = Tail(run[r].todo)
    BY <2>2, <2>4 DEF RunRecord, RunPC
  <2>6. run' = [run EXCEPT ![r] = new]
    BY <2>3
  <2> HIDE DEF new
  <2> QED BY <2>2, <2>4, <2>5, <2>6
<1>6. ASSUME NEW r \in Run PROVE Past(r) \in RunRecord /\ Past(r).pc = "over"
  BY DEF Past, RunRecord, RunPC, Steps
<1>7. ASSUME NEW r \in Run, Release(r) PROVE RunShape'
  BY <1>6, <1>7 DEF Release
<1>8. CASE Crash
  BY <1>6, <1>8 DEF Crash
<1>9. ASSUME NEW r \in Run, RunStep(r) PROVE RunShape'
  <2>1. CASE Drain(r) \/ Publish(r) \/ OpenLog(r) \/ Panic(r) \/ Unregister(r)
    BY <1>3, <2>1 DEF Drain, Publish, OpenLog, Panic, Unregister, RunPC
  <2>2. CASE FailToStart(r)
    <3> DEFINE middle == IF run[r].immediate THEN <<>> ELSE <<"reschedule">>
               steps == <<"finish">> \o middle \o <<"clear">>
    <3>1. /\ <<"finish">> \in Seq(Steps) \ {<<>>}
          /\ <<"clear">> \in Seq(Steps) \ {<<>>}
          /\ <<"reschedule">> \in Seq(Steps) /\ <<>> \in Seq(Steps)
      BY DEF Steps
    <3>2. middle \in Seq(Steps)
      BY <3>1
    <3>3. End(r, "error", steps) /\ Alive(r)
      BY <2>2 DEF FailToStart
    <3> HIDE DEF middle
    <3>4. <<"finish">> \o middle \in Seq(Steps)
      BY <3>1, <3>2, Joined
    <3>5. steps \in Seq(Steps) \ {<<>>}
      BY <3>1, <3>4, Joined
    <3> HIDE DEF steps
    <3> QED BY <1>4, <3>3, <3>5 DEF Outcomes
  <2>3. CASE EndTurn(r)
    BY <1>4, <2>3, EndingSteps DEF EndTurn, Outcomes
  <2> QED BY <1>5, <1>7, <1>9, <2>1, <2>2, <2>3 DEF RunStep
<1>10. CASE Scheduler
  BY <1>1, <1>2, <1>10 DEF Scheduler, RecoverOrphanedRuns, ClearAllRunning,
     Reap, ListDue, CountRunning, EndPass, ClaimScheduled, LoseClaim
<1>11. CASE User
  BY <1>1, <1>2, <1>8, <1>11 DEF User, Cancel, Hold, Delete, ClaimNow, Pause,
     Resume, Rename, Ask
<1> QED BY <1>1, <1>9, <1>10, <1>11 DEF Next, ComeDue, GrowLate, vars

(* The markers and the cancel registry keep naming runs.                   *)
LEMMA MemoryShapeStep == Shape /\ [Next]_vars => MemoryShape'
<1> SUFFICES ASSUME Shape, [Next]_vars PROVE MemoryShape'
  OBVIOUS
<1> USE DEF MemoryShape, memory
<1>1. MemoryShape
  BY DEF Shape
<1>2. CASE UNCHANGED <<running, live, pending>>
  BY <1>1, <1>2
<1>3. ASSUME NEW r \in Run, RunStep(r) PROVE MemoryShape'
  BY <1>1, <1>3 DEF RunStep, Drain, Publish, FailToStart, OpenLog, EndTurn,
     Panic, EndingStep, Unregister, Release
<1>4. CASE Scheduler
  <2>1. ASSUME NEW j \in Job, ClaimScheduled(j) PROVE MemoryShape'
    BY <1>1, <2>1 DEF ClaimScheduled, NewRun
  <2>2. CASE ClearAllRunning
    BY <1>1, <2>2 DEF ClearAllRunning
  <2> QED BY <1>2, <1>4, <2>1, <2>2 DEF Scheduler, RecoverOrphanedRuns, Reap,
          ListDue, CountRunning, EndPass, LoseClaim
<1>5. CASE Hold
  <2>1. call.run \in Run
    BY <1>5 DEF Hold, Shape, CallShape
  <2> QED BY <1>1, <1>5, <2>1 DEF Hold
<1>6. CASE Delete \/ Crash
  BY <1>1, <1>6 DEF Delete, Crash
<1>7. CASE User
  <2>1. ASSUME NEW j \in Job, ClaimNow(j) PROVE MemoryShape'
    BY <1>1, <2>1 DEF ClaimNow, NewRun
  <2> QED BY <1>2, <1>5, <1>6, <1>7, <2>1 DEF User, Cancel, Ask, Pause,
          Resume, Rename
<1>8. ASSUME NEW j \in Job, ComeDue(j) \/ GrowLate(j) PROVE MemoryShape'
  BY <1>2, <1>8 DEF ComeDue, GrowLate
<1> QED BY <1>2, <1>3, <1>4, <1>7, <1>8 DEF Next, vars

(* A cancel or delete call keeps naming a job, and a cancel call a run.    *)
LEMMA CallShapeStep == Shape /\ [Next]_vars => CallShape'
<1> SUFFICES ASSUME Shape, [Next]_vars PROVE CallShape'
  OBVIOUS
<1> USE DEF CallShape
<1>1. CallShape /\ MemoryShape
  BY DEF Shape
<1>2. CASE UNCHANGED call
  BY <1>1, <1>2
<1>3. CASE call' = NoCall
  BY <1>3 DEF NoCall
<1>4. CASE call' = Answered /\ call.pc # "idle"
  BY <1>1, <1>3, <1>4 DEF Answered
<1>5. CASE Cancel
  <2>1. CASE call' = [call EXCEPT !.pc = "hold"]
    BY <1>1, <1>5, <2>1 DEF Cancel
  <2> QED BY <1>4, <1>5, <2>1 DEF Cancel
<1>6. CASE Hold \/ Delete \/ Crash
  BY <1>3, <1>4, <1>6 DEF Hold, Delete, Crash
<1>7. ASSUME NEW j \in Job, NEW then \in {"idle", "delete"}, Ask(j, then)
      PROVE  CallShape'
  BY <1>1, <1>7 DEF Ask, MemoryShape
<1>8. CASE User
  BY <1>2, <1>5, <1>6, <1>7, <1>8 DEF User, ClaimNow, Pause, Resume, Rename
<1>9. ASSUME NEW r \in Run, RunStep(r) PROVE CallShape'
  BY <1>2, <1>9 DEF RunStep, Drain, Publish, FailToStart, OpenLog, EndTurn,
     Panic, EndingStep, Unregister, Release
<1>10. CASE Scheduler
  BY <1>2, <1>10 DEF Scheduler, RecoverOrphanedRuns, ClearAllRunning, Reap,
     ListDue, CountRunning, EndPass, ClaimScheduled, LoseClaim
<1> QED BY <1>2, <1>8, <1>9, <1>10 DEF Next, ComeDue, GrowLate, vars

(* The scheduler's pass stays a record of its three parts.                 *)
LEMMA SchedShapeStep == Shape /\ [Next]_vars => SchedShape'
<1> SUFFICES ASSUME SchedShape, [Next]_vars PROVE SchedShape'
  BY DEF Shape
<1> USE DEF SchedShape
<1>1. CASE UNCHANGED sched
  BY <1>1
<1>2. CASE Scheduler
  <2>1. CASE \E pc : sched' = [sched EXCEPT !.pc = pc]
    BY <2>1
  <2>2. CASE \E pc, list : sched' = [sched EXCEPT !.pc = pc, !.list = list]
    BY <2>2
  <2>3. CASE \E pc, n : sched' = [sched EXCEPT !.pc = pc, !.slots = n]
    BY <2>3
  <2>4. CASE \E list, n : sched' = [sched EXCEPT !.list = list, !.slots = n]
    BY <2>4
  <2>5. CASE \E list : sched' = [sched EXCEPT !.list = list]
    BY <2>5
  <2>6. CASE EndPass
    BY <2>6 DEF EndPass
  <2> QED BY <1>2, <2>1, <2>2, <2>3, <2>4, <2>5, <2>6 DEF Scheduler,
          RecoverOrphanedRuns, ClearAllRunning, Reap, ListDue, CountRunning,
          ClaimScheduled, LoseClaim
<1>3. CASE User
  BY <1>1, <1>3 DEF User, Cancel, Hold, Delete, Crash, ClaimNow, Ask, Pause,
     Resume, Rename, Boot
<1>4. ASSUME NEW r \in Run, RunStep(r) PROVE SchedShape'
  BY <1>1, <1>4 DEF RunStep, Drain, Publish, FailToStart, OpenLog, EndTurn,
     Panic, EndingStep, Unregister, Release
<1> QED BY <1>1, <1>2, <1>3, <1>4 DEF Next, ComeDue, GrowLate, vars

-----------------------------------------------------------------------------
(* What a step does to the statuses: they keep their shape, only Resume    *)
(* makes a job active, and a deleted row stays deleted.                    *)
StatusKept ==
  /\ StatusShape'
  /\ \A j \in Job : status[j] # "active" /\ status'[j] = "active" => Resume(j)
  /\ \A j \in Job : Exists(j)' => Exists(j)

LEMMA StatusStep == StatusShape /\ [Next]_vars => StatusKept
<1> SUFFICES ASSUME StatusShape, [Next]_vars PROVE StatusKept
  OBVIOUS
<1> USE DEF StatusShape, StatusKept, Status, Exists
<1>1. CASE UNCHANGED status
  BY <1>1
<1>2. CASE Reap
  BY <1>2 DEF Reap, MarkMissed
<1>3. CASE Scheduler
  BY <1>1, <1>2, <1>3 DEF Scheduler, RecoverOrphanedRuns, ClearAllRunning,
     ListDue, CountRunning, EndPass, ClaimScheduled, LoseClaim, rows
<1>4. ASSUME NEW r \in Run, EndingStep(r) PROVE StatusKept
  <2> DEFINE j == run[r].job
  <2>1. CASE AdvanceAfterSuccess(j)
    BY <2>1 DEF AdvanceAfterSuccess
  <2>2. CASE Exists(j) /\ BackOffAfterFailure(j)
    BY <2>2 DEF BackOffAfterFailure
  <2>3. CASE Complete(j)
    BY <2>3 DEF Complete
  <2>4. UNCHANGED status \/ AdvanceAfterSuccess(j) \/ Complete(j)
          \/ (Exists(j) /\ BackOffAfterFailure(j))
    BY <1>4 DEF EndingStep, Reschedule
  <2> QED BY <1>1, <2>1, <2>2, <2>3, <2>4
<1>5. ASSUME NEW r \in Run, RunStep(r) PROVE StatusKept
  BY <1>1, <1>4, <1>5 DEF RunStep, Drain, Publish, FailToStart, OpenLog,
     EndTurn, Panic, Unregister, Release, rows
<1>6. CASE Delete
  BY <1>6 DEF Delete
<1>7. ASSUME NEW j \in Job, Pause(j) \/ Rename(j) PROVE StatusKept
  BY <1>7 DEF Pause, Rename
<1>8. ASSUME NEW j \in Job, Resume(j) PROVE StatusKept
  <2>1. \A i \in Job \ {j} : status'[i] = status[i]
    BY <1>8 DEF Resume
  <2>2. StatusShape' /\ Exists(j)
    BY <1>8 DEF Resume
  <2> QED BY <1>8, <2>1, <2>2
<1>9. CASE User
  BY <1>1, <1>6, <1>7, <1>8, <1>9 DEF User, Cancel, Hold, Ask, ClaimNow,
     Crash, rows
<1> QED BY <1>1, <1>3, <1>5, <1>9 DEF Next, ComeDue, GrowLate, vars

(* The shape of the variables is an invariant.                             *)
LEMMA ShapeInvariant == Spec => []Shape
<1>1. Shape /\ [Next]_vars => Shape'
  BY RunShapeStep, MemoryShapeStep, CallShapeStep, StatusStep,
     SchedShapeStep DEF Shape, StatusKept
<1> QED BY ShapeInit, <1>1, PTL DEF Spec

(* Whatever ends a run, reaps a job or restarts the process, only the      *)
(* user's resume makes a job that is not active run again (db.rs, the      *)
(* guard of update_after_run's success and mark_missed_past_at_jobs).      *)
THEOREM OnlyTheUserRevives == Spec => NoRevival
<1>1. Shape /\ [Next]_vars =>
        [\A j \in Job : status[j] # "active" /\ status'[j] = "active"
                           => Resume(j)]_vars
  BY StatusStep DEF Shape, StatusKept
<1> QED BY ShapeInvariant, <1>1, PTL DEF Spec, NoRevival

-----------------------------------------------------------------------------
(* A cancel call and the run it means.  The flag of a run is set through   *)
(* what the registry holds, so what is registered must be running under    *)
(* its own job, and what a call or a placeholder still names must be asked *)
(* for, or over.                                                           *)
Over(r) == run[r].pc = "over"

RegisteredRuns ==
  \A j \in Job : live[j] # None =>
    /\ run[live[j]].job = j
    /\ run[live[j]].pc \in {"opening", "turn", "ending", "unregister"}

NamedRuns ==
  /\ call.pc \in {"cancel", "hold"} => call.run \in asked \/ Over(call.run)
  /\ \A j \in Job : pending[j] # None => pending[j] \in asked \/ Over(pending[j])

CancelInv == CancelHitsItsRun /\ RegisteredRuns /\ NamedRuns

LEMMA CancelInvInit == Init => CancelInv
BY DEF Init, CancelInv, CancelHitsItsRun, RegisteredRuns, NamedRuns, NoCall

(* A step of a run changes that run only, and never its job.               *)
LEMMA RunStepTouches ==
  ASSUME Shape, NEW r \in Run, RunStep(r)
  PROVE  /\ Alive(r)
         /\ run'[r].job = run[r].job
         /\ \A q \in Run \ {r} : run'[q] = run[q]
<1> USE DEF Shape, RunShape, RunRecord, Alive
<1>1. CASE Drain(r) \/ Publish(r) \/ OpenLog(r) \/ Panic(r) \/ Unregister(r)
  BY <1>1 DEF Drain, Publish, OpenLog, Panic, Unregister
<1>2. CASE FailToStart(r) \/ EndTurn(r)
  <2>1. PICK o, steps : End(r, o, steps)
    BY <1>2 DEF FailToStart, EndTurn
  <2>2. run[r].pc \in {"opening", "turn"}
    BY <1>2 DEF FailToStart, EndTurn
  <2> QED BY <2>1, <2>2 DEF End
<1>3. CASE EndingStep(r)
  <2>1. run' = [run EXCEPT ![r].todo = Tail(run[r].todo),
                           ![r].pc = IF Len(run[r].todo) = 1 THEN "unregister"
                                     ELSE run[r].pc]
    BY <1>3 DEF EndingStep
  <2>2. run[r].pc = "ending"
    BY <1>3 DEF EndingStep
  <2> QED BY <2>1, <2>2
<1>4. CASE Release(r)
  BY <1>4 DEF Release, Past
<1> QED BY <1>1, <1>2, <1>3, <1>4 DEF RunStep

(* No run is none.                                                         *)
LEMMA NoneIsNoRun == \A r \in Run : r # None
BY CronAssumption DEF Run, None

LEMMA CancelInvStep == Shape /\ CancelInv /\ [Next]_vars => CancelInv'
<1> SUFFICES ASSUME Shape, CancelInv, [Next]_vars PROVE CancelInv'
  OBVIOUS
<1> USE DEF CancelInv, CancelHitsItsRun, RegisteredRuns, NamedRuns, Over,
            memory, history
<1>1. RunShape /\ MemoryShape /\ CallShape /\ \A r \in Run : r # None
  BY NoneIsNoRun DEF Shape
<1>2. CASE UNCHANGED <<run, memory, call, asked>>
  BY <1>2
<1>3. ASSUME NEW j \in Job, NEW i \in BOOLEAN, NewRun(j, i),
             UNCHANGED <<memory, call, asked>>
      PROVE  CancelInv'
  <2>1. PICK r \in Run : /\ run[r].pc = "none"
                         /\ \A q \in Run \ {r} : run'[q] = run[q]
    BY <1>1, <1>3 DEF NewRun, RunShape
  <2> QED BY <1>1, <1>3, <2>1 DEF MemoryShape, CallShape
<1>4. ASSUME NEW r \in Run, RunStep(r) PROVE CancelInv'
  <2>1. /\ Alive(r) /\ run'[r].job = run[r].job
        /\ \A q \in Run \ {r} : run'[q] = run[q]
    BY <1>4, RunStepTouches
  <2>2. \A q \in Run : Over(q) => Over(q)'
    BY <2>1 DEF Alive
  <2>3. CASE Drain(r)
    <3>1. /\ run[r].pc = "claimed"
          /\ pending' = [pending EXCEPT ![run[r].job] = None]
          /\ flagged' = IF pending[run[r].job] = r THEN flagged \cup {r}
                        ELSE flagged
          /\ UNCHANGED <<live, call, asked>>
      BY <2>3 DEF Drain
    <3>2. flagged' \subseteq asked'
      BY <1>1, <2>1, <3>1 DEF RunShape
    <3>3. RegisteredRuns'
      BY <1>1, <2>1, <3>1 DEF MemoryShape
    <3> QED BY <1>1, <2>2, <3>1, <3>2, <3>3 DEF MemoryShape, CallShape
  <2>4. CASE Publish(r)
    <3>1. /\ run'[r].pc = "opening"
          /\ live' = [live EXCEPT ![run[r].job] = r]
          /\ UNCHANGED <<flagged, pending, call, asked>>
      BY <1>1, <2>4 DEF Publish, RunShape, RunRecord
    <3>2. RegisteredRuns'
      BY <1>1, <2>1, <3>1 DEF MemoryShape
    <3> QED BY <1>1, <2>2, <3>1, <3>2 DEF MemoryShape, CallShape
  <2>5. CASE FailToStart(r) \/ OpenLog(r) \/ EndTurn(r) \/ Panic(r)
             \/ EndingStep(r)
    <3>1. UNCHANGED <<memory, call, asked>>
      BY <2>5 DEF FailToStart, OpenLog, EndTurn, Panic, EndingStep
    <3>2. /\ run[r].pc \in {"opening", "turn", "ending"}
          /\ run'[r].pc \in {"turn", "ending", "unregister"}
      <4>1. CASE FailToStart(r) \/ EndTurn(r)
        <5>1. PICK o, steps : End(r, o, steps)
          BY <4>1 DEF FailToStart, EndTurn
        <5>2. run[r].pc \in {"opening", "turn"}
          BY <4>1 DEF FailToStart, EndTurn
        <5> QED BY <1>1, <5>1, <5>2 DEF End, RunShape, RunRecord
      <4>2. CASE EndingStep(r)
        <5>1. run' = [run EXCEPT
                 ![r].todo = Tail(run[r].todo),
                 ![r].pc = IF Len(run[r].todo) = 1 THEN "unregister"
                           ELSE run[r].pc]
          BY <4>2 DEF EndingStep
        <5>2. run[r].pc = "ending"
          BY <4>2 DEF EndingStep
        <5> QED BY <1>1, <5>1, <5>2 DEF RunShape, RunRecord
      <4> QED BY <1>1, <2>5, <4>1, <4>2 DEF OpenLog, Panic, RunShape, RunRecord
    <3>3. RegisteredRuns'
      BY <1>1, <2>1, <3>1, <3>2 DEF MemoryShape
    <3> QED BY <1>1, <2>2, <3>1, <3>3 DEF MemoryShape, CallShape
  <2>6. CASE Unregister(r)
    BY <1>1, <2>1, <2>2, <2>6 DEF Unregister, MemoryShape, CallShape
  <2>7. CASE Release(r)
    <3>1. run'[r].pc = "over"
      BY <1>1, <2>7 DEF Release, Past, RunShape
    <3> QED BY <1>1, <2>1, <2>2, <2>7, <3>1 DEF Release, MemoryShape, CallShape
  <2> QED BY <1>4, <2>3, <2>4, <2>5, <2>6, <2>7 DEF RunStep
<1>5. CASE Cancel
  <2>1. call.pc = "cancel" /\ call.run \in Run /\ call.job \in Job
    BY <1>1, <1>5 DEF Cancel, CallShape
  <2>2. live[call.job] = call.run => ~Over(call.run)
    BY <1>1, <2>1
  <2>3. flagged' \subseteq asked /\ UNCHANGED <<run, live, pending, asked>>
    BY <1>5, <2>1, <2>2 DEF Cancel
  <2>4. call'.pc \in {"cancel", "hold"} => call'.run = call.run
    <3>1. Answered.pc \in {"idle", "delete"}
      BY <1>1 DEF Answered, NoCall, CallShape
    <3>2. call' = Answered \/ call' = [call EXCEPT !.pc = "hold"]
      BY <1>5 DEF Cancel
    <3> QED BY <1>1, <3>1, <3>2 DEF CallShape
  <2> QED BY <2>1, <2>3, <2>4
<1>6. CASE Hold
  BY <1>1, <1>6 DEF Hold, Answered, NoCall, CallShape, MemoryShape
<1>7. CASE Delete
  BY <1>7 DEF Delete, NoCall
<1>8. CASE Crash
  BY <1>8 DEF Crash, NoCall
<1>9. ASSUME NEW j \in Job, NEW then \in {"idle", "delete"}, Ask(j, then)
      PROVE  CancelInv'
  BY <1>1, <1>9 DEF Ask, MemoryShape
<1>10. CASE User
  <2>1. ASSUME NEW j \in Job, ClaimNow(j) PROVE CancelInv'
    BY <1>3, <2>1 DEF ClaimNow
  <2> QED BY <1>2, <1>5, <1>6, <1>7, <1>8, <1>9, <1>10, <2>1
          DEF User, Pause, Resume, Rename
<1>11. CASE Scheduler
  <2>1. ASSUME NEW j \in Job, ClaimScheduled(j) PROVE CancelInv'
    BY <1>3, <2>1 DEF ClaimScheduled
  <2> QED BY <1>2, <1>11, <2>1 DEF Scheduler, RecoverOrphanedRuns,
          ClearAllRunning, Reap, ListDue, CountRunning, EndPass, LoseClaim
<1> QED BY <1>2, <1>4, <1>10, <1>11 DEF Next, ComeDue, GrowLate, vars

(* A flag is set only in a run that a cancel or delete call read as its    *)
(* job's marker, for any number of jobs, runs, calls and crashes: a later  *)
(* run that took the job's place in between is left alone (cancel.rs, the  *)
(* run identity of the registry's entries).                                *)
THEOREM FlagsOnlyTheRunAsked == Spec => []CancelHitsItsRun
<1>1. CancelInv => CancelHitsItsRun
  BY DEF CancelInv
<1> QED BY ShapeInvariant, CancelInvInit, CancelInvStep, <1>1, PTL DEF Spec

-----------------------------------------------------------------------------
(* One turn at a time.  The marker of a job that has a turn is held by     *)
(* that turn, since nothing left of an earlier run can clear it, and no    *)
(* run is alive when the startup removes all markers.                      *)
NoClear(r) == \A i \in DOMAIN run[r].todo : run[r].todo[i] # "clear"

MarkerIsTurns ==
  \A r \in Run : InTurn(r) /\ Exists(run[r].job) => running[run[r].job] = r

NothingLeftToClear ==
  \A q, r \in Run : InTurn(r) /\ run[q].job = run[r].job => NoClear(q)

StartsAlone == sched.pc \in {"orphans", "unmark"} => \A r \in Run : ~Alive(r)

TurnInv ==
  OneTurnPerJob /\ MarkerIsTurns /\ NothingLeftToClear /\ StartsAlone

LEMMA TurnInvInit == Init => TurnInv
BY DEF Init, TurnInv, OneTurnPerJob, MarkerIsTurns, NothingLeftToClear,
   StartsAlone, InTurn, Alive, NoRun

(* What a step of a run does to the turns and the markers: the run stays   *)
(* in its turn only with the same steps ahead, a run past its turn gets no *)
(* new clear, and a marker is removed only by a clear that was ahead, or   *)
(* by the run that holds it.                                               *)
LEMMA RunStepMarkers ==
  ASSUME Shape, NEW r \in Run, RunStep(r)
  PROVE  /\ InTurn(r)' => InTurn(r) /\ run'[r].todo = run[r].todo
         /\ InTurn(r) \/ (NoClear(r) => NoClear(r)')
         /\ \/ running' = running
            \/ /\ running' = [running EXCEPT ![run[r].job] = None]
               /\ ~InTurn(r)
               /\ ~NoClear(r) \/ running[run[r].job] = r
         /\ UNCHANGED sched
<1> USE DEF InTurn, NoClear
<1>1. RunShape
  BY DEF Shape
<1>2. CASE Drain(r) \/ Publish(r) \/ OpenLog(r) \/ Panic(r)
  BY <1>1, <1>2 DEF Drain, Publish, OpenLog, Panic, RunShape, RunRecord
<1>3. CASE FailToStart(r) \/ EndTurn(r)
  <2>1. PICK o, steps : End(r, o, steps)
    BY <1>3 DEF FailToStart, EndTurn
  <2>2. InTurn(r) /\ UNCHANGED <<running, sched>>
    BY <1>3 DEF FailToStart, EndTurn
  <2>3. run'[r].pc = "ending"
    BY <1>1, <2>1 DEF End, RunShape, RunRecord
  <2> QED BY <2>2, <2>3
<1>4. CASE EndingStep(r)
  <2> DEFINE todo == run[r].todo
  <2>1. run[r].pc = "ending" /\ todo \in Seq(Steps) /\ todo # <<>>
    BY <1>1, <1>4 DEF EndingStep, RunShape, RunRecord
  <2>2. run' = [run EXCEPT ![r].todo = Tail(todo),
                           ![r].pc = IF Len(todo) = 1 THEN "unregister"
                                     ELSE run[r].pc]
    BY <1>4 DEF EndingStep
  <2>3. run'[r].todo = Tail(todo) /\ run'[r].pc \in {"ending", "unregister"}
    BY <1>1, <2>1, <2>2 DEF RunShape, RunRecord
  <2>4. NoClear(r) => NoClear(r)'
    <3>1. \A i \in 1 .. Len(Tail(todo)) :
            Tail(todo)[i] = todo[i + 1] /\ i + 1 \in DOMAIN todo
      BY <2>1, HeadTailProperties
    <3>2. Tail(todo) \in Seq(Steps)
      BY <2>1, RestOfMany
    <3>3. DOMAIN Tail(todo) = 1 .. Len(Tail(todo))
      BY <3>2
    <3> QED BY <2>3, <3>1, <3>3
  <2>5. \/ running' = running
        \/ /\ running' = [running EXCEPT ![run[r].job] = None]
           /\ Head(todo) = "clear"
    BY <1>4 DEF EndingStep
  <2>6. Head(todo) = todo[1] /\ 1 \in DOMAIN todo
    BY <2>1
  <2>7. UNCHANGED sched
    BY <1>4 DEF EndingStep
  <2> QED BY <2>1, <2>3, <2>4, <2>5, <2>6, <2>7
<1>5. CASE Unregister(r)
  BY <1>1, <1>5 DEF Unregister, RunShape, RunRecord
<1>6. CASE Release(r)
  BY <1>1, <1>6 DEF Release, Past, RunShape, RunRecord
<1> QED BY <1>2, <1>3, <1>4, <1>5, <1>6 DEF RunStep

(* A claim starts a turn of a job that had none, and sets its marker.      *)
LEMMA ClaimKeepsTurns ==
  ASSUME Shape, TurnInv, NEW j \in Job, NEW i \in BOOLEAN, NewRun(j, i),
         running[j] = None, Exists(j), Delivered(j), SlowDelivery = {},
         sched.pc \notin {"orphans", "unmark"}, sched'.pc = sched.pc,
         UNCHANGED status
  PROVE  TurnInv'
<1> USE DEF InTurn, NoClear, TurnInv
<1>1. RunShape /\ MemoryShape /\ \A r \in Run : r # None
  BY NoneIsNoRun DEF Shape
<1> DEFINE new == [job |-> j, pc |-> "claimed", immediate |-> i, todo |-> <<>>,
                   outcome |-> "none"]
<1>2. PICK r \in Run : /\ run' = [run EXCEPT ![r] = new]
                       /\ running' = [running EXCEPT ![j] = r]
  BY DEF NewRun
<1>3. /\ run'[r].job = j /\ run'[r].pc = "claimed" /\ run'[r].todo = <<>>
      /\ \A q \in Run \ {r} : run'[q] = run[q]
      /\ running' = [running EXCEPT ![j] = r]
  BY <1>1, <1>2 DEF RunShape
<1>4. \A q \in Run : InTurn(q) => run[q].job # j
  BY <1>1 DEF MarkerIsTurns
<1>5. \A q \in Run : run[q].job = j => NoClear(q)
  BY DEF Delivered
<1>6. OneTurnPerJob'
  BY <1>3, <1>4 DEF OneTurnPerJob
<1>7. MarkerIsTurns'
  BY <1>1, <1>3, <1>4 DEF MarkerIsTurns, MemoryShape, Exists
<1>8. NothingLeftToClear'
  BY <1>3, <1>4, <1>5 DEF NothingLeftToClear
<1>9. StartsAlone'
  BY DEF StartsAlone
<1> QED BY <1>6, <1>7, <1>8, <1>9

LEMMA TurnInvStep ==
  SlowDelivery = {} /\ Shape /\ TurnInv /\ [Next]_vars => TurnInv'
<1> SUFFICES ASSUME SlowDelivery = {}, Shape, TurnInv, [Next]_vars
             PROVE  TurnInv'
  OBVIOUS
<1> USE DEF TurnInv, OneTurnPerJob, MarkerIsTurns, NothingLeftToClear,
            StartsAlone, InTurn, NoClear, Alive
<1>1. RunShape /\ MemoryShape /\ \A r \in Run : r # None
  BY NoneIsNoRun DEF Shape
<1>2. \A j \in Job : Exists(j)' => Exists(j)
  BY StatusStep DEF Shape, StatusKept
<1>3. ASSUME UNCHANGED <<run, running, sched>> PROVE TurnInv'
  BY <1>1, <1>2, <1>3 DEF RunShape
<1>4. ASSUME NEW r \in Run, RunStep(r) PROVE TurnInv'
  <2>1. /\ Alive(r) /\ run'[r].job = run[r].job
        /\ \A q \in Run \ {r} : run'[q] = run[q]
    BY <1>4, RunStepTouches
  <2>2. /\ InTurn(r)' => InTurn(r) /\ run'[r].todo = run[r].todo
        /\ InTurn(r) \/ (NoClear(r) => NoClear(r)')
        /\ UNCHANGED sched
    BY <1>4, RunStepMarkers
  <2>3. \/ running' = running
        \/ /\ running' = [running EXCEPT ![run[r].job] = None]
           /\ ~InTurn(r)
           /\ ~NoClear(r) \/ running[run[r].job] = r
    BY <1>4, RunStepMarkers
  <2>4. OneTurnPerJob'
    BY <2>1, <2>2
  <2>5. \A q \in Run : InTurn(q)' => /\ InTurn(q) /\ run[q].job \in Job
                                    /\ run'[q].job = run[q].job
    BY <1>1, <2>1, <2>2 DEF RunShape
  <2>6. ASSUME NEW q \in Run, InTurn(q)', Exists(run[q].job)
        PROVE  running'[run[q].job] = q
    <3>1. running[run[q].job] = q
      BY <1>1, <2>5, <2>6
    <3>2. CASE running' # running /\ run[q].job = run[r].job
      <4>1. NoClear(r)
        BY <2>5, <2>6, <3>2
      <4>2. q = r
        BY <2>3, <3>1, <3>2, <4>1
      <4> QED BY <2>3, <2>5, <2>6, <3>2, <4>2
    <3> QED BY <1>1, <2>3, <2>5, <2>6, <3>1, <3>2 DEF MemoryShape
  <2>7. MarkerIsTurns'
    BY <1>2, <2>5, <2>6
  <2>8. NothingLeftToClear'
    <3>1. ASSUME NEW p \in Run, NEW q \in Run, InTurn(q)',
                 run'[p].job = run'[q].job
          PROVE  NoClear(p)'
      <4>1. InTurn(q) /\ run[p].job = run[q].job /\ NoClear(p)
        BY <2>1, <2>5, <3>1
      <4>2. CASE p = r /\ InTurn(r)
        BY <2>2, <3>1, <4>1, <4>2
      <4> QED BY <2>1, <2>2, <4>1, <4>2
    <3> QED BY <3>1
  <2>9. StartsAlone'
    BY <2>1, <2>2
  <2> QED BY <2>4, <2>7, <2>8, <2>9
<1>5. CASE Scheduler
  <2>1. ASSUME NEW j \in Job, ClaimScheduled(j) PROVE TurnInv'
    <3>1. /\ NewRun(j, FALSE) /\ running[j] = None /\ status[j] = "active"
          /\ Delivered(j) /\ UNCHANGED status
          /\ sched.pc = "claim" /\ sched'.pc = sched.pc
      BY <2>1 DEF ClaimScheduled, Due, Shape, SchedShape
    <3> QED BY <3>1, ClaimKeepsTurns DEF Exists
  <2>2. CASE RecoverOrphanedRuns
    BY <1>1, <1>2, <2>2 DEF RecoverOrphanedRuns, RunShape
  <2>3. CASE ClearAllRunning
    BY <1>1, <2>3 DEF ClearAllRunning
  <2>4. CASE Reap \/ ListDue \/ CountRunning \/ EndPass
               \/ \E j \in Job : LoseClaim(j)
    <3>1. UNCHANGED <<run, running>>
      BY <2>4 DEF Reap, ListDue, CountRunning, EndPass, LoseClaim
    <3>2. sched'.pc \notin {"orphans", "unmark"}
      <4> USE DEF Shape, SchedShape
      <4>1. CASE Reap
        BY <4>1 DEF Reap
      <4>2. CASE ListDue
        BY <4>2 DEF ListDue
      <4>3. CASE CountRunning
        BY <4>3 DEF CountRunning
      <4>4. CASE EndPass
        BY <4>4 DEF EndPass
      <4>5. CASE \E j \in Job : LoseClaim(j)
        BY <4>5 DEF LoseClaim
      <4> QED BY <2>4, <4>1, <4>2, <4>3, <4>4, <4>5
    <3> QED BY <1>1, <1>2, <3>1, <3>2 DEF RunShape
  <2> QED BY <1>5, <2>1, <2>2, <2>3, <2>4 DEF Scheduler
<1>6. CASE Delete
  <2>1. PICK j \in Job : j = call.job
    BY <1>6 DEF Delete, Shape, CallShape
  <2>2. /\ UNCHANGED <<run, sched>> /\ ~Exists(j)'
        /\ running' = [running EXCEPT ![j] = None]
    BY <1>6, <2>1 DEF Delete, Exists, Shape, StatusShape
  <2> QED BY <1>1, <1>2, <2>2 DEF RunShape, MemoryShape
<1>7. CASE Crash
  BY <1>1, <1>7 DEF Crash, Past, Boot, RunShape
<1>8. ASSUME NEW j \in Job, ClaimNow(j) PROVE TurnInv'
  <2>1. /\ NewRun(j, TRUE) /\ running[j] = None /\ Exists(j) /\ Delivered(j)
        /\ sched.pc \notin {"orphans", "unmark"} /\ UNCHANGED <<status, sched>>
    BY <1>8 DEF ClaimNow, rows
  <2> QED BY <2>1, ClaimKeepsTurns
<1>9. CASE User
  BY <1>3, <1>6, <1>7, <1>8, <1>9 DEF User, Cancel, Hold, Ask, Pause, Resume,
     Rename
<1> QED BY <1>3, <1>4, <1>5, <1>9 DEF Next, ComeDue, GrowLate, vars

(* Between scheduled runs, runs by hand, deletions and restarts, a job has *)
(* one turn at a time, provided that a run delivers before its job is due  *)
(* again (executor.rs clears the marker before the delivery, and again     *)
(* after it, whoever holds it then).                                       *)
THEOREM OneTurnAtATime == ASSUME SlowDelivery = {} PROVE Spec => []OneTurnPerJob
<1>1. Shape /\ TurnInv /\ [Next]_vars => TurnInv'
  BY TurnInvStep
<1>2. TurnInv => OneTurnPerJob
  BY DEF TurnInv
<1> QED BY ShapeInvariant, TurnInvInit, <1>1, <1>2, PTL DEF Spec

-----------------------------------------------------------------------------
(* The steps a run has left.  Two short sequences of steps joined.         *)
LEMMA TwoAndTwo ==
  ASSUME NEW a, NEW b, NEW c, NEW d
  PROVE  <<a, b>> \o <<c, d>> = <<a, b, c, d>>
<1> DEFINE S == {a, b, c, d}
           p == <<a, b>>
           q == <<c, d>>
           w == <<a, b, c, d>>
<1>1. /\ p \in Seq(S) /\ Len(p) = 2 /\ p[1] = a /\ p[2] = b
      /\ q \in Seq(S) /\ Len(q) = 2 /\ q[1] = c /\ q[2] = d
      /\ w \in Seq(S) /\ Len(w) = 4
      /\ w[1] = a /\ w[2] = b /\ w[3] = c /\ w[4] = d
  OBVIOUS
<1> HIDE DEF p, q, w, S
<1>2. /\ p \o q \in Seq(S) /\ Len(p \o q) = 4
      /\ \A i \in 1..4 : (p \o q)[i] = IF i <= 2 THEN p[i] ELSE q[i - 2]
  <2>1. /\ p \o q \in Seq(S) /\ Len(p \o q) = Len(p) + Len(q)
        /\ \A i \in 1..(Len(p) + Len(q)) :
             (p \o q)[i] = IF i <= Len(p) THEN p[i] ELSE q[i - Len(p)]
    BY <1>1, ConcatProperties
  <2> QED BY <1>1, <2>1
<1>3. \A i \in 1..4 : i = 1 \/ i = 2 \/ i = 3 \/ i = 4
  OBVIOUS
<1>4. /\ (p \o q)[1] = p[1] /\ (p \o q)[2] = p[2]
      /\ (p \o q)[3] = q[1] /\ (p \o q)[4] = q[2]
  BY <1>2
<1>5. p \o q = w
  BY <1>1, <1>2, <1>3, <1>4, SeqEqual
<1> QED BY <1>5 DEF p, q, w

LEMMA TwoAndOne ==
  ASSUME NEW a, NEW b, NEW c
  PROVE  <<a, b>> \o <<c>> = <<a, b, c>>
<1> DEFINE S == {a, b, c}
           p == <<a, b>>
           q == <<c>>
           w == <<a, b, c>>
<1>1. /\ p \in Seq(S) /\ Len(p) = 2 /\ p[1] = a /\ p[2] = b
      /\ q \in Seq(S) /\ Len(q) = 1 /\ q[1] = c
      /\ w \in Seq(S) /\ Len(w) = 3 /\ w[1] = a /\ w[2] = b /\ w[3] = c
  OBVIOUS
<1> HIDE DEF p, q, w, S
<1>2. /\ p \o q \in Seq(S) /\ Len(p \o q) = 3
      /\ \A i \in 1..3 : (p \o q)[i] = IF i <= 2 THEN p[i] ELSE q[i - 2]
  <2>1. /\ p \o q \in Seq(S) /\ Len(p \o q) = Len(p) + Len(q)
        /\ \A i \in 1..(Len(p) + Len(q)) :
             (p \o q)[i] = IF i <= Len(p) THEN p[i] ELSE q[i - Len(p)]
    BY <1>1, ConcatProperties
  <2> QED BY <1>1, <2>1
<1>3. \A i \in 1..3 : i = 1 \/ i = 2 \/ i = 3
  OBVIOUS
<1>4. (p \o q)[1] = p[1] /\ (p \o q)[2] = p[2] /\ (p \o q)[3] = q[1]
  BY <1>2
<1>5. p \o q = w
  BY <1>1, <1>2, <1>3, <1>4, SeqEqual
<1> QED BY <1>5 DEF p, q, w

LEMMA OneAndTwo ==
  ASSUME NEW a, NEW b, NEW c
  PROVE  <<a>> \o <<b, c>> = <<a, b, c>>
<1> DEFINE S == {a, b, c}
           p == <<a>>
           q == <<b, c>>
           w == <<a, b, c>>
<1>1. /\ p \in Seq(S) /\ Len(p) = 1 /\ p[1] = a
      /\ q \in Seq(S) /\ Len(q) = 2 /\ q[1] = b /\ q[2] = c
      /\ w \in Seq(S) /\ Len(w) = 3 /\ w[1] = a /\ w[2] = b /\ w[3] = c
  OBVIOUS
<1> HIDE DEF p, q, w, S
<1>2. /\ p \o q \in Seq(S) /\ Len(p \o q) = 3
      /\ \A i \in 1..3 : (p \o q)[i] = IF i <= 1 THEN p[i] ELSE q[i - 1]
  <2>1. /\ p \o q \in Seq(S) /\ Len(p \o q) = Len(p) + Len(q)
        /\ \A i \in 1..(Len(p) + Len(q)) :
             (p \o q)[i] = IF i <= Len(p) THEN p[i] ELSE q[i - Len(p)]
    BY <1>1, ConcatProperties
  <2> QED BY <1>1, <2>1
<1>3. \A i \in 1..3 : i = 1 \/ i = 2 \/ i = 3
  OBVIOUS
<1>4. (p \o q)[1] = p[1] /\ (p \o q)[2] = q[1] /\ (p \o q)[3] = q[2]
  BY <1>2
<1>5. p \o q = w
  BY <1>1, <1>2, <1>3, <1>4, SeqEqual
<1> QED BY <1>5 DEF p, q, w

LEMMA OneAndOne ==
  ASSUME NEW a, NEW b
  PROVE  <<a>> \o <<b>> = <<a, b>>
<1> DEFINE S == {a, b}
           p == <<a>>
           q == <<b>>
           w == <<a, b>>
<1>1. /\ p \in Seq(S) /\ Len(p) = 1 /\ p[1] = a
      /\ q \in Seq(S) /\ Len(q) = 1 /\ q[1] = b
      /\ w \in Seq(S) /\ Len(w) = 2 /\ w[1] = a /\ w[2] = b
  OBVIOUS
<1> HIDE DEF p, q, w, S
<1>2. /\ p \o q \in Seq(S) /\ Len(p \o q) = 2
      /\ (p \o q)[1] = p[1] /\ (p \o q)[2] = q[1]
  <2>1. /\ p \o q \in Seq(S) /\ Len(p \o q) = Len(p) + Len(q)
        /\ \A i \in 1..(Len(p) + Len(q)) :
             (p \o q)[i] = IF i <= Len(p) THEN p[i] ELSE q[i - Len(p)]
    BY <1>1, ConcatProperties
  <2> QED BY <1>1, <2>1
<1>3. \A i \in 1..2 : i = 1 \/ i = 2
  OBVIOUS
<1>4. p \o q = w
  BY <1>1, <1>2, <1>3, SeqEqual
<1> QED BY <1>4 DEF p, q, w

LEMMA OneByOne ==
  ASSUME NEW a, NEW b, NEW c
  PROVE  /\ <<a>> \o <<>> \o <<b>> = <<a, b>>
         /\ <<a>> \o <<c>> \o <<b>> = <<a, c, b>>
<1>1. <<a>> \o <<>> = <<a>>
  OBVIOUS
<1> QED BY <1>1, OneAndOne, TwoAndOne

(* What each outcome leaves to do.                                         *)
LEMMA EndingIs ==
  ASSUME NEW r, NEW outcome \in Outcomes
  PROVE  LET steps  == Ending(r, outcome)
             single == run[r].job \in OneShot
         IN /\ ~Scheduled(r) => steps = <<"finish", "clear">>
            /\ Scheduled(r) /\ outcome = "success" =>
                 steps = <<"advance", "clear", "finish", "clear">>
            /\ Scheduled(r) /\ outcome = "empty" /\ single =>
                 steps = <<"advance", "finish", "clear">>
            /\ Scheduled(r) /\ outcome = "empty" /\ ~single =>
                 steps = <<"reschedule", "finish", "clear">>
            /\ Scheduled(r) /\ outcome = "error" =>
                 steps = <<"finish", "fail", "clear">>
            /\ Scheduled(r) /\ outcome = "cancelled" /\ single =>
                 steps = <<"finish", "clear", "complete">>
            /\ Scheduled(r) /\ outcome = "cancelled" /\ ~single =>
                 steps = <<"finish", "clear">>
<1> DEFINE last == <<"finish", "clear">>
<1>1. <<>> \o last = last /\ last \o <<>> = last
  OBVIOUS
<1>2. /\ <<"advance", "clear">> \o last = <<"advance", "clear", "finish", "clear">>
      /\ <<"advance">> \o last = <<"advance", "finish", "clear">>
      /\ <<"reschedule">> \o last = <<"reschedule", "finish", "clear">>
      /\ last \o <<"complete">> = <<"finish", "clear", "complete">>
  BY TwoAndTwo, OneAndTwo, TwoAndOne
<1>3. /\ <<"finish">> \o <<>> \o <<"clear">> = last
      /\ <<"finish">> \o <<"fail">> \o <<"clear">> = <<"finish", "fail", "clear">>
  BY OneByOne
<1>4. CASE outcome = "success"
  BY <1>1, <1>2, <1>4 DEF Ending
<1>5. CASE outcome = "empty"
  BY <1>1, <1>2, <1>5 DEF Ending
<1>6. CASE outcome = "error"
  BY <1>3, <1>6 DEF Ending
<1>7. CASE outcome = "cancelled"
  BY <1>1, <1>2, <1>7 DEF Ending
<1> QED BY <1>4, <1>5, <1>6, <1>7 DEF Outcomes

(* Whether a run still has a step to make.                                 *)
Ahead(r, s) == \E i \in DOMAIN run[r].todo : run[r].todo[i] = s

(* What the steps left of a run say of it: advancing the job comes first,  *)
(* and is followed by a clear; only its success, its failure or its        *)
(* cancellation have their steps.                                          *)
Agenda(r) ==
  LET t == run[r].todo
      o == run[r].outcome
      single == run[r].job \in OneShot
  IN /\ \A i \in DOMAIN t :
          /\ t[i] = "advance" =>
               i = 1 /\ Scheduled(r) /\ o \in {"success", "empty"}
          /\ t[i] = "fail" => Scheduled(r) /\ o = "error"
          /\ t[i] = "reschedule" => Scheduled(r) /\ (single => o = "error")
          /\ t[i] = "complete" => Scheduled(r) /\ single /\ o = "cancelled"
     /\ \A i, k \in DOMAIN t :
          t[i] = t[k] /\ t[i] \in {"fail", "reschedule"} => i = k
     /\ Ahead(r, "advance") => Ahead(r, "clear")
     /\ run[r].pc = "ending" => o \in Outcomes
     /\ run[r].pc # "ending" => t = <<>>

AgendaInv == \A r \in Run : Agenda(r)

(* A run that decided how it ends.                                         *)
LEMMA EndsAs ==
  ASSUME Shape, NEW r \in Run, NEW o, NEW steps, End(r, o, steps)
  PROVE  /\ run'[r].job = run[r].job /\ run'[r].immediate = run[r].immediate
         /\ run'[r].pc = "ending" /\ run'[r].todo = steps
         /\ run'[r].outcome = o
         /\ \A q \in Run \ {r} : run'[q] = run[q]
BY DEF End, Shape, RunShape, RunRecord

(* A run whose turn never starts closes its log, and a scheduled one is    *)
(* tried again later.                                                      *)
LEMMA FailToStartIs ==
  ASSUME Shape, NEW r \in Run, FailToStart(r)
  PROVE  /\ run[r].pc = "opening"
         /\ IF Scheduled(r)
            THEN End(r, "error", <<"finish", "reschedule", "clear">>)
            ELSE End(r, "error", <<"finish", "clear">>)
         /\ UNCHANGED <<rows, running, log, memory, sched, call, calls,
                        history, crashes>>
<1>1. run[r].immediate \in BOOLEAN
  BY DEF Shape, RunShape, RunRecord
<1>2. CASE Scheduled(r)
  BY <1>2, OneByOne DEF FailToStart, Scheduled
<1>3. CASE ~Scheduled(r)
  BY <1>1, <1>3, OneByOne DEF FailToStart, Scheduled
<1> QED BY <1>2, <1>3

(* How a turn, or the failure to start one, leaves the agenda of a run.    *)
Ended(r) ==
  /\ run'[r].job = run[r].job /\ run'[r].immediate = run[r].immediate
  /\ run'[r].pc = "ending" /\ run'[r].outcome \in Outcomes
  /\ \A q \in Run \ {r} : run'[q] = run[q]
  /\ run'[r].todo \in Seq(Steps) \ {<<>>}
  /\ Agenda(r)' /\ Ahead(r, "finish")'

LEMMA FailToStartEnds ==
  ASSUME Shape, NEW r \in Run, FailToStart(r)
  PROVE  /\ Ended(r) /\ run'[r].outcome = "error"
         /\ ~Ahead(r, "fail")' /\ ~Ahead(r, "advance")' /\ ~Ahead(r, "complete")'
<1> DEFINE t == run'[r].todo
<1>1. /\ run'[r].job = run[r].job /\ run'[r].immediate = run[r].immediate
      /\ run'[r].pc = "ending" /\ run'[r].outcome = "error"
      /\ \A q \in Run \ {r} : run'[q] = run[q]
      /\ t = IF Scheduled(r) THEN <<"finish", "reschedule", "clear">>
                             ELSE <<"finish", "clear">>
  BY FailToStartIs, EndsAs
<1>2. CASE Scheduled(r)
  <2>1. t = <<"finish", "reschedule", "clear">>
    BY <1>1, <1>2
  <2>2. /\ t \in Seq(Steps) \ {<<>>} /\ DOMAIN t = 1..3
        /\ t[1] = "finish" /\ t[2] = "reschedule" /\ t[3] = "clear"
    BY <2>1 DEF Steps
  <2> HIDE DEF t
  <2>3. \A i \in 1..3 : i = 1 \/ i = 2 \/ i = 3
    OBVIOUS
  <2> QED BY <1>1, <1>2, <2>2, <2>3
          DEF Ended, Agenda, Ahead, Scheduled, Outcomes, t
<1>3. CASE ~Scheduled(r)
  <2>1. t = <<"finish", "clear">>
    BY <1>1, <1>3
  <2>2. /\ t \in Seq(Steps) \ {<<>>} /\ DOMAIN t = 1..2
        /\ t[1] = "finish" /\ t[2] = "clear"
    BY <2>1 DEF Steps
  <2> HIDE DEF t
  <2>3. \A i \in 1..2 : i = 1 \/ i = 2
    OBVIOUS
  <2> QED BY <1>1, <1>3, <2>2, <2>3
          DEF Ended, Agenda, Ahead, Scheduled, Outcomes, t
<1> QED BY <1>2, <1>3

LEMMA EndTurnEnds ==
  ASSUME Shape, NEW r \in Run, EndTurn(r)
  PROVE  /\ Ended(r)
         /\ run[r].job \in OneShot => ~Ahead(r, "reschedule")'
         /\ Scheduled(r) /\ run[r].job \in OneShot
              /\ run'[r].outcome \in {"success", "empty"} => Ahead(r, "advance")'
<1> DEFINE t == run'[r].todo
           o == run'[r].outcome
           single == run[r].job \in OneShot
<1>1. PICK out \in Outcomes : End(r, out, Ending(r, out))
  BY DEF EndTurn, Outcomes
<1>2. /\ run'[r].job = run[r].job /\ run'[r].immediate = run[r].immediate
      /\ run'[r].pc = "ending" /\ o = out /\ t = Ending(r, out)
      /\ \A q \in Run \ {r} : run'[q] = run[q]
  BY <1>1, EndsAs
<1>3. /\ ~Scheduled(r) => t = <<"finish", "clear">>
      /\ Scheduled(r) /\ o = "success" =>
           t = <<"advance", "clear", "finish", "clear">>
      /\ Scheduled(r) /\ o = "empty" /\ single =>
           t = <<"advance", "finish", "clear">>
      /\ Scheduled(r) /\ o = "empty" /\ ~single =>
           t = <<"reschedule", "finish", "clear">>
      /\ Scheduled(r) /\ o = "error" => t = <<"finish", "fail", "clear">>
      /\ Scheduled(r) /\ o = "cancelled" /\ single =>
           t = <<"finish", "clear", "complete">>
      /\ Scheduled(r) /\ o = "cancelled" /\ ~single => t = <<"finish", "clear">>
  BY <1>2, EndingIs
<1>4. t \in Seq(Steps) \ {<<>>}
  BY <1>2, EndingSteps
<1> DEFINE Goal == /\ Ended(r)
                   /\ single => ~Ahead(r, "reschedule")'
                   /\ Scheduled(r) /\ single /\ o \in {"success", "empty"} =>
                        Ahead(r, "advance")'
<1>5. CASE t = <<"finish", "clear">>
           /\ (Scheduled(r) => o = "cancelled")
  <2>1. DOMAIN t = 1..2 /\ t[1] = "finish" /\ t[2] = "clear"
    BY <1>5
  <2>2. \A i \in 1..2 : i = 1 \/ i = 2
    OBVIOUS
  <2>3. Goal
    <3> HIDE DEF t
    <3> QED BY <1>2, <1>4, <1>5, <2>1, <2>2
            DEF Ended, Agenda, Ahead, Scheduled, Outcomes, t
  <2> QED BY <2>3
<1>6. CASE Scheduled(r) /\ o = "success"
  <2>1. /\ DOMAIN t = 1..4 /\ t[1] = "advance" /\ t[2] = "clear"
        /\ t[3] = "finish" /\ t[4] = "clear"
    BY <1>3, <1>6
  <2>2. \A i \in 1..4 : i = 1 \/ i = 2 \/ i = 3 \/ i = 4
    OBVIOUS
  <2>3. Goal
    <3> HIDE DEF t
    <3> QED BY <1>2, <1>4, <1>6, <2>1, <2>2
            DEF Ended, Agenda, Ahead, Scheduled, Outcomes, t
  <2> QED BY <2>3
<1>7. ASSUME NEW a \in Steps, NEW b \in Steps, NEW c \in Steps,
             Scheduled(r), t = <<a, b, c>>,
             a = "finish" \/ b = "finish", "clear" \in {b, c},
             a # b, a # c, b # c,
             b # "advance", c # "advance",
             "advance" \in {a} => o \in {"success", "empty"},
             "fail" \in {a, b, c} => o = "error",
             "reschedule" \in {a, b, c} => ~single,
             "complete" \in {a, b, c} => single /\ o = "cancelled",
             single /\ o \in {"success", "empty"} => a = "advance"
      PROVE  Goal
  <2>1. DOMAIN t = 1..3 /\ t[1] = a /\ t[2] = b /\ t[3] = c
    BY <1>7
  <2>2. \A i \in 1..3 : i = 1 \/ i = 2 \/ i = 3
    OBVIOUS
  <2> HIDE DEF t
  <2> QED BY <1>2, <1>4, <1>7, <2>1, <2>2
          DEF Ended, Agenda, Ahead, Scheduled, Outcomes, t
<1>8. CASE Scheduled(r) /\ o = "empty" /\ single
  BY <1>3, <1>7, <1>8 DEF Steps
<1>9. CASE Scheduled(r) /\ o = "empty" /\ ~single
  BY <1>3, <1>7, <1>9 DEF Steps
<1>10. CASE Scheduled(r) /\ o = "error"
  BY <1>3, <1>7, <1>10 DEF Steps
<1>11. CASE Scheduled(r) /\ o = "cancelled" /\ single
  BY <1>3, <1>7, <1>11 DEF Steps
<1> QED BY <1>2, <1>3, <1>5, <1>6, <1>8, <1>9, <1>10, <1>11 DEF Outcomes

(* One step of an agenda done: the others stay ahead, and one that comes   *)
(* once is not ahead any more.                                             *)
LEMMA EndingDone ==
  ASSUME Shape, AgendaInv, NEW r \in Run, EndingStep(r)
  PROVE  /\ run[r].pc = "ending" /\ run[r].todo # <<>>
         /\ run'[r].pc \in {"ending", "unregister"}
         /\ run'[r].job = run[r].job /\ run'[r].immediate = run[r].immediate
         /\ run'[r].outcome = run[r].outcome
         /\ \A q \in Run \ {r} : run'[q] = run[q]
         /\ Ahead(r, Head(run[r].todo))
         /\ \A s : Ahead(r, s)' => Ahead(r, s)
         /\ \A s : Ahead(r, s) => Ahead(r, s)' \/ s = Head(run[r].todo)
         /\ \A s \in {"fail", "reschedule"} :
              Head(run[r].todo) = s => ~Ahead(r, s)'
         /\ ~Ahead(r, "advance")'
         /\ Ahead(r, "advance") <=> Head(run[r].todo) = "advance"
         /\ run'[r].pc = "unregister" => \A s : ~Ahead(r, s)'
         /\ Agenda(r)'
<1> DEFINE t == run[r].todo
           n == Len(t)
           u == run'[r].todo
<1>1. run[r].pc = "ending" /\ t \in Seq(Steps) /\ t # <<>>
  BY DEF EndingStep, Shape, RunShape, RunRecord
<1>2. run' = [run EXCEPT ![r].todo = Tail(t),
                         ![r].pc = IF n = 1 THEN "unregister" ELSE run[r].pc]
  BY DEF EndingStep
<1>3. /\ run'[r].pc = (IF n = 1 THEN "unregister" ELSE "ending")
      /\ run'[r].job = run[r].job /\ run'[r].immediate = run[r].immediate
      /\ run'[r].outcome = run[r].outcome /\ u = Tail(t)
      /\ \A q \in Run \ {r} : run'[q] = run[q]
  BY <1>1, <1>2 DEF Shape, RunShape, RunRecord
<1>4. /\ n \in Nat \ {0} /\ DOMAIN t = 1..n /\ Head(t) = t[1]
      /\ DOMAIN u = 1..(n - 1) /\ \A i \in 1..(n - 1) : u[i] = t[i + 1]
  <2>1. /\ Tail(t) \in Seq(Steps) /\ Len(Tail(t)) = n - 1 /\ n \in Nat
        /\ \A i \in 1..Len(Tail(t)) : Tail(t)[i] = t[i + 1]
    BY <1>1, HeadTailProperties
  <2>2. n # 0 /\ DOMAIN t = 1..n /\ Head(t) = t[1]
    BY <1>1
  <2>3. DOMAIN Tail(t) = 1..(n - 1)
    BY <2>1
  <2> QED BY <1>3, <2>1, <2>2, <2>3
<1>5. \A i \in 1..(n - 1) : i + 1 \in 1..n /\ i + 1 # 1
  BY <1>4
<1>6. \A i \in 1..n : i = 1 \/ (i - 1 \in 1..(n - 1) /\ (i - 1) + 1 = i)
  BY <1>4
<1>7. \A i \in 1..n : t[i] = "advance" => i = 1
  BY <1>4 DEF AgendaInv, Agenda
<1>8. \A i, k \in 1..n : t[i] = t[k] /\ t[i] \in {"fail", "reschedule"} => i = k
  BY <1>4 DEF AgendaInv, Agenda
<1>9. 1 \in 1..n
  BY <1>4
<1>10. \A s : Ahead(r, s) <=> \E i \in 1..n : t[i] = s
  BY <1>4 DEF Ahead
<1>11. \A s : Ahead(r, s)' <=> \E i \in 1..(n - 1) : u[i] = s
  BY <1>4 DEF Ahead
<1>12. \A s : Ahead(r, s)' => Ahead(r, s)
  BY <1>4, <1>5, <1>10, <1>11
<1>13. \A s : Ahead(r, s) => Ahead(r, s)' \/ s = Head(t)
  <2> SUFFICES ASSUME NEW s, Ahead(r, s), s # Head(t) PROVE Ahead(r, s)'
    OBVIOUS
  <2>1. PICK i \in 1..n : t[i] = s
    BY <1>10
  <2>2. i - 1 \in 1..(n - 1) /\ (i - 1) + 1 = i
    BY <1>4, <1>6, <2>1
  <2>3. u[i - 1] = t[i]
    BY <1>4, <2>2
  <2> QED BY <1>11, <2>1, <2>2, <2>3
<1>14. \A s \in {"fail", "reschedule"} : Head(t) = s => ~Ahead(r, s)'
  <2> SUFFICES ASSUME NEW s \in {"fail", "reschedule"}, Head(t) = s,
                      NEW i \in 1..(n - 1), u[i] = s
               PROVE  FALSE
    BY <1>11
  <2>1. i + 1 \in 1..n /\ i + 1 # 1 /\ t[i + 1] = t[1]
    BY <1>4, <1>5
  <2> QED BY <1>4, <1>8, <1>9, <2>1
<1>15. ~Ahead(r, "advance")'
  BY <1>4, <1>5, <1>7, <1>11
<1>16. Ahead(r, Head(t)) /\ (Ahead(r, "advance") <=> Head(t) = "advance")
  BY <1>4, <1>7, <1>9, <1>10
<1>17. run'[r].pc = "unregister" => \A s : ~Ahead(r, s)'
  BY <1>3, <1>4, <1>11
<1>18. Agenda(r)'
  <2>1. \A i \in 1..(n - 1) :
          /\ u[i] = "advance" => FALSE
          /\ u[i] = "fail" => Scheduled(r) /\ run[r].outcome = "error"
          /\ u[i] = "reschedule" =>
               Scheduled(r) /\ (run[r].job \in OneShot => run[r].outcome = "error")
          /\ u[i] = "complete" => /\ Scheduled(r) /\ run[r].job \in OneShot
                                  /\ run[r].outcome = "cancelled"
    BY <1>4, <1>5, <1>7 DEF AgendaInv, Agenda
  <2>2. \A i, k \in 1..(n - 1) :
          u[i] = u[k] /\ u[i] \in {"fail", "reschedule"} => i = k
    <3> SUFFICES ASSUME NEW i \in 1..(n - 1), NEW k \in 1..(n - 1),
                        u[i] = u[k], u[i] \in {"fail", "reschedule"}
                 PROVE  i = k
      OBVIOUS
    <3>1. i + 1 = k + 1
      BY <1>4, <1>5, <1>8
    <3> QED BY <1>4, <3>1
  <2>3. run[r].outcome \in Outcomes
    BY <1>1 DEF AgendaInv, Agenda
  <2>4. run'[r].pc # "ending" => u = <<>>
    <3>1. Len(t) = 1 => Tail(t) = <<>>
      BY <1>1, RestOfOne
    <3> QED BY <1>3, <3>1
  <2>5. \A i \in DOMAIN u :
          /\ u[i] = "advance" =>
               i = 1 /\ Scheduled(r)' /\ run'[r].outcome \in {"success", "empty"}
          /\ u[i] = "fail" => Scheduled(r)' /\ run'[r].outcome = "error"
          /\ u[i] = "reschedule" =>
               /\ Scheduled(r)'
               /\ run'[r].job \in OneShot => run'[r].outcome = "error"
          /\ u[i] = "complete" => /\ Scheduled(r)' /\ run'[r].job \in OneShot
                                  /\ run'[r].outcome = "cancelled"
    BY <1>3, <1>4, <2>1 DEF Scheduled
  <2>6. \A i, k \in DOMAIN u :
          u[i] = u[k] /\ u[i] \in {"fail", "reschedule"} => i = k
    BY <1>4, <2>2
  <2>7. /\ run'[r].pc = "ending" => run'[r].outcome \in Outcomes
        /\ Ahead(r, "advance")' => Ahead(r, "clear")'
    BY <1>3, <1>15, <2>3
  <2> QED BY <2>4, <2>5, <2>6, <2>7 DEF Agenda
<1> QED BY <1>1, <1>3, <1>12, <1>13, <1>14, <1>15, <1>16, <1>17, <1>18

(* A run that goes on to another place, with the same agenda.              *)
LEMMA Moves ==
  ASSUME Shape, NEW r \in Run,
         \/ Drain(r) \/ Publish(r) \/ OpenLog(r) \/ Panic(r) \/ Unregister(r)
  PROVE  /\ run'[r].job = run[r].job /\ run'[r].immediate = run[r].immediate
         /\ run'[r].todo = run[r].todo /\ run'[r].outcome = run[r].outcome
         /\ \A q \in Run \ {r} : run'[q] = run[q]
         /\ Drain(r) => run[r].pc = "claimed" /\ run'[r].pc = "drained"
         /\ Publish(r) => run[r].pc = "drained" /\ run'[r].pc = "opening"
         /\ OpenLog(r) => run[r].pc = "opening" /\ run'[r].pc = "turn"
         /\ Panic(r) => run[r].pc = "turn" /\ run'[r].pc = "unregister"
         /\ Unregister(r) => run[r].pc = "unregister" /\ run'[r].pc = "release"
<1> USE DEF Shape, RunShape, RunRecord
<1>1. CASE Drain(r)
  BY <1>1 DEF Drain, Publish, OpenLog, Panic, Unregister
<1>2. CASE Publish(r)
  BY <1>2 DEF Drain, Publish, OpenLog, Panic, Unregister
<1>3. CASE OpenLog(r)
  BY <1>3 DEF Drain, Publish, OpenLog, Panic, Unregister
<1>4. CASE Panic(r)
  BY <1>4 DEF Drain, Publish, OpenLog, Panic, Unregister
<1>5. CASE Unregister(r)
  BY <1>5 DEF Drain, Publish, OpenLog, Panic, Unregister
<1> QED BY <1>1, <1>2, <1>3, <1>4, <1>5

(* A run that is over is remembered by its job.                            *)
LEMMA ReleaseIs ==
  ASSUME Shape, NEW r \in Run, Release(r)
  PROVE  /\ run[r].pc = "release" /\ run'[r].pc = "over"
         /\ run'[r].job = run[r].job /\ run'[r].immediate = run[r].immediate
         /\ run'[r].todo = <<>> /\ run'[r].outcome = "none"
         /\ \A q \in Run \ {r} : run'[q] = run[q]
BY DEF Release, Past, Shape, RunShape

(* A claim takes a number no run has had.                                  *)
LEMMA NewRunIs ==
  ASSUME Shape, NEW j \in Job, NEW i \in BOOLEAN, NewRun(j, i)
  PROVE  \E r \in Run :
           /\ run[r].pc = "none"
           /\ run'[r].job = j /\ run'[r].immediate = i
           /\ run'[r].pc = "claimed" /\ run'[r].todo = <<>>
           /\ run'[r].outcome = "none"
           /\ \A q \in Run \ {r} : run'[q] = run[q]
           /\ running'[j] = r
           /\ \A k \in Job \ {j} : running'[k] = running[k]
<1>1. run \in [Run -> RunRecord] /\ running \in [Job -> Run \cup {None}]
  BY DEF Shape, RunShape, MemoryShape
<1> DEFINE new == [job |-> j, pc |-> "claimed", immediate |-> i, todo |-> <<>>,
                   outcome |-> "none"]
<1>2. PICK r \in Run : /\ run[r].pc = "none"
                       /\ running' = [running EXCEPT ![j] = r]
                       /\ run' = [run EXCEPT ![r] = new]
  BY DEF NewRun
<1>3. /\ run'[r] = new /\ \A q \in Run \ {r} : run'[q] = run[q]
      /\ running'[j] = r /\ \A k \in Job \ {j} : running'[k] = running[k]
  BY <1>1, <1>2
<1> QED BY <1>2, <1>3

(* A crash ends every run.                                                 *)
LEMMA CrashIs ==
  ASSUME Shape, Crash
  PROVE  /\ sched'.pc = "orphans" /\ call' = NoCall
         /\ UNCHANGED <<rows, running, log, touched, fired>>
         /\ \A r \in Run :
              /\ run'[r].job = run[r].job
              /\ run'[r].immediate = run[r].immediate
              /\ run'[r].pc = IF Alive(r) THEN "over" ELSE run[r].pc
              /\ Alive(r) => run'[r].todo = <<>> /\ run'[r].outcome = "none"
              /\ ~Alive(r) => run'[r] = run[r]
BY DEF Crash, Past, Boot, Shape, RunShape

(* Steps that leave the runs alone.                                        *)
Elsewhere ==
  \/ RecoverOrphanedRuns \/ ClearAllRunning \/ Reap \/ ListDue \/ CountRunning
  \/ EndPass \/ Cancel \/ Hold \/ Delete
  \/ \E j \in Job : \/ LoseClaim(j) \/ ComeDue(j) \/ GrowLate(j)
                    \/ Pause(j) \/ Resume(j) \/ Rename(j)
                    \/ \E then \in {"idle", "delete"} : Ask(j, then)

LEMMA NextSplit ==
  ASSUME [Next]_vars
  PROVE  \/ \E r \in Run : RunStep(r)
         \/ \E j \in Job : ClaimScheduled(j) \/ ClaimNow(j)
         \/ Crash \/ Elsewhere \/ UNCHANGED vars
BY DEF Next, Scheduler, User, Elsewhere

LEMMA ElsewhereKeepsRuns == Elsewhere => run' = run
BY DEF Elsewhere, RecoverOrphanedRuns, ClearAllRunning, Reap, ListDue,
   CountRunning, EndPass, Cancel, Hold, Delete, LoseClaim, ComeDue, GrowLate,
   Pause, Resume, Rename, Ask

(* A scheduled claim and a claim by hand.                                  *)
LEMMA ClaimIs ==
  ASSUME Shape, NEW j \in Job, ClaimScheduled(j) \/ ClaimNow(j)
  PROVE  /\ \E i \in BOOLEAN : NewRun(j, i) /\ (i <=> ~ClaimScheduled(j))
         /\ running[j] = None /\ Exists(j) /\ Delivered(j)
         /\ sched.pc \notin {"orphans", "unmark"} /\ sched'.pc = sched.pc
         /\ ClaimScheduled(j) => sched.pc = "claim" /\ status[j] = "active"
         /\ UNCHANGED <<status, passed, failures, log, memory, call, calls,
                        history, crashes>>
<1>1. CASE ClaimScheduled(j)
  BY <1>1 DEF ClaimScheduled, Due, Exists, Shape, SchedShape
<1>2. CASE ClaimNow(j) /\ ~ClaimScheduled(j)
  BY <1>2 DEF ClaimNow, rows
<1> QED BY <1>1, <1>2

LEMMA AgendaInit == Init => AgendaInv
BY DEF Init, AgendaInv, Agenda, NoRun, Ahead

LEMMA AgendaStep == Shape /\ AgendaInv /\ [Next]_vars => AgendaInv'
<1> SUFFICES ASSUME Shape, AgendaInv, [Next]_vars PROVE AgendaInv'
  OBVIOUS
<1>1. ASSUME NEW q \in Run, run'[q] = run[q] PROVE Agenda(q)'
  BY <1>1 DEF AgendaInv, Agenda, Scheduled, Ahead
<1>2. ASSUME NEW q \in Run, run'[q].pc # "ending", run'[q].todo = <<>>
      PROVE  Agenda(q)'
  BY <1>2 DEF Agenda, Ahead
<1>3. ASSUME NEW r \in Run, RunStep(r) PROVE AgendaInv'
  <2>1. \A q \in Run \ {r} : Agenda(q)'
    BY <1>1, <1>3, RunStepTouches
  <2>2. Agenda(r)'
    <3>1. CASE Drain(r) \/ Publish(r) \/ OpenLog(r) \/ Panic(r) \/ Unregister(r)
      BY <1>2, <3>1, Moves DEF AgendaInv, Agenda
    <3>2. CASE FailToStart(r) \/ EndTurn(r)
      BY <3>2, FailToStartEnds, EndTurnEnds DEF Ended
    <3>3. CASE EndingStep(r)
      BY <3>3, EndingDone
    <3>4. CASE Release(r)
      BY <1>2, <3>4, ReleaseIs
    <3> QED BY <1>3, <3>1, <3>2, <3>3, <3>4 DEF RunStep
  <2> QED BY <2>1, <2>2 DEF AgendaInv
<1>4. ASSUME NEW j \in Job, ClaimScheduled(j) \/ ClaimNow(j) PROVE AgendaInv'
  <2>1. PICK r \in Run : /\ run'[r].pc = "claimed" /\ run'[r].todo = <<>>
                         /\ \A q \in Run \ {r} : run'[q] = run[q]
    BY <1>4, ClaimIs, NewRunIs
  <2> QED BY <1>1, <1>2, <2>1 DEF AgendaInv
<1>5. CASE Crash
  <2>1. ASSUME NEW r \in Run PROVE Agenda(r)'
    BY <1>1, <1>2, <1>5, CrashIs
  <2> QED BY <2>1 DEF AgendaInv
<1>6. CASE run' = run
  BY <1>1, <1>6 DEF AgendaInv
<1> QED BY <1>3, <1>4, <1>5, <1>6, NextSplit, ElsewhereKeepsRuns DEF vars

-----------------------------------------------------------------------------
(* A running marker is that of a live run of its job: who ends clears it.  *)
LEMMA MarkerStep == Shape /\ MarkerHasRun /\ [Next]_vars => MarkerHasRun'
<1> SUFFICES ASSUME Shape, MarkerHasRun, [Next]_vars PROVE MarkerHasRun'
  OBVIOUS
<1>0. /\ running \in [Job -> Run \cup {None}]
      /\ \A r \in Run : r # None
      /\ \A r \in Run : Alive(r) => run[r].job \in Job
  BY NoneIsNoRun DEF Shape, MemoryShape, RunShape
<1>1. ASSUME NEW r \in Run, RunStep(r) PROVE MarkerHasRun'
  <2>1. /\ Alive(r) /\ run'[r].job = run[r].job
        /\ \A q \in Run \ {r} : run'[q] = run[q]
    BY <1>1, RunStepTouches
  <2>2. sched' = sched
    BY <1>1, RunStepMarkers
  <2>3. CASE Release(r)
    <3>1. IF running[run[r].job] = r
          THEN running' = [running EXCEPT ![run[r].job] = None]
          ELSE running' = running
      BY <2>3 DEF Release
    <3>2. ASSUME NEW j \in Job, running'[j] # None,
                 sched.pc \notin {"orphans", "unmark"}
          PROVE  /\ run'[running'[j]].pc \notin {"none", "over"}
                 /\ run'[running'[j]].job = j
      <4>1. running'[j] = running[j]
        BY <1>0, <2>1, <3>1, <3>2
      <4>2. Alive(running[j]) /\ run[running[j]].job = j
        BY <3>2, <4>1 DEF MarkerHasRun
      <4>3. running[j] # r
        <5> SUFFICES ASSUME running[j] = r PROVE FALSE
          OBVIOUS
        <5>1. run[r].job = j
          BY <4>2
        <5>2. running'[j] = None
          BY <1>0, <3>1, <5>1
        <5> QED BY <3>2, <5>2
      <4>4. running[j] \in Run \ {r}
        BY <1>0, <3>2, <4>1, <4>3
      <4>5. run'[running[j]] = run[running[j]]
        BY <2>1, <4>4
      <4> QED BY <4>1, <4>2, <4>5 DEF Alive
    <3> QED BY <2>2, <3>2 DEF MarkerHasRun, Alive
  <2>4. CASE ~Release(r)
    <3>1. Alive(r)'
      <4>1. CASE Drain(r) \/ Publish(r) \/ OpenLog(r) \/ Panic(r) \/ Unregister(r)
        BY <4>1, Moves DEF Alive
      <4>2. CASE FailToStart(r) \/ EndTurn(r)
        BY <4>2, FailToStartEnds, EndTurnEnds DEF Ended, Alive
      <4>3. CASE EndingStep(r)
        <5>1. run'[r].pc \in {"ending", "unregister"}
          BY <4>3 DEF EndingStep, Shape, RunShape, RunRecord
        <5> QED BY <5>1 DEF Alive
      <4> QED BY <1>1, <2>4, <4>1, <4>2, <4>3 DEF RunStep
    <3>2. \A j \in Job : running'[j] \in {None, running[j]}
      BY <1>0, <1>1, RunStepMarkers
    <3> QED BY <1>0, <2>1, <2>2, <3>1, <3>2 DEF MarkerHasRun, Alive
  <2> QED BY <2>3, <2>4
<1>2. ASSUME NEW j \in Job, ClaimScheduled(j) \/ ClaimNow(j) PROVE MarkerHasRun'
  <2>1. PICK r \in Run : /\ run[r].pc = "none"
                         /\ run'[r].job = j /\ run'[r].pc = "claimed"
                         /\ \A q \in Run \ {r} : run'[q] = run[q]
                         /\ running'[j] = r
                         /\ \A k \in Job \ {j} : running'[k] = running[k]
    BY <1>2, ClaimIs, NewRunIs
  <2>2. sched'.pc = sched.pc
    BY <1>2, ClaimIs
  <2> QED BY <1>0, <2>1, <2>2 DEF MarkerHasRun, Alive
<1>3. CASE Crash
  BY <1>3, CrashIs DEF MarkerHasRun
<1>4. CASE run' = run /\ sched' = sched /\ running' = running
  BY <1>4 DEF MarkerHasRun, Alive
<1>5. CASE Elsewhere
  <2>1. run' = run
    BY <1>5, ElsewhereKeepsRuns
  <2>2. CASE Delete
    <3>1. running' = [running EXCEPT ![call.job] = None] /\ sched' = sched
      BY <2>2 DEF Delete
    <3> QED BY <1>0, <2>1, <3>1 DEF MarkerHasRun, Alive
  <2>3. CASE ClearAllRunning
    BY <2>3 DEF ClearAllRunning, MarkerHasRun
  <2>4. CASE RecoverOrphanedRuns
    BY <2>4 DEF RecoverOrphanedRuns, MarkerHasRun, Shape, SchedShape
  <2>5. CASE Reap \/ ListDue \/ CountRunning \/ EndPass
               \/ \E j \in Job : LoseClaim(j)
    <3>1. running' = running
      BY <2>5 DEF Reap, ListDue, CountRunning, EndPass, LoseClaim
    <3>2. sched.pc \notin {"orphans", "unmark"}
      BY <2>5 DEF Reap, ListDue, CountRunning, EndPass, LoseClaim
    <3> QED BY <2>1, <3>1, <3>2 DEF MarkerHasRun, Alive
  <2>6. CASE \/ Cancel \/ Hold
             \/ \E j \in Job : \/ ComeDue(j) \/ GrowLate(j)
                               \/ Pause(j) \/ Resume(j) \/ Rename(j)
                               \/ \E then \in {"idle", "delete"} : Ask(j, then)
    <3>1. sched' = sched /\ running' = running
      BY <2>6 DEF Cancel, Hold, ComeDue, GrowLate, Pause, Resume, Rename, Ask
    <3> QED BY <1>4, <2>1, <3>1
  <2> QED BY <1>5, <2>2, <2>3, <2>4, <2>5, <2>6 DEF Elsewhere
<1> QED BY <1>1, <1>2, <1>3, <1>4, <1>5, NextSplit DEF vars

-----------------------------------------------------------------------------
(* The types of the other variables.                                       *)
Times == {"null", "future", "due", "late"}

RowShape ==
  /\ next \in [Job -> Times]
  /\ failures \in [Job -> Nat]
  /\ passed \subseteq OneShot

LogShape == log \in [Run -> {"none", "running"} \cup Outcomes]

HistoryShape ==
  /\ flagged \subseteq Run /\ asked \subseteq Run
  /\ touched \subseteq Job /\ fired \subseteq Run
  /\ calls \in 0..MaxCalls /\ crashes \in 0..MaxCrashes

PassShape ==
  /\ sched.pc \in {"orphans", "unmark", "reap", "list", "count", "claim"}
  /\ sched.list \subseteq Job
  /\ sched.slots \in 0..Cap

Numbered == \A r \in Run : run[r] = NoRun \/ (run[r].job \in Job /\ run[r].pc # "none")

DataShape == RowShape /\ LogShape /\ HistoryShape /\ PassShape /\ Numbered

LEMMA DataShapeInit == Init => DataShape
<1> SUFFICES ASSUME Init PROVE DataShape
  OBVIOUS
<1>1. RowShape
  BY DEF Init, RowShape, Times
<1>2. LogShape
  BY DEF Init, LogShape
<1>3. HistoryShape
  BY CronAssumption DEF Init, HistoryShape
<1>4. PassShape
  BY CronAssumption DEF Init, PassShape, Boot
<1>5. Numbered
  BY DEF Init, Numbered
<1> QED BY <1>1, <1>2, <1>3, <1>4, <1>5 DEF DataShape

(* What the last steps of a run do to the row of its job, and to no other. *)
LEMMA EndingRow ==
  ASSUME Shape, RowShape, NEW r \in Run, EndingStep(r)
  PROVE  LET j == run[r].job
             step == Head(run[r].todo)
         IN /\ j \in Job
            /\ RowShape'
            /\ UNCHANGED <<passed, memory, sched, call, calls, history, crashes>>
            /\ \A k \in Job \ {j} : /\ status'[k] = status[k]
                                    /\ next'[k] = next[k]
                                    /\ failures'[k] = failures[k]
            /\ step \notin {"advance", "reschedule", "fail", "complete"} =>
                 UNCHANGED <<status, next, failures>>
            /\ step = "reschedule" => UNCHANGED <<status, failures>>
            /\ next'[j] \in {next[j], "null", "future"}
            /\ step \in {"advance", "fail"} /\ j \in OneShot =>
                 next'[j] \in {next[j], "null"}
            /\ step = "complete" => next'[j] \in {next[j], "null"}
            /\ step # "fail" => failures'[j] \in {0, failures[j]}
            /\ failures'[j] <= failures[j] + 1
            /\ step = "advance" =>
                 status'[j] = IF status[j] = "active" /\ j \in OneShot
                              THEN "completed" ELSE status[j]
            /\ Exists(j) /\ step = "complete" => status'[j] = "completed"
            /\ Exists(j) => status'[j] # "deleted"
            /\ step # "finish" => UNCHANGED log
            /\ step = "finish" => FinishLog(r, run[r].outcome)
            /\ IF step = "clear" THEN running' = [running EXCEPT ![j] = None]
               ELSE UNCHANGED running
<1> DEFINE j == run[r].job
           step == Head(run[r].todo)
<1> USE DEF RowShape, Times
<1>1. j \in Job /\ run[r].pc = "ending"
  BY DEF Shape, RunShape, EndingStep, Alive
<1>2. status \in [Job -> Status]
  BY DEF Shape, StatusShape
<1>3. UNCHANGED <<passed, memory, sched, call, calls, history, crashes>>
  BY DEF EndingStep
<1> DEFINE Rest == /\ step # "finish" => UNCHANGED log
                   /\ step = "finish" => FinishLog(r, run[r].outcome)
                   /\ IF step = "clear" THEN running' = [running EXCEPT ![j] = None]
                      ELSE UNCHANGED running
<1>4. \/ step = "advance" /\ AdvanceAfterSuccess(j) /\ Rest
      \/ step = "reschedule" /\ Reschedule(j) /\ Rest
      \/ step = "fail" /\ BackOffAfterFailure(j) /\ Rest
      \/ step = "complete" /\ Complete(j) /\ Rest
      \/ /\ step \notin {"advance", "reschedule", "complete"} /\ Rest
         /\ UNCHANGED <<status, next, failures>>
  BY DEF EndingStep
<1> HIDE DEF j, step, Rest, Exists
<1>5. CASE step = "advance" /\ AdvanceAfterSuccess(j) /\ Rest
  <2>1. CASE status[j] = "active"
    <3>1. /\ status' = [status EXCEPT ![j] = IF j \in OneShot THEN "completed"
                                                              ELSE "active"]
          /\ next' = [next EXCEPT ![j] = IF j \in OneShot THEN "null"
                                                          ELSE "future"]
          /\ failures' = [failures EXCEPT ![j] = 0]
      BY <1>5, <2>1 DEF AdvanceAfterSuccess
    <3> QED BY <1>1, <1>2, <1>3, <1>5, <2>1, <3>1 DEF j, step, Rest, Exists
  <2>2. CASE status[j] # "active"
    <3>1. UNCHANGED <<status, next, failures>>
      BY <1>5, <2>2 DEF AdvanceAfterSuccess
    <3> QED BY <1>1, <1>2, <1>3, <1>5, <2>2, <3>1 DEF j, step, Rest, Exists
  <2> QED BY <2>1, <2>2
<1>6. CASE step = "reschedule" /\ Reschedule(j) /\ Rest
  <2>1. /\ next' = [next EXCEPT ![j] = IF Exists(j) THEN "future" ELSE next[j]]
        /\ UNCHANGED <<status, failures>>
    BY <1>6 DEF Reschedule
  <2> QED BY <1>1, <1>2, <1>3, <1>6, <2>1 DEF j, step, Rest, Exists
<1>7. CASE step = "fail" /\ BackOffAfterFailure(j) /\ Rest
  <2>1. failures' = failures \/ failures' = [failures EXCEPT ![j] = failures[j] + 1]
    BY <1>7 DEF BackOffAfterFailure
  <2>2. \/ next' = [next EXCEPT ![j] = "null"]
        \/ j \notin OneShot /\ next' = [next EXCEPT ![j] = "future"]
        \/ next' = next
    BY <1>7 DEF BackOffAfterFailure
  <2>3. status' = status \/ \E s \in Status \ {"deleted"} :
                                  status' = [status EXCEPT ![j] = s]
    BY <1>7 DEF BackOffAfterFailure, Status
  <2>4. /\ failures' \in [Job -> Nat] /\ failures'[j] <= failures[j] + 1
        /\ \A k \in Job \ {j} : failures'[k] = failures[k]
    BY <1>1, <2>1 DEF j
  <2>5. /\ next' \in [Job -> Times]
        /\ j \in OneShot => next'[j] \in {next[j], "null"}
        /\ next'[j] \in {next[j], "null", "future"}
        /\ \A k \in Job \ {j} : next'[k] = next[k]
    BY <1>1, <2>2 DEF j
  <2>6. /\ \A k \in Job \ {j} : status'[k] = status[k]
        /\ Exists(j) => status'[j] # "deleted"
    BY <1>1, <1>2, <2>3 DEF j, Exists
  <2> QED BY <1>1, <1>3, <1>7, <2>4, <2>5, <2>6 DEF j, step, Rest, Exists
<1>8. CASE step = "complete" /\ Complete(j) /\ Rest
  <2>1. /\ status' = [status EXCEPT ![j] = IF Exists(j) THEN "completed" ELSE status[j]]
        /\ next' = [next EXCEPT ![j] = IF Exists(j) THEN "null" ELSE next[j]]
        /\ UNCHANGED failures
    BY <1>8 DEF Complete
  <2> QED BY <1>1, <1>2, <1>3, <1>8, <2>1 DEF j, step, Rest, Exists
<1>9. CASE /\ step \notin {"advance", "reschedule", "complete"} /\ Rest
           /\ UNCHANGED <<status, next, failures>>
  BY <1>1, <1>2, <1>3, <1>9 DEF j, step, Rest, Exists
<1> QED BY <1>4, <1>5, <1>6, <1>7, <1>8, <1>9

LEMMA RowShapeStep == Shape /\ RowShape /\ [Next]_vars => RowShape'
<1> SUFFICES ASSUME Shape, RowShape, [Next]_vars PROVE RowShape'
  OBVIOUS
<1> USE DEF rows
<1>1. CASE UNCHANGED <<next, failures, passed>>
  BY <1>1 DEF RowShape
<1>2. ASSUME NEW r \in Run, RunStep(r) PROVE RowShape'
  <2>1. CASE EndingStep(r)
    BY <2>1, EndingRow
  <2> QED BY <1>1, <1>2, <2>1 DEF RunStep, Drain, Publish, FailToStart,
          OpenLog, EndTurn, Panic, Unregister, Release
<1>3. ASSUME NEW j \in Job, ClaimScheduled(j) \/ ClaimNow(j) PROVE RowShape'
  <2>1. CASE ClaimScheduled(j)
    BY <2>1 DEF ClaimScheduled, RowShape, Times
  <2> QED BY <1>1, <1>3, <2>1 DEF ClaimNow
<1>4. CASE Crash
  BY <1>1, <1>4 DEF Crash
<1>5. CASE Elsewhere
  <2>1. CASE Delete
    BY <2>1 DEF Delete, RowShape, Times
  <2>2. ASSUME NEW j \in Job, ComeDue(j) PROVE RowShape'
    BY <2>2 DEF ComeDue, RowShape, Times
  <2>3. ASSUME NEW j \in Job, GrowLate(j) PROVE RowShape'
    BY <2>3 DEF GrowLate, RowShape, Times
  <2>4. ASSUME NEW j \in Job, Resume(j) PROVE RowShape'
    <3>1. /\ next' = [next EXCEPT ![j] = IF j \in passed THEN "null" ELSE "future"]
          /\ failures' = [failures EXCEPT ![j] = 0] /\ passed' = passed
      BY <2>4 DEF Resume
    <3> QED BY <3>1 DEF RowShape, Times
  <2>5. CASE \/ RecoverOrphanedRuns \/ ClearAllRunning \/ Reap \/ ListDue
             \/ CountRunning \/ EndPass \/ Cancel \/ Hold
             \/ \E j \in Job : \/ LoseClaim(j) \/ Pause(j) \/ Rename(j)
                               \/ \E then \in {"idle", "delete"} : Ask(j, then)
    BY <1>1, <2>5 DEF RecoverOrphanedRuns, ClearAllRunning, Reap, ListDue,
       CountRunning, EndPass, Cancel, Hold, LoseClaim, Pause, Rename, Ask
  <2> QED BY <1>5, <2>1, <2>2, <2>3, <2>4, <2>5 DEF Elsewhere
<1> QED BY <1>1, <1>2, <1>3, <1>4, <1>5, NextSplit DEF vars

(* Which log rows a step writes.                                           *)
LEMMA LogShapeStep == Shape /\ AgendaInv /\ LogShape /\ [Next]_vars => LogShape'
<1> SUFFICES ASSUME Shape, AgendaInv, LogShape, [Next]_vars PROVE LogShape'
  OBVIOUS
<1> USE DEF LogShape, Outcomes
<1>1. CASE UNCHANGED log
  BY <1>1
<1>2. ASSUME NEW r \in Run, RunStep(r) PROVE LogShape'
  <2>1. CASE EndingStep(r)
    <3>1. run[r].outcome \in Outcomes
      BY <2>1 DEF EndingStep, AgendaInv, Agenda
    <3>2. log' = log \/ FinishLog(r, run[r].outcome)
      BY <2>1 DEF EndingStep
    <3> QED BY <3>1, <3>2 DEF FinishLog
  <2>2. CASE OpenLog(r)
    BY <2>2 DEF OpenLog
  <2>3. CASE Release(r)
    BY <2>3 DEF Release, FinishLog
  <2> QED BY <1>1, <1>2, <2>1, <2>2, <2>3 DEF RunStep, Drain, Publish,
          FailToStart, EndTurn, Panic, Unregister
<1>3. CASE RecoverOrphanedRuns
  BY <1>3 DEF RecoverOrphanedRuns
<1>4. CASE Delete
  BY <1>4 DEF Delete
<1> QED BY <1>1, <1>2, <1>3, <1>4, NextSplit DEF Elsewhere, vars,
        ClaimScheduled, ClaimNow, Crash, ClearAllRunning, Reap, ListDue,
        CountRunning, EndPass, Cancel, Hold, LoseClaim, ComeDue, GrowLate,
        Pause, Resume, Rename, Ask

LEMMA HistoryShapeStep == Shape /\ HistoryShape /\ [Next]_vars => HistoryShape'
<1> SUFFICES ASSUME Shape, HistoryShape, [Next]_vars PROVE HistoryShape'
  OBVIOUS
<1> USE DEF HistoryShape, memory, history
<1>0. MaxCalls \in Nat /\ MaxCrashes \in Nat
  BY CronAssumption
<1>1. CASE UNCHANGED <<flagged, asked, touched, fired, calls, crashes>>
  BY <1>1
<1>2. ASSUME NEW r \in Run, RunStep(r) PROVE HistoryShape'
  BY <1>2 DEF RunStep, Drain, Publish, FailToStart, OpenLog, EndTurn,
     Panic, EndingStep, Unregister, Release
<1>3. ASSUME NEW j \in Job, Pause(j) \/ Resume(j) \/ Rename(j)
      PROVE  HistoryShape'
  BY <1>0, <1>3 DEF Pause, Resume, Rename
<1>4. ASSUME NEW j \in Job, NEW then \in {"idle", "delete"}, Ask(j, then)
      PROVE  HistoryShape'
  BY <1>0, <1>4 DEF Ask
<1>5. CASE Delete
  <2>1. call.job \in Job
    BY <1>5 DEF Delete, Shape, CallShape
  <2> QED BY <1>5, <2>1 DEF Delete
<1>6. CASE Crash
  BY <1>0, <1>6 DEF Crash
<1>7. CASE Cancel
  <2>1. call.run \in Run
    BY <1>7 DEF Cancel, Shape, CallShape
  <2> QED BY <1>7, <2>1 DEF Cancel
<1> QED BY <1>1, <1>2, <1>3, <1>4, <1>5, <1>6, <1>7, NextSplit DEF Elsewhere,
        vars, ClaimScheduled, ClaimNow, RecoverOrphanedRuns, ClearAllRunning,
        Reap, ListDue, CountRunning, EndPass, Hold, LoseClaim, ComeDue, GrowLate

(* The markers past the startup's recovery are finitely many, since each   *)
(* is a run's: what they leave of the cap is a number of slots.            *)
LEMMA SlotsLeftOver ==
  ASSUME Shape, MarkerHasRun, sched.pc \notin {"orphans", "unmark"}
  PROVE  /\ IsFiniteSet({j \in Job : running[j] # None})
         /\ Cardinality({j \in Job : running[j] # None}) \in Nat
         /\ AvailableSlots \in 0..Cap
<1> DEFINE marked == {j \in Job : running[j] # None}
           of == [j \in marked |-> running[j]]
<1>1. running \in [Job -> Run \cup {None}]
  BY DEF Shape, MemoryShape
<1>2. IsFiniteSet(Run)
  BY CronAssumption, FS_Interval DEF Run
<1>3. of \in Injection(marked, Run)
  <2>1. \A j \in marked : of[j] \in Run /\ run[of[j]].job = j
    BY <1>1 DEF MarkerHasRun
  <2>2. of \in [marked -> Run]
    BY <2>1
  <2>3. IsInjective(of)
    BY <2>1 DEF IsInjective
  <2> QED BY <2>2, <2>3 DEF Injection
<1>4. IsFiniteSet(marked)
  BY <1>2, <1>3, FS_Injection
<1>5. Cardinality(marked) \in Nat
  BY <1>4, FS_CardinalityType
<1> HIDE DEF marked, of
<1>6. AvailableSlots \in 0..Cap
  <2>1. AvailableSlots = IF Cardinality(marked) >= Cap THEN 0
                         ELSE Cap - Cardinality(marked)
    BY DEF AvailableSlots, marked
  <2> QED BY <1>5, <2>1, CronAssumption
<1> QED BY <1>4, <1>5, <1>6 DEF marked

LEMMA PassShapeStep ==
  Shape /\ MarkerHasRun /\ PassShape /\ [Next]_vars => PassShape'
<1> SUFFICES ASSUME Shape, MarkerHasRun, PassShape, [Next]_vars PROVE PassShape'
  OBVIOUS
<1> USE DEF PassShape
<1>0. Cap \in Nat /\ SchedShape
  BY CronAssumption DEF Shape
<1>1. CASE UNCHANGED sched
  BY <1>1
<1>2. ASSUME NEW r \in Run, RunStep(r) PROVE PassShape'
  BY <1>1, <1>2, RunStepMarkers
<1>3. ASSUME NEW j \in Job, ClaimScheduled(j) PROVE PassShape'
  <2>1. /\ sched' = [sched EXCEPT !.list = sched.list \ {j},
                                  !.slots = sched.slots - 1]
        /\ sched.slots > 0
    BY <1>3 DEF ClaimScheduled
  <2> QED BY <1>0, <2>1 DEF SchedShape
<1>4. CASE RecoverOrphanedRuns \/ ClearAllRunning \/ Reap
  <2>1. \E pc \in {"unmark", "reap", "list"} : sched' = [sched EXCEPT !.pc = pc]
    BY <1>4 DEF RecoverOrphanedRuns, ClearAllRunning, Reap
  <2> QED BY <1>0, <2>1 DEF SchedShape
<1>5. CASE ListDue
  <2>1. \E pc \in {"reap", "count"}, list \in SUBSET Job :
          sched' = [sched EXCEPT !.pc = pc, !.list = list]
    BY <1>5 DEF ListDue
  <2> QED BY <1>0, <2>1 DEF SchedShape
<1>6. CASE CountRunning
  <2>1. AvailableSlots \in 0..Cap
    BY <1>6, SlotsLeftOver DEF CountRunning
  <2>2. sched' = [sched EXCEPT !.pc = "claim", !.slots = AvailableSlots]
    BY <1>6 DEF CountRunning
  <2> QED BY <1>0, <2>1, <2>2 DEF SchedShape
<1>7. ASSUME NEW j \in Job, LoseClaim(j) PROVE PassShape'
  <2>1. sched' = [sched EXCEPT !.list = sched.list \ {j}]
    BY <1>7 DEF LoseClaim
  <2> QED BY <1>0, <2>1 DEF SchedShape
<1>8. CASE EndPass \/ Crash
  BY <1>0, <1>8 DEF EndPass, Crash, Boot
<1> QED BY <1>1, <1>2, <1>3, <1>4, <1>5, <1>6, <1>7, <1>8, NextSplit
        DEF Elsewhere, vars, ClaimNow, Cancel, Hold, Delete, ComeDue, GrowLate,
        Pause, Resume, Rename, Ask

(* A number that no run has had is that of no run.                         *)
LEMMA NumberedStep == Shape /\ Numbered /\ [Next]_vars => Numbered'
<1> SUFFICES ASSUME Shape, Numbered, [Next]_vars PROVE Numbered'
  OBVIOUS
<1> USE DEF Numbered
<1>1. ASSUME NEW r \in Run, RunStep(r) PROVE Numbered'
  <2>1. /\ run[r].job \in Job /\ run'[r].job = run[r].job
        /\ \A q \in Run \ {r} : run'[q] = run[q]
    BY <1>1, RunStepTouches DEF Shape, RunShape
  <2>2. run'[r].pc # "none"
    <3>1. CASE Drain(r) \/ Publish(r) \/ OpenLog(r) \/ Panic(r) \/ Unregister(r)
      BY <3>1, Moves
    <3>2. CASE FailToStart(r) \/ EndTurn(r)
      BY <3>2, FailToStartEnds, EndTurnEnds DEF Ended
    <3>3. CASE EndingStep(r)
      <4>1. run'[r].pc \in {"ending", "unregister"}
        BY <3>3 DEF EndingStep, Shape, RunShape, RunRecord
      <4> QED BY <4>1
    <3>4. CASE Release(r)
      BY <3>4, ReleaseIs
    <3> QED BY <1>1, <3>1, <3>2, <3>3, <3>4 DEF RunStep
  <2> QED BY <2>1, <2>2
<1>2. ASSUME NEW j \in Job, ClaimScheduled(j) \/ ClaimNow(j) PROVE Numbered'
  <2>1. PICK r \in Run : /\ run'[r].job = j /\ run'[r].pc = "claimed"
                         /\ \A q \in Run \ {r} : run'[q] = run[q]
    BY <1>2, ClaimIs, NewRunIs
  <2> QED BY <2>1
<1>3. CASE Crash
  <2>1. ASSUME NEW r \in Run, run'[r] # NoRun
        PROVE  run'[r].job \in Job /\ run'[r].pc # "none"
    <3>1. CASE Alive(r)
      <4>1. run[r].job \in Job
        BY <3>1 DEF Shape, RunShape
      <4> QED BY <1>3, <3>1, <4>1, CrashIs
    <3>2. CASE ~Alive(r)
      <4>1. run'[r] = run[r]
        BY <1>3, <3>2, CrashIs
      <4> QED BY <2>1, <4>1
    <3> QED BY <3>1, <3>2
  <2> QED BY <2>1
<1>4. CASE run' = run
  BY <1>4
<1> QED BY <1>1, <1>2, <1>3, <1>4, NextSplit, ElsewhereKeepsRuns DEF vars

(* What the theorems about the cap and the logs stand on.                  *)
Basis == Shape /\ AgendaInv /\ MarkerHasRun /\ DataShape

LEMMA BasisInvariant == Spec => []Basis
<1>1. Init => Basis
  <2>1. Init => MarkerHasRun
    BY DEF Init, MarkerHasRun, Boot
  <2> QED BY <2>1, ShapeInit, AgendaInit, DataShapeInit DEF Basis
<1>2. Shape /\ Shape' /\ Basis /\ [Next]_vars => Basis'
  BY AgendaStep, MarkerStep, RowShapeStep, LogShapeStep, HistoryShapeStep,
     PassShapeStep, NumberedStep DEF Basis, DataShape
<1> QED BY ShapeInvariant, <1>1, <1>2, PTL DEF Spec

-----------------------------------------------------------------------------
(* Failures.  A job has failed no more often than there are runs that need *)
(* not report one any more, so the counter stays within the claims.        *)
Spent == {r \in Run : run[r].pc # "none" /\ ~InTurn(r) /\ ~Ahead(r, "fail")}

FailuresCounted == \A j \in Job : failures[j] <= Cardinality(Spent)

LEMMA RunsAreFinite ==
  ASSUME NEW S \in SUBSET Run
  PROVE  /\ IsFiniteSet(S) /\ Cardinality(S) \in Nat
         /\ Cardinality(S) <= MaxRuns
<1>1. /\ MaxRuns \in Nat /\ IsFiniteSet(Run)
      /\ Cardinality(Run) = IF 1 > MaxRuns THEN 0 ELSE MaxRuns - 1 + 1
  BY CronAssumption, FS_Interval DEF Run
<1>2. Cardinality(Run) = MaxRuns
  BY <1>1
<1>3. IsFiniteSet(S) /\ Cardinality(S) <= Cardinality(Run)
  BY <1>1, FS_Subset
<1>4. Cardinality(S) \in Nat
  BY <1>3, FS_CardinalityType
<1> QED BY <1>2, <1>3, <1>4

(* A run that is spent stays so.                                           *)
LEMMA SpentGrows ==
  ASSUME Shape, AgendaInv, [Next]_vars
  PROVE  Spent \subseteq Spent'
<1> USE DEF Spent, InTurn
<1>1. ASSUME NEW q \in Run, run'[q] = run[q], q \in Spent PROVE q \in Spent'
  BY <1>1 DEF Ahead
<1>2. ASSUME NEW r \in Run, RunStep(r) PROVE Spent \subseteq Spent'
  <2>1. \A q \in Spent : q # r => q \in Spent'
    BY <1>1, <1>2, RunStepTouches
  <2>2. r \in Spent => r \in Spent'
    <3> SUFFICES ASSUME r \in Spent PROVE r \in Spent'
      OBVIOUS
    <3>1. CASE EndingStep(r)
      <4>1. run'[r].pc \in {"ending", "unregister"} /\ ~Ahead(r, "fail")'
        BY <3>1, EndingDone
      <4> QED BY <4>1
    <3>2. CASE Unregister(r)
      <4>1. run'[r].pc = "release" /\ run'[r].todo = run[r].todo
        BY <3>2, Moves
      <4> QED BY <4>1 DEF Ahead
    <3>3. CASE Release(r)
      <4>1. run'[r].pc = "over" /\ run'[r].todo = <<>>
        BY <3>3, ReleaseIs
      <4> QED BY <4>1 DEF Ahead
    <3> QED BY <1>2, <3>1, <3>2, <3>3 DEF RunStep, Drain, Publish, FailToStart,
            OpenLog, EndTurn, Panic
  <2> QED BY <2>1, <2>2
<1>3. ASSUME NEW j \in Job, ClaimScheduled(j) \/ ClaimNow(j)
      PROVE  Spent \subseteq Spent'
  <2>1. PICK r \in Run : /\ run[r].pc = "none"
                         /\ \A q \in Run \ {r} : run'[q] = run[q]
    BY <1>3, ClaimIs, NewRunIs
  <2> QED BY <1>1, <2>1
<1>4. CASE Crash
  <2>1. ASSUME NEW r \in Spent PROVE r \in Spent'
    <3>1. CASE Alive(r)
      <4>1. run'[r].pc = "over" /\ run'[r].todo = <<>>
        BY <1>4, <3>1, CrashIs
      <4> QED BY <4>1 DEF Ahead
    <3>2. CASE ~Alive(r)
      <4>1. run'[r] = run[r]
        BY <1>4, <3>2, CrashIs
      <4> QED BY <1>1, <4>1
    <3> QED BY <3>1, <3>2
  <2> QED BY <2>1
<1>5. CASE run' = run
  BY <1>1, <1>5
<1> QED BY <1>2, <1>3, <1>4, <1>5, NextSplit, ElsewhereKeepsRuns DEF vars

LEMMA FailuresStep ==
  Basis /\ FailuresCounted /\ [Next]_vars => FailuresCounted'
<1> SUFFICES ASSUME Basis, FailuresCounted, [Next]_vars PROVE FailuresCounted'
  OBVIOUS
<1> USE DEF FailuresCounted
<1>1. Shape /\ AgendaInv /\ RowShape
  BY DEF Basis, DataShape
<1>2. /\ IsFiniteSet(Spent) /\ Cardinality(Spent) \in Nat
      /\ IsFiniteSet(Spent') /\ Cardinality(Spent') \in Nat
  <2>1. Spent \in SUBSET Run /\ Spent' \in SUBSET Run
    BY DEF Spent
  <2> QED BY <2>1, RunsAreFinite
<1>3. Cardinality(Spent) <= Cardinality(Spent')
  <2>1. Spent \in SUBSET Spent'
    BY <1>1, SpentGrows
  <2> QED BY <1>2, <2>1, FS_Subset
<1>4. failures \in [Job -> Nat]
  BY <1>1 DEF RowShape
<1>5. ASSUME \A j \in Job : failures'[j] \in {0, failures[j]}
      PROVE  FailuresCounted'
  BY <1>2, <1>3, <1>4, <1>5
<1>6. ASSUME NEW r \in Run, EndingStep(r) PROVE FailuresCounted'
  <2> DEFINE j == run[r].job
  <2>1. /\ j \in Job /\ RowShape'
        /\ \A k \in Job \ {j} : failures'[k] = failures[k]
        /\ Head(run[r].todo) # "fail" => failures'[j] \in {0, failures[j]}
        /\ failures'[j] <= failures[j] + 1
    BY <1>1, <1>6, EndingRow
  <2>2. CASE Head(run[r].todo) # "fail"
    BY <1>5, <2>1, <2>2
  <2>3. CASE Head(run[r].todo) = "fail"
    <3>1. /\ Ahead(r, "fail") /\ ~Ahead(r, "fail")'
          /\ run'[r].pc \in {"ending", "unregister"}
      BY <1>1, <1>6, <2>3, EndingDone
    <3>2. r \notin Spent /\ r \in Spent'
      BY <3>1 DEF Spent, InTurn
    <3>3. Spent \cup {r} \in SUBSET Spent'
      BY <1>1, <3>2, SpentGrows
    <3>4. Cardinality(Spent \cup {r}) = Cardinality(Spent) + 1
      BY <1>2, <3>2, FS_AddElement
    <3>5. Cardinality(Spent \cup {r}) <= Cardinality(Spent')
      BY <1>2, <3>3, FS_Subset
    <3>6. failures' \in [Job -> Nat]
      BY <2>1 DEF RowShape
    <3>7. Cardinality(Spent) + 1 <= Cardinality(Spent')
      BY <3>4, <3>5
    <3> HIDE DEF j
    <3>8. ASSUME NEW k \in Job PROVE failures'[k] <= Cardinality(Spent')
      <4>1. failures[k] <= Cardinality(Spent) /\ failures[k] \in Nat
        BY <1>4
      <4>2. failures'[k] \in Nat /\ failures'[k] <= failures[k] + 1
        BY <1>4, <2>1, <3>6
      <4> QED BY <1>2, <3>7, <4>1, <4>2
    <3> QED BY <3>8
  <2> QED BY <2>2, <2>3
<1>7. ASSUME NEW j \in Job, Resume(j) PROVE FailuresCounted'
  <2>1. failures' = [failures EXCEPT ![j] = 0]
    BY <1>7 DEF Resume
  <2> QED BY <1>4, <1>5, <2>1
<1>8. CASE failures' = failures
  BY <1>5, <1>8
<1>9. ASSUME NEW r \in Run, RunStep(r) PROVE FailuresCounted'
  BY <1>6, <1>8, <1>9 DEF RunStep, Drain, Publish, FailToStart, OpenLog,
     EndTurn, Panic, Unregister, Release, rows
<1>10. ASSUME NEW j \in Job, ClaimScheduled(j) \/ ClaimNow(j)
       PROVE  FailuresCounted'
  BY <1>8, <1>10 DEF ClaimScheduled, ClaimNow, rows
<1>11. CASE Crash \/ Elsewhere
  BY <1>7, <1>8, <1>11 DEF Elsewhere, rows, Crash, RecoverOrphanedRuns,
     ClearAllRunning, Reap, ListDue, CountRunning, EndPass, Cancel, Hold,
     Delete, LoseClaim, ComeDue, GrowLate, Pause, Rename, Ask
<1> QED BY <1>8, <1>9, <1>10, <1>11, NextSplit DEF vars

(* What is in Basis, in FailuresCounted and in Shape are the types.        *)
LEMMA TypesHold ==
  ASSUME Job # {}, Basis, FailuresCounted
  PROVE  TypeOK
<1>1. Shape /\ DataShape
  BY DEF Basis
<1>2. status \in [Job -> Status] /\ next \in [Job -> Times] /\ passed \subseteq OneShot
  BY <1>1 DEF Shape, StatusShape, DataShape, RowShape
<1>3. failures \in [Job -> 0..MaxRuns]
  <2>1. failures \in [Job -> Nat] /\ MaxRuns \in Nat
    BY <1>1, CronAssumption DEF DataShape, RowShape
  <2>2. \A j \in Job : failures[j] <= MaxRuns
    <3>1. Spent \in SUBSET Run
      BY DEF Spent
    <3>2. Cardinality(Spent) \in Nat /\ Cardinality(Spent) <= MaxRuns
      BY <3>1, RunsAreFinite
    <3> QED BY <2>1, <3>2 DEF FailuresCounted
  <2>3. \A j \in Job : failures[j] \in 0..MaxRuns
    BY <2>1, <2>2
  <2> QED BY <2>1, <2>3
<1>4. running \in [Job -> Run \cup {None}] /\ live \in [Job -> Run \cup {None}]
      /\ pending \in [Job -> Run \cup {None}]
  BY <1>1 DEF Shape, MemoryShape
<1> DEFINE Claimed == [job : Job,
                       pc : {"claimed", "drained", "opening", "turn", "ending",
                             "unregister", "release", "over"},
                       immediate : BOOLEAN, todo : Seq(Steps),
                       outcome : Outcomes \cup {"none"}]
<1>5. run \in [Run -> {NoRun} \cup Claimed]
  <2>1. run \in [Run -> RunRecord]
    BY <1>1 DEF Shape, RunShape
  <2>2. ASSUME NEW r \in Run PROVE run[r] \in {NoRun} \cup Claimed
    <3>1. CASE run[r] # NoRun
      <4>1. run[r] \in RunRecord /\ run[r].job \in Job /\ run[r].pc # "none"
        BY <1>1, <2>1, <3>1 DEF DataShape, Numbered
      <4>2. run[r] \in Claimed
        BY <4>1 DEF RunRecord, RunPC
      <4> QED BY <4>2
    <3> QED BY <3>1
  <2> HIDE DEF Claimed
  <2> QED BY <2>1, <2>2
<1>6. log \in [Run -> {"none", "running"} \cup Outcomes]
  BY <1>1 DEF DataShape, LogShape
<1>7. /\ flagged \subseteq Run /\ asked \subseteq Run
      /\ calls \in 0..MaxCalls /\ crashes \in 0..MaxCrashes
      /\ touched \subseteq Job /\ fired \subseteq Run
  BY <1>1 DEF DataShape, HistoryShape
<1>8. sched \in [pc : {"orphans", "unmark", "reap", "list", "count", "claim"},
                 list : SUBSET Job, slots : 0..Cap]
  <2>1. SchedShape /\ PassShape
    BY <1>1 DEF Shape, DataShape
  <2> QED BY <2>1 DEF SchedShape, PassShape
<1>9. call \in [pc : {"idle", "cancel", "hold", "delete"}, job : Job,
                run : Run \cup {None}, then : {"idle", "delete"}]
  <2>1. NoCall.job \in Job
    BY DEF NoCall
  <2> QED BY <1>1, <2>1 DEF Shape, CallShape
<1> QED BY <1>2, <1>3, <1>4, <1>5, <1>6, <1>7, <1>8, <1>9
        DEF TypeOK, Status, Times

LEMMA CountInvariant == Spec => [](Basis /\ FailuresCounted)
<1>1. Init => FailuresCounted
  <2> SUFFICES ASSUME Init PROVE FailuresCounted
    OBVIOUS
  <2>1. \A j \in Job : failures[j] = 0
    BY DEF Init
  <2>2. Cardinality(Spent) \in Nat
    <3>1. Spent \in SUBSET Run
      BY DEF Spent
    <3> QED BY <3>1, RunsAreFinite
  <2> QED BY <2>1, <2>2 DEF FailuresCounted
<1> QED BY BasisInvariant, <1>1, FailuresStep, PTL DEF Spec

(* Whatever runs fail, crash or are claimed, every variable keeps its      *)
(* type: a pass never counts less than no slot or more than the cap, a job *)
(* has no more failures than claims, a run has only known steps ahead      *)
(* (db.rs, update_after_run; scheduler.rs, available_slots).               *)
THEOREM CronTypeCorrect == ASSUME Job # {} PROVE Spec => []TypeOK
<1>1. Basis /\ FailuresCounted => TypeOK
  BY TypesHold
<1> QED BY CountInvariant, <1>1, PTL

(* No slot leaks: past the startup's recovery a running marker is that of  *)
(* a live run of its job, for any jobs, runs and crashes (executor.rs,     *)
(* RunningMarkerGuard; db.rs, clear_all_running).                          *)
THEOREM NoSlotLeaks == Spec => []MarkerHasRun
<1>1. Basis => MarkerHasRun
  BY DEF Basis
<1> QED BY BasisInvariant, <1>1, PTL

-----------------------------------------------------------------------------
(* The cap.  The turns that count are marked, each by its own job, so the  *)
(* markers that a pass counts are no fewer than the turns, and every claim *)
(* of the pass takes one of the slots it found.                            *)
InUse == {r \in Run : InTurn(r) /\ Scheduled(r) /\ Exists(run[r].job)}

CapInv ==
  /\ Cardinality(InUse) <= Cap
  /\ sched.pc = "claim" => Cardinality(InUse) + sched.slots <= Cap

(* Only a scheduled claim takes a turn that counts.                        *)
LEMMA TurnsInUse ==
  ASSUME Shape, [Next]_vars
  PROVE  \/ InUse' \subseteq InUse
         \/ \E j \in Job, r \in Run :
              ClaimScheduled(j) /\ InUse' \subseteq InUse \cup {r}
<1>0. ASSUME NEW q \in Run, q \in InUse',
             run'[q].job = run[q].job, run'[q].immediate = run[q].immediate,
             InTurn(q)
      PROVE  q \in InUse
  <2>1. run[q].job \in Job
    BY <1>0 DEF Shape, RunShape, InTurn, Alive
  <2>2. \A k \in Job : Exists(k)' => Exists(k)
    BY StatusStep DEF Shape, StatusKept
  <2> QED BY <1>0, <2>1, <2>2 DEF InUse, Scheduled, Exists
<1>1. ASSUME NEW q \in Run, run'[q] = run[q], q \in InUse' PROVE q \in InUse
  BY <1>0, <1>1 DEF InUse, InTurn
<1>2. ASSUME NEW r \in Run, RunStep(r) PROVE InUse' \subseteq InUse
  <2>1. ASSUME r \in InUse' PROVE r \in InUse
    <3>1. InTurn(r)'
      BY <2>1 DEF InUse
    <3>2. InTurn(r) /\ run'[r].job = run[r].job
      BY <1>2, <3>1, RunStepMarkers, RunStepTouches
    <3>3. ~EndingStep(r) /\ ~Release(r)
      BY <3>2 DEF EndingStep, Release, InTurn
    <3>4. run'[r].immediate = run[r].immediate
      <4>1. CASE Drain(r) \/ Publish(r) \/ OpenLog(r) \/ Panic(r) \/ Unregister(r)
        BY <4>1, Moves
      <4>2. CASE FailToStart(r) \/ EndTurn(r)
        BY <4>2, FailToStartEnds, EndTurnEnds DEF Ended
      <4> QED BY <1>2, <3>3, <4>1, <4>2 DEF RunStep
    <3> QED BY <1>0, <2>1, <3>2, <3>4
  <2>2. \A q \in Run \ {r} : run'[q] = run[q]
    BY <1>2, RunStepTouches
  <2> QED BY <1>1, <2>1, <2>2 DEF InUse
<1>3. ASSUME NEW j \in Job, ClaimScheduled(j) \/ ClaimNow(j)
      PROVE  \/ InUse' \subseteq InUse
             \/ \E r \in Run : ClaimScheduled(j) /\ InUse' \subseteq InUse \cup {r}
  <2>1. PICK i \in BOOLEAN : NewRun(j, i) /\ (i <=> ~ClaimScheduled(j))
    BY <1>3, ClaimIs
  <2>2. PICK r \in Run : /\ run'[r].immediate = i
                         /\ \A q \in Run \ {r} : run'[q] = run[q]
    BY <2>1, NewRunIs
  <2>3. \A q \in Run \ {r} : q \in InUse' => q \in InUse
    BY <1>1, <2>2
  <2>4. CASE ClaimScheduled(j)
    BY <2>3, <2>4 DEF InUse
  <2>5. CASE ~ClaimScheduled(j)
    <3>1. r \notin InUse'
      BY <2>1, <2>2, <2>5 DEF InUse, Scheduled
    <3> QED BY <2>3, <3>1 DEF InUse
  <2> QED BY <2>4, <2>5
<1>4. CASE Crash
  <2>1. \A q \in Run : ~InTurn(q)'
    BY <1>4, CrashIs DEF InTurn, Alive
  <2> QED BY <2>1 DEF InUse
<1>5. CASE run' = run
  BY <1>1, <1>5 DEF InUse
<1> QED BY <1>2, <1>3, <1>4, <1>5, NextSplit, ElsewhereKeepsRuns DEF vars

LEMMA CapStep ==
  Basis /\ TurnInv /\ CapInv /\ [Next]_vars => CapInv'
<1> SUFFICES ASSUME Basis, TurnInv, CapInv, [Next]_vars PROVE CapInv'
  OBVIOUS
<1>0. Shape /\ SchedShape /\ PassShape /\ MarkerHasRun /\ Cap \in Nat
  BY CronAssumption DEF Basis, DataShape, Shape
<1>1. /\ IsFiniteSet(InUse) /\ Cardinality(InUse) \in Nat
      /\ IsFiniteSet(InUse') /\ Cardinality(InUse') \in Nat
  <2>1. InUse \in SUBSET Run /\ InUse' \in SUBSET Run
    BY DEF InUse
  <2> QED BY <2>1, RunsAreFinite
<1>2. CASE InUse' \subseteq InUse
  <2>1. Cardinality(InUse') <= Cardinality(InUse)
    <3>1. InUse' \in SUBSET InUse
      BY <1>2
    <3> QED BY <1>1, <3>1, FS_Subset
  <2>2. Cardinality(InUse') <= Cap
    BY <1>0, <1>1, <2>1 DEF CapInv
  <2>3. ASSUME sched'.pc = "claim" PROVE Cardinality(InUse') + sched'.slots <= Cap
    <3>1. CASE sched'.pc = sched.pc /\ sched'.slots = sched.slots
      BY <1>0, <1>1, <2>1, <2>3, <3>1 DEF CapInv, PassShape
    <3>2. CASE CountRunning
      <4> DEFINE marked == {j \in Job : running[j] # None}
                 of == [r \in InUse |-> run[r].job]
      <4>1. sched.pc = "count" /\ sched' = [sched EXCEPT !.pc = "claim", !.slots = AvailableSlots]
        BY <3>2 DEF CountRunning
      <4>2. IsFiniteSet(marked) /\ Cardinality(marked) \in Nat
        BY <1>0, <4>1, SlotsLeftOver
      <4>3. Cardinality(InUse) <= Cardinality(marked)
        <5>1. ASSUME NEW r \in InUse
              PROVE  run[r].job \in marked /\ running[run[r].job] = r
          <6>1. run[r].job \in Job /\ running[run[r].job] = r
            BY <1>0 DEF InUse, Shape, RunShape, InTurn, Alive, TurnInv, MarkerIsTurns
          <6> QED BY <6>1, NoneIsNoRun DEF InUse
        <5>2. of \in [InUse -> marked]
          BY <5>1
        <5>3. IsInjective(of)
          BY <5>1 DEF IsInjective
        <5>4. of \in Injection(InUse, marked)
          BY <5>2, <5>3 DEF Injection
        <5> HIDE DEF of, marked
        <5> QED BY <4>2, <5>4, FS_Injection
      <4>4. AvailableSlots = IF Cardinality(marked) >= Cap THEN 0
                             ELSE Cap - Cardinality(marked)
        BY DEF AvailableSlots
      <4>5. sched'.slots = AvailableSlots
        BY <1>0, <4>1 DEF SchedShape
      <4> HIDE DEF marked, of
      <4>6. Cardinality(InUse) <= Cap
        BY DEF CapInv
      <4>7. CASE Cardinality(marked) >= Cap
        <5>1. sched'.slots = 0
          BY <4>4, <4>5, <4>7
        <5> QED BY <1>0, <1>1, <2>2, <5>1
      <4>8. CASE ~(Cardinality(marked) >= Cap)
        <5>1. sched'.slots = Cap - Cardinality(marked)
          BY <4>4, <4>5, <4>8
        <5> QED BY <1>0, <1>1, <2>1, <4>2, <4>3, <5>1
      <4> QED BY <4>7, <4>8
    <3>3. ASSUME NEW j \in Job, ClaimScheduled(j)
          PROVE  Cardinality(InUse') + sched'.slots <= Cap
      <4>1. /\ sched.pc = "claim"
            /\ sched' = [sched EXCEPT !.list = sched.list \ {j},
                                      !.slots = sched.slots - 1]
        BY <3>3 DEF ClaimScheduled
      <4>2. sched'.slots = sched.slots - 1
        BY <1>0, <4>1 DEF SchedShape
      <4>3. Cardinality(InUse) + sched.slots <= Cap /\ sched.slots \in Nat
        BY <1>0, <4>1 DEF CapInv, PassShape
      <4> QED BY <1>0, <1>1, <2>1, <4>2, <4>3
    <3>4. CASE RecoverOrphanedRuns \/ ClearAllRunning \/ Reap \/ ListDue
                 \/ EndPass \/ Crash
      <4>1. sched'.pc # "claim"
        <5>1. CASE EndPass \/ Crash
          BY <5>1 DEF EndPass, Crash, Boot
        <5>2. CASE ListDue
          BY <1>0, <5>2 DEF SchedShape, ListDue
        <5>3. CASE RecoverOrphanedRuns
          BY <1>0, <5>3 DEF SchedShape, RecoverOrphanedRuns
        <5>4. CASE ClearAllRunning
          BY <1>0, <5>4 DEF SchedShape, ClearAllRunning
        <5>5. CASE Reap
          BY <1>0, <5>5 DEF SchedShape, Reap
        <5> QED BY <3>4, <5>1, <5>2, <5>3, <5>4, <5>5
      <4> QED BY <2>3, <4>1
    <3>5. ASSUME NEW j \in Job, LoseClaim(j)
          PROVE  Cardinality(InUse') + sched'.slots <= Cap
      <4>1. sched'.slots = sched.slots /\ sched'.pc = sched.pc
        BY <1>0, <3>5 DEF SchedShape, LoseClaim
      <4> QED BY <3>1, <4>1
    <3>6. CASE sched' = sched
      BY <3>1, <3>6
    <3>7. ASSUME NEW r \in Run, RunStep(r) PROVE sched' = sched
      BY <1>0, <3>7, RunStepMarkers
    <3> QED BY <3>2, <3>3, <3>4, <3>5, <3>6, <3>7, NextSplit DEF Elsewhere,
            vars, ClaimNow, Cancel, Hold, Delete, ComeDue, GrowLate, Pause,
            Resume, Rename, Ask
  <2> QED BY <2>2, <2>3 DEF CapInv
<1>3. CASE \E j \in Job, r \in Run :
             ClaimScheduled(j) /\ InUse' \subseteq InUse \cup {r}
  <2>1. PICK j \in Job, r \in Run :
          ClaimScheduled(j) /\ InUse' \subseteq InUse \cup {r}
    BY <1>3
  <2>2. /\ sched.pc = "claim" /\ sched.slots > 0
        /\ sched' = [sched EXCEPT !.list = sched.list \ {j},
                                  !.slots = sched.slots - 1]
    BY <2>1 DEF ClaimScheduled
  <2>3. sched'.slots = sched.slots - 1
    BY <1>0, <2>2 DEF SchedShape
  <2>4. Cardinality(InUse) + sched.slots <= Cap /\ sched.slots \in Nat
    BY <1>0, <2>2 DEF CapInv, PassShape
  <2>5. /\ IsFiniteSet(InUse \cup {r})
        /\ Cardinality(InUse \cup {r}) \in {Cardinality(InUse), Cardinality(InUse) + 1}
    BY <1>1, FS_AddElement
  <2>6. Cardinality(InUse') <= Cardinality(InUse \cup {r})
    <3>1. InUse' \in SUBSET (InUse \cup {r})
      BY <2>1
    <3> QED BY <2>5, <3>1, FS_Subset
  <2>7. Cardinality(InUse') <= Cardinality(InUse) + 1
    BY <1>1, <2>5, <2>6
  <2> QED BY <1>0, <1>1, <2>2, <2>3, <2>4, <2>7 DEF CapInv
<1> QED BY <1>0, <1>2, <1>3, TurnsInUse

(* The slots the markers stand for are neither lost nor invented, for any  *)
(* cap: every marker has its run, and the turns the scheduler started are  *)
(* never more than the cap, provided that a run delivers before its job is *)
(* due again (scheduler.rs, available_slots; executor.rs,                  *)
(* RunningMarkerGuard).                                                    *)
THEOREM SlotsStayExact ==
  ASSUME SlowDelivery = {}, Job # {} PROVE Spec => []SlotsAreExact
<1>1. Init => CapInv
  <2> SUFFICES ASSUME Init PROVE CapInv
    OBVIOUS
  <2>1. InUse = {}
    BY DEF Init, InUse, InTurn, NoRun
  <2>2. Cardinality(InUse) = 0 /\ Cap \in Nat
    BY <2>1, FS_EmptySet, CronAssumption
  <2>3. sched.pc # "claim"
    BY DEF Init, Boot
  <2> QED BY <2>2, <2>3 DEF CapInv
<1>2. Shape /\ TurnInv /\ [Next]_vars => TurnInv'
  BY TurnInvStep
<1>3. Basis => Shape
  BY DEF Basis
<1>4. Basis /\ FailuresCounted /\ CapInv => SlotsAreExact
  <2> SUFFICES ASSUME Basis, FailuresCounted, CapInv PROVE SlotsAreExact
    OBVIOUS
  <2>1. MarkerHasRun /\ TypeOK
    BY TypesHold DEF Basis
  <2>2. CapHeld
    BY DEF CapHeld, CapInv, InUse
  <2> QED BY <2>1, <2>2 DEF SlotsAreExact
<1> QED BY CountInvariant, <1>1, <1>2, <1>3, <1>4, TurnInvInit, CapStep, PTL
        DEF Spec

-----------------------------------------------------------------------------
(* One-shot jobs.  The occurrence of a one-shot job is held by one         *)
(* scheduled run, from its claim until it gives it back by rescheduling,   *)
(* or for ever once its turn has started; while it is held the job has no  *)
(* next run.                                                               *)
Pre == {"claimed", "drained", "opening"}

Single(r) == run[r].pc # "none" /\ Scheduled(r) /\ run[r].job \in OneShot

Holder(r) ==
  Single(r) /\ (run[r].pc \in Pre \/ Ahead(r, "reschedule") \/ r \in fired)

FiredHold ==
  \A r \in fired : Single(r) /\ run[r].pc \notin Pre /\ ~Ahead(r, "reschedule")

TurnsFired ==
  \A r \in Run :
    /\ Single(r)
    /\ \/ run[r].pc = "turn"
       \/ Ahead(r, "fail") \/ Ahead(r, "complete") \/ Ahead(r, "advance")
       \/ run[r].pc = "ending" /\ run[r].outcome \in {"success", "empty"}
    => r \in fired

TimeHasCome ==
  /\ \A r \in Run : Single(r) => run[r].job \in passed
  /\ \A j \in OneShot : next[j] \in {"due", "late"} => j \in passed

HeldOnce ==
  /\ \A r \in Run : Holder(r) => next[run[r].job] = "null"
  /\ \A q, r \in Run :
       Holder(q) /\ Holder(r) /\ run[q].job = run[r].job => q = r

ShotInv == FiredHold /\ TurnsFired /\ TimeHasCome /\ HeldOnce

(* What a step of a run does to the occurrence it holds.                   *)
LEMMA ShotRunStep ==
  ASSUME Basis, ShotInv, NEW r \in Run, RunStep(r)
  PROVE  /\ Single(r)' <=> Single(r)
         /\ Holder(r)' => Holder(r)
         /\ r \in fired' =>
              Single(r) /\ run'[r].pc \notin Pre /\ ~Ahead(r, "reschedule")'
         /\ /\ Single(r)
            /\ \/ run'[r].pc = "turn"
               \/ Ahead(r, "fail")' \/ Ahead(r, "complete")' \/ Ahead(r, "advance")'
               \/ run'[r].pc = "ending" /\ run'[r].outcome \in {"success", "empty"}
            => r \in fired'
         /\ fired' \in {fired, fired \cup {r}} /\ passed' = passed
         /\ EndingStep(r) /\ Head(run[r].todo) = "reschedule" => ~Holder(r)'
         /\ ~EndingStep(r) => next' = next
<1> USE DEF Single, Scheduled
<1>1. Shape /\ AgendaInv /\ RowShape
  BY DEF Basis, DataShape
<1>2. r \in fired => run[r].pc \notin Pre /\ ~Ahead(r, "reschedule") /\ Single(r)
  BY DEF ShotInv, FiredHold
<1>3. /\ Single(r)
      /\ \/ run[r].pc = "turn"
         \/ Ahead(r, "fail") \/ Ahead(r, "complete") \/ Ahead(r, "advance")
         \/ run[r].pc = "ending" /\ run[r].outcome \in {"success", "empty"}
      => r \in fired
  BY DEF ShotInv, TurnsFired
<1>4. run[r].pc # "ending" => \A s : ~Ahead(r, s)
  BY <1>1 DEF AgendaInv, Agenda, Ahead
<1>5. CASE \/ Drain(r) \/ Publish(r) \/ OpenLog(r) \/ Panic(r) \/ Unregister(r)
  <2>1. /\ run'[r].job = run[r].job /\ run'[r].immediate = run[r].immediate
        /\ run'[r].todo = run[r].todo
        /\ \A s : Ahead(r, s)' <=> Ahead(r, s)
    BY <1>1, <1>5, Moves DEF Ahead
  <2>2. next' = next /\ passed' = passed
    BY <1>5 DEF Drain, Publish, OpenLog, Panic, Unregister, rows
  <2>3. ~EndingStep(r)
    BY <1>5 DEF Drain, Publish, OpenLog, Panic, Unregister, EndingStep
  <2>4. CASE Drain(r) \/ Publish(r)
    <3>1. run[r].pc \in Pre /\ run'[r].pc \in Pre
      BY <1>1, <2>4, Moves DEF Pre
    <3>2. fired' = fired
      BY <2>4 DEF Drain, Publish, history
    <3>3. r \notin fired /\ run[r].pc # "none" /\ run'[r].pc # "none"
          /\ run'[r].pc # "turn" /\ run'[r].pc # "ending" /\ run[r].pc # "ending"
      BY <1>2, <3>1 DEF Pre
    <3> QED BY <1>4, <2>1, <2>2, <2>3, <3>1, <3>2, <3>3 DEF Holder
  <2>5. CASE OpenLog(r)
    <3>1. run[r].pc = "opening" /\ run'[r].pc = "turn"
      BY <1>1, <2>5, Moves
    <3>2. fired' = IF Scheduled(r) /\ run[r].job \in OneShot THEN fired \cup {r}
                   ELSE fired
      BY <2>5 DEF OpenLog
    <3> QED BY <1>2, <1>4, <2>1, <2>2, <2>3, <3>1, <3>2 DEF Holder, Pre
  <2>6. CASE Panic(r) \/ Unregister(r)
    <3>1. /\ run[r].pc \in {"turn", "unregister"}
          /\ run'[r].pc \in {"unregister", "release"}
      BY <1>1, <2>6, Moves
    <3>2. fired' = fired
      BY <2>6 DEF Panic, Unregister, history
    <3> QED BY <1>2, <1>4, <2>1, <2>2, <2>3, <3>1, <3>2 DEF Holder, Pre
  <2> QED BY <1>5, <2>4, <2>5, <2>6
<1>6. CASE FailToStart(r)
  <2>1. /\ run'[r].job = run[r].job /\ run'[r].immediate = run[r].immediate
        /\ run'[r].pc = "ending" /\ run'[r].outcome = "error"
        /\ ~Ahead(r, "fail")' /\ ~Ahead(r, "advance")' /\ ~Ahead(r, "complete")'
    BY <1>1, <1>6, FailToStartEnds DEF Ended
  <2>2. /\ run[r].pc = "opening" /\ ~EndingStep(r) /\ fired' = fired
        /\ next' = next /\ passed' = passed
    BY <1>6 DEF FailToStart, EndingStep, rows, history
  <2>3. r \notin fired /\ (Single(r) => Holder(r))
    BY <1>2, <2>2 DEF Pre, Holder
  <2> QED BY <2>1, <2>2, <2>3 DEF Holder
<1>7. CASE EndTurn(r)
  <2>1. /\ run'[r].job = run[r].job /\ run'[r].immediate = run[r].immediate
        /\ run'[r].pc = "ending"
        /\ run[r].job \in OneShot => ~Ahead(r, "reschedule")'
    BY <1>1, <1>7, EndTurnEnds DEF Ended
  <2>2. /\ run[r].pc = "turn" /\ ~EndingStep(r) /\ fired' = fired
        /\ next' = next /\ passed' = passed
    BY <1>7 DEF EndTurn, EndingStep, rows, history
  <2>3. Single(r) <=> r \in fired
    BY <1>2, <1>3, <2>2
  <2> QED BY <2>1, <2>2, <2>3 DEF Holder, Pre
<1>8. CASE EndingStep(r)
  <2>1. /\ run[r].pc = "ending" /\ run'[r].pc \in {"ending", "unregister"}
        /\ run'[r].job = run[r].job /\ run'[r].immediate = run[r].immediate
        /\ run'[r].outcome = run[r].outcome
        /\ Ahead(r, Head(run[r].todo))
        /\ \A s : Ahead(r, s)' => Ahead(r, s)
        /\ Head(run[r].todo) = "reschedule" => ~Ahead(r, "reschedule")'
    BY <1>1, <1>8, EndingDone
  <2>2. passed' = passed /\ fired' = fired
    BY <1>8 DEF EndingStep, history
  <2>3. Head(run[r].todo) = "reschedule" => r \notin fired
    BY <1>2, <2>1
  <2> QED BY <1>2, <1>3, <1>8, <2>1, <2>2, <2>3 DEF Holder, Pre
<1>9. CASE Release(r)
  <2>1. /\ run'[r].job = run[r].job /\ run'[r].immediate = run[r].immediate
        /\ run[r].pc = "release" /\ run'[r].pc = "over" /\ run'[r].todo = <<>>
    BY <1>1, <1>9, ReleaseIs
  <2>2. \A s : ~Ahead(r, s)'
    BY <2>1 DEF Ahead
  <2>3. /\ passed' = passed /\ fired' = fired /\ next' = next
        /\ ~EndingStep(r)
    BY <1>9 DEF Release, EndingStep, rows
  <2> QED BY <1>2, <2>1, <2>2, <2>3 DEF Holder, Pre
<1> QED BY <1>5, <1>6, <1>7, <1>8, <1>9 DEF RunStep

(* What steps that leave the runs alone do to the next runs.               *)
LEMMA ElsewhereNext ==
  ASSUME RowShape, Shape, Elsewhere
  PROVE  /\ fired' = fired /\ passed \subseteq passed'
         /\ \A j \in Job :
              \/ next'[j] = next[j]
              \/ next'[j] = "null"
              \/ next'[j] = "future" /\ j \notin passed
              \/ /\ next[j] = "future" /\ next'[j] = "due"
                 /\ j \in OneShot => j \in passed'
              \/ /\ next[j] = "due" /\ next'[j] = "late"
<1> USE DEF RowShape
<1>1. CASE /\ next' = next /\ fired' = fired /\ passed' = passed
  BY <1>1
<1>2. CASE Delete
  <2>1. call.job \in Job
    BY <1>2 DEF Delete, Shape, CallShape
  <2> QED BY <1>2, <2>1 DEF Delete
<1>3. ASSUME NEW k \in Job, ComeDue(k)
      PROVE  /\ fired' = fired /\ passed' = passed \cup ({k} \cap OneShot)
             /\ next[k] = "future" /\ next' = [next EXCEPT ![k] = "due"]
  BY <1>3 DEF ComeDue, history
<1>4. ASSUME NEW k \in Job, GrowLate(k)
      PROVE  /\ fired' = fired /\ passed' = passed
             /\ next[k] = "due" /\ next' = [next EXCEPT ![k] = "late"]
  BY <1>4 DEF GrowLate, history
<1>5. ASSUME NEW k \in Job, Resume(k)
      PROVE  /\ fired' = fired /\ passed' = passed
             /\ next' = [next EXCEPT ![k] = IF k \in passed THEN "null" ELSE "future"]
  BY <1>5 DEF Resume
<1>6. CASE \/ RecoverOrphanedRuns \/ ClearAllRunning \/ Reap \/ ListDue
           \/ CountRunning \/ EndPass \/ Cancel \/ Hold
           \/ \E j \in Job : \/ LoseClaim(j) \/ Pause(j) \/ Rename(j)
                             \/ \E then \in {"idle", "delete"} : Ask(j, then)
  BY <1>1, <1>6 DEF RecoverOrphanedRuns, ClearAllRunning, Reap, ListDue,
     CountRunning, EndPass, Cancel, Hold, LoseClaim, Pause, Rename, Ask, rows,
     history
<1> QED BY <1>2, <1>3, <1>4, <1>5, <1>6 DEF Elsewhere

LEMMA ShotInvStep == Basis /\ ShotInv /\ [Next]_vars => ShotInv'
<1> SUFFICES ASSUME Basis, ShotInv, [Next]_vars PROVE ShotInv'
  OBVIOUS
<1>0. Shape /\ AgendaInv /\ RowShape /\ fired \subseteq Run /\ OneShot \subseteq Job
  BY CronAssumption DEF Basis, DataShape, HistoryShape
<1>a. \A q \in Run : Single(q) => run[q].job \in Job
  BY <1>0 DEF Single
(* A run that is left alone keeps what it holds.                           *)
<1>b. ASSUME NEW q \in Run, run'[q] = run[q], q \in fired' <=> q \in fired
      PROVE  /\ Single(q)' <=> Single(q)
             /\ Holder(q)' <=> Holder(q)
             /\ \A s : Ahead(q, s)' <=> Ahead(q, s)
  BY <1>b DEF Single, Holder, Scheduled, Ahead
<1>1. ASSUME NEW r \in Run, RunStep(r) PROVE ShotInv'
  <2>1. /\ Single(r)' <=> Single(r)
        /\ Holder(r)' => Holder(r)
        /\ r \in fired' =>
             Single(r) /\ run'[r].pc \notin Pre /\ ~Ahead(r, "reschedule")'
        /\ /\ Single(r)
           /\ \/ run'[r].pc = "turn"
              \/ Ahead(r, "fail")' \/ Ahead(r, "complete")' \/ Ahead(r, "advance")'
              \/ run'[r].pc = "ending" /\ run'[r].outcome \in {"success", "empty"}
           => r \in fired'
        /\ fired' \in {fired, fired \cup {r}} /\ passed' = passed
        /\ EndingStep(r) /\ Head(run[r].todo) = "reschedule" => ~Holder(r)'
        /\ ~EndingStep(r) => next' = next
    BY <1>1, ShotRunStep
  <2>2. /\ run'[r].job = run[r].job
        /\ \A q \in Run \ {r} : run'[q] = run[q] /\ (q \in fired' <=> q \in fired)
    BY <1>0, <1>1, <2>1, RunStepTouches
  <2>3. \A q \in Run : /\ run'[q].job = run[q].job
                       /\ Single(q)' <=> Single(q)
                       /\ Holder(q)' => Holder(q)
    BY <1>b, <2>1, <2>2
  <2>4. FiredHold'
    <3>1. ASSUME NEW q \in fired'
          PROVE  /\ Single(q)' /\ run'[q].pc \notin Pre
                 /\ ~Ahead(q, "reschedule")'
      <4>1. q \in Run
        BY <1>0, <2>1
      <4>2. CASE q # r
        <5>1. q \in fired /\ run'[q] = run[q]
          BY <2>2, <4>1, <4>2
        <5> QED BY <1>b, <4>1, <5>1 DEF ShotInv, FiredHold
      <4> QED BY <2>1, <3>1, <4>2
    <3> QED BY <3>1 DEF FiredHold
  <2>5. TurnsFired'
    <3>1. ASSUME NEW q \in Run, Single(q)',
                 \/ run'[q].pc = "turn"
                 \/ Ahead(q, "fail")' \/ Ahead(q, "complete")' \/ Ahead(q, "advance")'
                 \/ run'[q].pc = "ending" /\ run'[q].outcome \in {"success", "empty"}
          PROVE  q \in fired'
      <4>1. CASE q # r
        <5>1. run'[q] = run[q] /\ (q \in fired' <=> q \in fired)
          BY <2>2, <4>1
        <5> QED BY <1>b, <3>1, <5>1 DEF ShotInv, TurnsFired
      <4> QED BY <2>1, <3>1, <4>1
    <3> QED BY <3>1 DEF TurnsFired
  <2>6. \A j \in OneShot : next'[j] \in {"due", "late"} => next'[j] = next[j]
    <3>1. CASE EndingStep(r)
      <4>1. /\ \A k \in Job \ {run[r].job} : next'[k] = next[k]
            /\ next'[run[r].job] \in {next[run[r].job], "null", "future"}
        BY <1>0, <3>1, EndingRow
      <4> QED BY <1>0, <4>1
    <3> QED BY <2>1, <3>1
  <2>7. TimeHasCome'
    BY <2>1, <2>3, <2>6 DEF ShotInv, TimeHasCome
  <2>8. HeldOnce'
    <3>1. \A q, p \in Run :
            Holder(q)' /\ Holder(p)' /\ run'[q].job = run'[p].job => q = p
      BY <2>3 DEF ShotInv, HeldOnce
    <3>2. ASSUME NEW q \in Run, Holder(q)' PROVE next'[run'[q].job] = "null"
      <4>1. Holder(q) /\ run'[q].job = run[q].job /\ next[run[q].job] = "null"
        BY <2>3, <3>2 DEF ShotInv, HeldOnce
      <4>2. CASE ~EndingStep(r)
        BY <2>1, <4>1, <4>2
      <4>3. CASE EndingStep(r)
        <5> DEFINE j == run[r].job
                   step == Head(run[r].todo)
        <5>1. /\ j \in Job
              /\ \A k \in Job \ {j} : next'[k] = next[k]
              /\ step \notin {"advance", "reschedule", "fail", "complete"} =>
                   UNCHANGED <<status, next, failures>>
              /\ step \in {"advance", "fail"} /\ j \in OneShot =>
                   next'[j] \in {next[j], "null"}
              /\ step = "complete" => next'[j] \in {next[j], "null"}
          BY <1>0, <4>3, EndingRow
        <5>2. run[q].job \in OneShot /\ run[q].job \in Job
          BY <1>0, <4>1 DEF Holder, Single
        <5>3. CASE run[q].job # j
          BY <4>1, <5>1, <5>2, <5>3
        <5>4. CASE run[q].job = j /\ step = "reschedule"
          <6>1. /\ Ahead(r, "reschedule") /\ run[r].pc = "ending"
                /\ \A s \in {"fail", "reschedule"} : step = s => ~Ahead(r, s)'
            BY <1>0, <4>3, <5>4, EndingDone
          <6>2. Scheduled(r)
            BY <1>0, <6>1 DEF AgendaInv, Agenda, Ahead
          <6>3. Holder(r)
            BY <5>2, <5>4, <6>1, <6>2 DEF Holder, Single
          <6>4. q = r
            BY <4>1, <5>4, <6>3 DEF ShotInv, HeldOnce
          <6> QED BY <2>1, <3>2, <4>3, <5>4, <6>4
        <5>5. CASE run[q].job = j /\ step # "reschedule"
          <6>1. next'[j] \in {next[j], "null"}
            BY <5>1, <5>2, <5>5
          <6> QED BY <4>1, <5>5, <6>1
        <5> QED BY <5>3, <5>4, <5>5
      <4> QED BY <4>2, <4>3
    <3> QED BY <3>1, <3>2 DEF HeldOnce
  <2> QED BY <2>4, <2>5, <2>7, <2>8 DEF ShotInv
<1>2. ASSUME NEW j \in Job, ClaimScheduled(j) \/ ClaimNow(j) PROVE ShotInv'
  <2>1. PICK i \in BOOLEAN : NewRun(j, i) /\ (i <=> ~ClaimScheduled(j))
    BY <1>0, <1>2, ClaimIs
  <2>2. PICK r \in Run : /\ run[r].pc = "none"
                         /\ run'[r].job = j /\ run'[r].immediate = i
                         /\ run'[r].pc = "claimed" /\ run'[r].todo = <<>>
                         /\ \A q \in Run \ {r} : run'[q] = run[q]
    BY <1>0, <2>1, NewRunIs
  <2>3. fired' = fired /\ passed' = passed
    BY <1>0, <1>2, ClaimIs DEF history
  <2>4. r \notin fired /\ \A s : ~Ahead(r, s)'
    BY <2>2 DEF ShotInv, FiredHold, Single, Ahead
  <2>5. \A q \in Run \ {r} : /\ run'[q] = run[q]
                             /\ Single(q)' <=> Single(q)
                             /\ Holder(q)' <=> Holder(q)
                             /\ \A s : Ahead(q, s)' <=> Ahead(q, s)
    BY <1>b, <2>2, <2>3
  <2>6. Single(r)' => j \in OneShot /\ ClaimScheduled(j)
    BY <2>1, <2>2 DEF Single, Scheduled
  <2>7. /\ ClaimScheduled(j) => /\ next[j] \in {"due", "late"}
                                /\ next' = [next EXCEPT ![j] =
                                     IF j \in OneShot THEN "null" ELSE "future"]
        /\ ~ClaimScheduled(j) => next' = next
    BY <1>2 DEF ClaimScheduled, ClaimNow, Due, rows
  <2>8. FiredHold'
    <3>1. \A q \in fired' : q \in Run \ {r} /\ q \in fired
      BY <1>0, <2>3, <2>4
    <3> QED BY <2>5, <3>1 DEF ShotInv, FiredHold
  <2>9. TurnsFired'
    BY <2>2, <2>3, <2>4, <2>5 DEF ShotInv, TurnsFired
  <2>10. TimeHasCome'
    <3>1. \A k \in OneShot : next'[k] \in {"due", "late"} => next[k] \in {"due", "late"}
      BY <1>0, <2>7 DEF RowShape
    <3>2. Single(r)' => j \in passed
      BY <2>6, <2>7 DEF ShotInv, TimeHasCome
    <3> QED BY <2>2, <2>3, <2>5, <3>1, <3>2 DEF ShotInv, TimeHasCome
  <2>11. HeldOnce'
    <3>1. ClaimScheduled(j) => \A q \in Run : Holder(q) => run[q].job # j
      BY <2>7 DEF ShotInv, HeldOnce
    <3>2. Holder(r)' => j \in OneShot /\ ClaimScheduled(j)
      BY <2>6 DEF Holder
    <3>3. \A q \in Run \ {r} : Holder(q) => next'[run[q].job] = "null"
      <4>1. ASSUME NEW q \in Run, Holder(q) PROVE next'[run[q].job] = "null"
        <5>1. next[run[q].job] = "null" /\ run[q].job \in Job
          BY <1>a, <4>1 DEF ShotInv, HeldOnce, Holder
        <5> QED BY <1>0, <2>7, <3>1, <4>1, <5>1 DEF RowShape
      <4> QED BY <4>1
    <3>4. Holder(r)' => next'[j] = "null"
      BY <1>0, <2>7, <3>2 DEF RowShape
    <3>5. \A q \in Run : Holder(q)' => next'[run'[q].job] = "null"
      BY <2>2, <2>5, <3>3, <3>4
    <3>6. ASSUME NEW q \in Run, NEW p \in Run, Holder(q)', Holder(p)',
                 run'[q].job = run'[p].job
          PROVE  q = p
      <4>1. CASE q # r /\ p # r
        BY <2>5, <3>6, <4>1 DEF ShotInv, HeldOnce
      <4>2. CASE q = r /\ p # r
        BY <2>2, <2>5, <3>1, <3>2, <3>6, <4>2
      <4>3. CASE q # r /\ p = r
        BY <2>2, <2>5, <3>1, <3>2, <3>6, <4>3
      <4> QED BY <4>1, <4>2, <4>3
    <3> QED BY <3>5, <3>6 DEF HeldOnce
  <2> QED BY <2>8, <2>9, <2>10, <2>11 DEF ShotInv
<1>3. CASE Crash
  <2>1. fired' = fired /\ passed' = passed /\ next' = next
    BY <1>0, <1>3, CrashIs DEF rows
  <2>2. ASSUME NEW q \in Run
        PROVE  /\ run'[q].job = run[q].job
               /\ Single(q)' <=> Single(q)
               /\ Holder(q)' => Holder(q)
               /\ \A s : Ahead(q, s)' => Ahead(q, s)
               /\ run'[q].pc \in {"over", run[q].pc}
               /\ run'[q].pc # "over" => run'[q].outcome = run[q].outcome
    <3>1. CASE Alive(q)
      <4>1. /\ run'[q].job = run[q].job /\ run'[q].immediate = run[q].immediate
            /\ run'[q].pc = "over" /\ run'[q].todo = <<>>
        BY <1>0, <1>3, <3>1, CrashIs
      <4>2. run[q].pc # "none" /\ \A s : ~Ahead(q, s)'
        BY <3>1, <4>1 DEF Alive, Ahead
      <4> QED BY <2>1, <4>1, <4>2 DEF Single, Holder, Scheduled, Pre
    <3>2. CASE ~Alive(q)
      <4>1. run'[q] = run[q]
        BY <1>0, <1>3, <3>2, CrashIs
      <4> QED BY <1>b, <2>1, <4>1
    <3> QED BY <3>1, <3>2
  <2>3. FiredHold'
    BY <1>0, <2>1, <2>2 DEF ShotInv, FiredHold, Pre
  <2>4. TurnsFired'
    BY <2>1, <2>2 DEF ShotInv, TurnsFired
  <2>5. TimeHasCome' /\ HeldOnce'
    BY <2>1, <2>2 DEF ShotInv, TimeHasCome, HeldOnce
  <2> QED BY <2>3, <2>4, <2>5 DEF ShotInv
<1>4. CASE Elsewhere
  <2>1. run' = run
    BY <1>4, ElsewhereKeepsRuns
  <2>2. /\ fired' = fired /\ passed \subseteq passed'
        /\ \A j \in Job :
             \/ next'[j] = next[j]
             \/ next'[j] = "null"
             \/ next'[j] = "future" /\ j \notin passed
             \/ /\ next[j] = "future" /\ next'[j] = "due"
                /\ j \in OneShot => j \in passed'
             \/ /\ next[j] = "due" /\ next'[j] = "late"
    BY <1>0, <1>4, ElsewhereNext
  <2>3. \A q \in Run : /\ Single(q)' <=> Single(q)
                       /\ Holder(q)' <=> Holder(q)
                       /\ \A s : Ahead(q, s)' <=> Ahead(q, s)
    BY <1>b, <2>1, <2>2
  <2>4. FiredHold' /\ TurnsFired'
    <3>1. FiredHold'
      BY <1>0, <2>1, <2>2, <2>3 DEF ShotInv, FiredHold
    <3>2. TurnsFired'
      BY <2>1, <2>2, <2>3 DEF ShotInv, TurnsFired
    <3> QED BY <3>1, <3>2
  <2>5. TimeHasCome'
    <3>1. \A j \in OneShot : next'[j] \in {"due", "late"} => j \in passed'
      BY <1>0, <2>2 DEF ShotInv, TimeHasCome
    <3>2. \A q \in Run : Single(q)' => run'[q].job \in passed'
      BY <2>1, <2>2, <2>3 DEF ShotInv, TimeHasCome
    <3> QED BY <3>1, <3>2 DEF TimeHasCome
  <2>6. HeldOnce'
    <3>1. ASSUME NEW q \in Run, Holder(q) PROVE next'[run[q].job] = "null"
      <4>1. /\ next[run[q].job] = "null" /\ run[q].job \in Job
            /\ run[q].job \in OneShot /\ run[q].job \in passed
        BY <1>a, <3>1 DEF ShotInv, HeldOnce, TimeHasCome, Holder, Single
      <4> QED BY <2>2, <4>1
    <3> QED BY <2>1, <2>3, <3>1 DEF ShotInv, HeldOnce
  <2> QED BY <2>4, <2>5, <2>6 DEF ShotInv
<1>5. CASE UNCHANGED vars
  BY <1>5 DEF vars, ShotInv, FiredHold, TurnsFired, TimeHasCome, HeldOnce,
     Single, Holder, Scheduled, Ahead
<1> QED BY <1>1, <1>2, <1>3, <1>4, <1>5, NextSplit

LEMMA ShotInvInit == Init => ShotInv
<1> SUFFICES ASSUME Init PROVE ShotInv
  OBVIOUS
<1>1. /\ fired = {} /\ \A r \in Run : run[r].pc = "none"
      /\ \A j \in Job : next[j] = "future"
  BY DEF Init, NoRun
<1>2. \A r \in Run : ~Single(r) /\ ~Holder(r)
  BY <1>1 DEF Single, Holder
<1>3. FiredHold /\ TurnsFired /\ HeldOnce
  BY <1>1, <1>2 DEF FiredHold, TurnsFired, HeldOnce
<1>4. TimeHasCome
  BY <1>1, <1>2, CronAssumption DEF TimeHasCome
<1> QED BY <1>3, <1>4 DEF ShotInv

(* A one-shot job fires once, for any number of jobs, failures, crashes    *)
(* and resumes: the scheduler starts at most one turn of it (db.rs, the    *)
(* side-effect safety of claim_scheduled_job_for_execution).               *)
THEOREM OneShotFiresOnce == Spec => []OneShotRunsOnce
<1>1. Basis /\ ShotInv => OneShotRunsOnce
  <2> SUFFICES ASSUME Basis, ShotInv PROVE OneShotRunsOnce
    OBVIOUS
  <2>1. \A r \in fired : r \in Run /\ Holder(r)
    BY DEF Basis, DataShape, HistoryShape, ShotInv, FiredHold, Holder
  <2> QED BY <2>1 DEF OneShotRunsOnce, ShotInv, HeldOnce
<1> QED BY BasisInvariant, ShotInvInit, ShotInvStep, <1>1, PTL DEF Spec

-----------------------------------------------------------------------------
(* The logs.  A run holds its job's marker through its turn, until it has  *)
(* advanced the job, and, when it panicked, until its guards have run: of  *)
(* a job that exists the marker names it, and no other run of the job has  *)
(* a clear ahead.                                                          *)
HoldsMarker(r) ==
  \/ InTurn(r) \/ Ahead(r, "advance")
  \/ run[r].pc \in {"unregister", "release"} /\ log[r] = "running"

HoldInv ==
  /\ \A r \in Run :
       HoldsMarker(r) /\ Exists(run[r].job) => running[run[r].job] = r
  /\ \A q, r \in Run :
       HoldsMarker(r) /\ q # r /\ run[q].job = run[r].job => NoClear(q)

(* A log is open only in its run's turn and until the run has finished it. *)
LogInv ==
  \A r \in Run :
    /\ log[r] = "running" => Exists(run[r].job)
    /\ log[r] = "running" /\ sched.pc # "orphans" =>
         run[r].pc \in {"turn", "ending", "unregister", "release"}
    /\ log[r] = "running" /\ run[r].pc = "ending" => Ahead(r, "finish")
    /\ run[r].pc \in Pre \cup {"none"} => log[r] = "none"
    /\ run[r].pc = "turn" => log[r] \in {"none", "running"}

(* A run of a one-shot job that the user has left alone leaves it active   *)
(* until it advances it, and completed from then on.                       *)
Delivers(r) ==
  \/ log[r] \in {"success", "empty"}
  \/ /\ run[r].pc = "ending" /\ run[r].outcome \in {"success", "empty"}
     /\ ~Ahead(r, "advance")

AgreeInv ==
  \A r \in Run : Single(r) =>
    /\ run[r].job \notin touched =>
         /\ InTurn(r) \/ Ahead(r, "advance") => status[run[r].job] = "active"
         /\ Delivers(r) => status[run[r].job] = "completed"
    /\ log[r] \in {"success", "empty"} =>
         r \in fired /\ (run[r].pc = "ending" => run[r].outcome = log[r])

(* What a step of a run does to its log.                                   *)
LEMMA RunStepLog ==
  ASSUME Basis, LogInv, NEW r \in Run, RunStep(r)
  PROVE  /\ \A q \in Run \ {r} : log'[q] = log[q]
         /\ touched' = touched
         /\ EndingStep(r) =>
              IF Head(run[r].todo) = "finish" /\ Exists(run[r].job)
              THEN log'[r] = run[r].outcome ELSE log'[r] = log[r]
         /\ OpenLog(r) => log'[r] \in {"none", "running"}
                            /\ (log'[r] = "running" => Exists(run[r].job))
         /\ Release(r) => log'[r] \in {log[r], "error"}
         /\ ~EndingStep(r) /\ ~OpenLog(r) /\ ~Release(r) => log' = log
<1>1. Shape /\ LogShape /\ RowShape
  BY DEF Basis, DataShape
<1>2. CASE EndingStep(r)
  <2>1. /\ Head(run[r].todo) # "finish" => UNCHANGED log
        /\ Head(run[r].todo) = "finish" => FinishLog(r, run[r].outcome)
        /\ UNCHANGED history
    BY <1>1, <1>2, EndingRow
  <2>2. ~OpenLog(r) /\ ~Release(r)
    BY <1>2 DEF EndingStep, OpenLog, Release
  <2>3. \A q \in Run \ {r} : log'[q] = log[q]
    BY <1>1, <2>1 DEF FinishLog, LogShape
  <2>4. IF Head(run[r].todo) = "finish" /\ Exists(run[r].job)
        THEN log'[r] = run[r].outcome ELSE log'[r] = log[r]
    BY <1>1, <2>1 DEF FinishLog, LogShape
  <2>5. touched' = touched
    BY <2>1 DEF history
  <2> QED BY <1>2, <2>2, <2>3, <2>4, <2>5
<1>3. CASE OpenLog(r)
  <2>1. log[r] = "none" /\ run[r].pc = "opening"
    BY <1>3 DEF OpenLog, LogInv, Pre
  <2>2. /\ log' = [log EXCEPT ![r] = IF Exists(run[r].job) THEN "running" ELSE log[r]]
        /\ touched' = touched
    BY <1>3 DEF OpenLog
  <2>3. ~EndingStep(r) /\ ~Release(r)
    BY <2>1 DEF EndingStep, Release
  <2>4. \A q \in Run \ {r} : log'[q] = log[q]
    BY <1>1, <2>2 DEF LogShape
  <2>5. log'[r] = IF Exists(run[r].job) THEN "running" ELSE "none"
    BY <1>1, <2>1, <2>2 DEF LogShape
  <2>6. log'[r] \in {"none", "running"} /\ (log'[r] = "running" => Exists(run[r].job))
    BY <2>5
  <2> QED BY <1>3, <2>2, <2>3, <2>4, <2>6
<1>4. CASE Release(r)
  <2>1. log' = log \/ FinishLog(r, "error")
    BY <1>4 DEF Release
  <2>2. touched' = touched /\ ~EndingStep(r) /\ ~OpenLog(r)
    BY <1>4 DEF Release, EndingStep, OpenLog
  <2>3. \A q \in Run \ {r} : log'[q] = log[q]
    BY <1>1, <2>1 DEF FinishLog, LogShape
  <2>4. log'[r] \in {log[r], "error"}
    BY <1>1, <2>1 DEF FinishLog, LogShape
  <2> QED BY <1>4, <2>2, <2>3, <2>4
<1>5. CASE ~EndingStep(r) /\ ~OpenLog(r) /\ ~Release(r)
  <2>1. log' = log /\ touched' = touched
    BY <1>5 DEF RunStep, Drain, Publish, FailToStart, EndTurn, Panic,
       Unregister, history
  <2> QED BY <1>5, <2>1
<1> QED BY <1>2, <1>3, <1>4, <1>5

(* Only a deletion removes a job.                                          *)
LEMMA OnlyDeleteRemoves ==
  ASSUME Basis, [Next]_vars, ~Delete
  PROVE  \A j \in Job : Exists(j) => Exists(j)'
<1> USE DEF Exists
<1>1. Shape /\ RowShape /\ status \in [Job -> Status]
  BY DEF Basis, DataShape, Shape, StatusShape
<1>2. CASE status' = status
  BY <1>2
<1>3. ASSUME NEW r \in Run, RunStep(r) PROVE \A j \in Job : Exists(j) => Exists(j)'
  <2>1. CASE EndingStep(r)
    <3>1. /\ \A k \in Job \ {run[r].job} : status'[k] = status[k]
          /\ Exists(run[r].job) => status'[run[r].job] # "deleted"
      BY <1>1, <2>1, EndingRow
    <3> QED BY <3>1
  <2> QED BY <1>2, <1>3, <2>1 DEF RunStep, Drain, Publish, FailToStart,
          OpenLog, EndTurn, Panic, Unregister, Release, rows
<1>4. ASSUME NEW j \in Job, Pause(j) \/ Resume(j) \/ Rename(j)
      PROVE  \A k \in Job : Exists(k) => Exists(k)'
  <2>1. \E s \in Status \ {"deleted"} : status' = [status EXCEPT ![j] = s]
    BY <1>4 DEF Pause, Resume, Rename, Status
  <2> QED BY <1>1, <2>1
<1>5. CASE Reap
  BY <1>1, <1>5 DEF Reap
<1>6. ASSUME NEW j \in Job, ClaimScheduled(j) \/ ClaimNow(j) PROVE status' = status
  BY <1>1, <1>6, ClaimIs
<1>7. CASE Crash
  BY <1>2, <1>7 DEF Crash, rows
<1>8. CASE Elsewhere
  BY <1>2, <1>4, <1>5, <1>8 DEF Elsewhere, RecoverOrphanedRuns, ClearAllRunning,
     ListDue, CountRunning, EndPass, Cancel, Hold, LoseClaim, ComeDue, GrowLate,
     Ask, rows
<1> QED BY <1>2, <1>3, <1>6, <1>7, <1>8, NextSplit DEF vars

(* A step of a run leaves nothing held that was not.                       *)
LEMMA HoldRunStep ==
  ASSUME Basis, LogInv, NEW r \in Run, RunStep(r)
  PROVE  /\ HoldsMarker(r)' => HoldsMarker(r)
         /\ run'[r].pc = "ending" /\ log'[r] = "running" =>
              InTurn(r) \/ (log[r] = "running" /\ run[r].pc = "ending"
                              /\ Head(run[r].todo) # "finish")
<1>1. Shape /\ AgendaInv /\ LogShape
  BY DEF Basis, DataShape
<1>2. CASE Drain(r) \/ Publish(r) \/ OpenLog(r) \/ Panic(r)
  <2>1. run'[r].todo = run[r].todo /\ InTurn(r)
    BY <1>1, <1>2, Moves DEF InTurn
  <2> QED BY <2>1 DEF HoldsMarker, Ahead
<1>3. CASE Unregister(r)
  <2>1. /\ run'[r].todo = run[r].todo /\ run[r].pc = "unregister"
        /\ run'[r].pc = "release" /\ log' = log
    BY <1>1, <1>3, Moves DEF Unregister
  <2> QED BY <2>1 DEF HoldsMarker, Ahead, InTurn
<1>4. CASE FailToStart(r) \/ EndTurn(r)
  <2>1. run'[r].pc = "ending" /\ InTurn(r)
    BY <1>1, <1>4, FailToStartEnds, EndTurnEnds DEF Ended, FailToStart, EndTurn, InTurn
  <2> QED BY <2>1 DEF HoldsMarker
<1>5. CASE EndingStep(r)
  <2>1. /\ run[r].pc = "ending" /\ run'[r].pc \in {"ending", "unregister"}
        /\ ~Ahead(r, "advance")'
        /\ \A s : Ahead(r, s) => Ahead(r, s)' \/ s = Head(run[r].todo)
        /\ run'[r].pc = "unregister" => \A s : ~Ahead(r, s)'
    BY <1>1, <1>5, EndingDone
  <2>2. IF Head(run[r].todo) = "finish" /\ Exists(run[r].job)
        THEN log'[r] = run[r].outcome ELSE log'[r] = log[r]
    BY <1>5, RunStepLog
  <2>3. run[r].outcome \in Outcomes /\ run[r].outcome # "running"
    BY <1>1, <2>1 DEF AgendaInv, Agenda, Outcomes
  <2>4. ASSUME log'[r] = "running"
        PROVE  log[r] = "running" /\ Head(run[r].todo) # "finish" /\ Ahead(r, "finish")
    <3>1. log[r] = "running"
      BY <2>2, <2>3, <2>4
    <3>2. Exists(run[r].job) /\ Ahead(r, "finish")
      BY <2>1, <3>1 DEF LogInv
    <3> QED BY <2>2, <2>3, <2>4, <3>1, <3>2
  <2>5. run'[r].pc = "unregister" => log'[r] # "running"
    BY <2>1, <2>4
  <2>6. ~HoldsMarker(r)'
    BY <2>1, <2>5 DEF HoldsMarker, InTurn
  <2> QED BY <2>1, <2>4, <2>6
<1>6. CASE Release(r)
  <2>1. run'[r].pc = "over" /\ run'[r].todo = <<>>
    BY <1>1, <1>6, ReleaseIs
  <2> QED BY <2>1 DEF HoldsMarker, Ahead, InTurn
<1> QED BY <1>2, <1>3, <1>4, <1>5, <1>6 DEF RunStep

LEMMA HoldInvStep ==
  Basis /\ TurnInv /\ LogInv /\ HoldInv /\ SlowDelivery = {} /\ [Next]_vars
    => HoldInv'
<1> SUFFICES ASSUME Basis, TurnInv, LogInv, HoldInv, SlowDelivery = {}, [Next]_vars
             PROVE  HoldInv'
  OBVIOUS
<1>0. /\ Shape /\ AgendaInv /\ running \in [Job -> Run \cup {None}]
      /\ \A r \in Run : r # None
  BY NoneIsNoRun DEF Basis, Shape, MemoryShape
<1>a. \A j \in Job : Exists(j)' => Exists(j)
  BY <1>0, StatusStep DEF Shape, StatusKept
<1>b. \A r \in Run : HoldsMarker(r) => Alive(r) /\ run[r].job \in Job
  <2>1. \A r \in Run : Ahead(r, "advance") => run[r].pc = "ending"
    BY <1>0 DEF AgendaInv, Agenda, Ahead
  <2> QED BY <1>0, <2>1 DEF HoldsMarker, InTurn, Alive, Shape, RunShape
(* Two runs of a job do not both hold its marker.                          *)
<1>c. ASSUME NEW q \in Run, NEW r \in Run, HoldsMarker(q), HoldsMarker(r),
             run[q].job = run[r].job
      PROVE  q = r
  <2> SUFFICES ASSUME q # r PROVE FALSE
    OBVIOUS
  <2>1. NoClear(q) /\ NoClear(r)
    BY <1>c DEF HoldInv
  <2>2. ~Ahead(q, "advance") /\ ~Ahead(r, "advance")
    BY <1>0, <2>1 DEF AgendaInv, Agenda, Ahead, NoClear
  <2>3. CASE Exists(run[r].job)
    BY <1>c, <2>3 DEF HoldInv
  <2>4. CASE ~Exists(run[r].job)
    <3>1. InTurn(q) /\ InTurn(r)
      BY <1>c, <2>2, <2>4 DEF HoldsMarker, LogInv
    <3> QED BY <1>c, <3>1 DEF TurnInv, OneTurnPerJob
  <2> QED BY <2>3, <2>4
<1>1. ASSUME NEW r \in Run, RunStep(r) PROVE HoldInv'
  <2>1. /\ run'[r].job = run[r].job
        /\ \A q \in Run \ {r} : run'[q] = run[q] /\ log'[q] = log[q]
    BY <1>0, <1>1, RunStepTouches, RunStepLog
  <2>2. \A q \in Run : /\ run'[q].job = run[q].job
                       /\ HoldsMarker(q)' => HoldsMarker(q)
    <3>1. ASSUME NEW q \in Run, q # r PROVE HoldsMarker(q)' => HoldsMarker(q)
      BY <2>1, <3>1 DEF HoldsMarker, Ahead, InTurn
    <3> QED BY <1>1, <2>1, <3>1, HoldRunStep
  <2>3. /\ InTurn(r) \/ (NoClear(r) => NoClear(r)')
        /\ \/ running' = running
           \/ /\ running' = [running EXCEPT ![run[r].job] = None]
              /\ ~NoClear(r) \/ running[run[r].job] = r
    BY <1>0, <1>1, RunStepMarkers
  <2>4. ASSUME NEW q \in Run, NEW p \in Run, HoldsMarker(q)', p # q,
               run'[p].job = run'[q].job
        PROVE  NoClear(p)'
    <3>1. HoldsMarker(q) /\ run[p].job = run[q].job /\ NoClear(p)
      BY <2>2, <2>4 DEF HoldInv
    <3>2. CASE p # r
      <4>1. run'[p] = run[p]
        BY <2>1, <3>2
      <4> QED BY <3>1, <4>1 DEF NoClear
    <3>3. CASE p = r
      <4>1. ~HoldsMarker(r)
        BY <1>c, <2>4, <3>1, <3>3
      <4>2. ~InTurn(r)
        BY <4>1 DEF HoldsMarker
      <4> QED BY <2>3, <3>1, <3>3, <4>2
    <3> QED BY <3>2, <3>3
  <2>5. ASSUME NEW q \in Run, HoldsMarker(q)', status'[run'[q].job] # "deleted"
        PROVE  running'[run'[q].job] = q
    <3>1. /\ HoldsMarker(q) /\ run'[q].job = run[q].job /\ run[q].job \in Job
          /\ Exists(run[q].job) /\ running[run[q].job] = q
      <4>1. HoldsMarker(q) /\ run'[q].job = run[q].job /\ run[q].job \in Job
        BY <1>b, <2>2, <2>5
      <4> QED BY <1>a, <2>5, <4>1 DEF HoldInv, Exists
    <3>2. CASE running' = running
      BY <3>1, <3>2
    <3>3. CASE running' # running
      <4>1. CASE run[q].job # run[r].job
        BY <1>0, <2>3, <3>1, <3>3, <4>1
      <4>2. CASE run[q].job = run[r].job /\ q # r
        <5>1. NoClear(r)
          BY <3>1, <4>2 DEF HoldInv
        <5> QED BY <2>3, <3>1, <3>3, <4>2, <5>1
      <4>3. CASE q = r
        <5>1. ~Release(r)
          <6>1. ~HoldsMarker(r)' \/ ~Release(r)
            <7>1. Release(r) => run'[r].pc = "over" /\ run'[r].todo = <<>>
              BY <1>0, ReleaseIs
            <7> QED BY <7>1 DEF HoldsMarker, InTurn, Ahead
          <6> QED BY <2>5, <4>3, <6>1
        <5>2. EndingStep(r)
          BY <1>1, <3>3, <5>1 DEF RunStep, Drain, Publish, FailToStart, OpenLog,
             EndTurn, Panic, Unregister
        <5>3. /\ run'[r].pc \in {"ending", "unregister"}
              /\ ~Ahead(r, "advance")' /\ ~InTurn(r)
          BY <1>0, <5>2, EndingDone DEF InTurn
        <5>4. run'[r].pc = "unregister" => log'[r] # "running"
          <6>1. /\ \A s : Ahead(r, s) => Ahead(r, s)' \/ s = Head(run[r].todo)
                /\ run'[r].pc = "unregister" => \A s : ~Ahead(r, s)'
                /\ run[r].pc = "ending"
            BY <1>0, <5>2, EndingDone
          <6>2. IF Head(run[r].todo) = "finish" /\ Exists(run[r].job)
                THEN log'[r] = run[r].outcome ELSE log'[r] = log[r]
            BY <5>2, <1>1, RunStepLog
          <6>3. run[r].outcome # "running"
            BY <1>0, <6>1 DEF AgendaInv, Agenda, Outcomes
          <6>4. log[r] = "running" => Ahead(r, "finish")
            BY <6>1 DEF LogInv
          <6> QED BY <3>1, <4>3, <6>1, <6>2, <6>3, <6>4
        <5> QED BY <2>5, <4>3, <5>3, <5>4 DEF HoldsMarker, InTurn
      <4> QED BY <4>1, <4>2, <4>3
    <3> QED BY <3>2, <3>3
  <2> QED BY <2>4, <2>5 DEF HoldInv, Exists
<1>2. ASSUME NEW j \in Job, ClaimScheduled(j) \/ ClaimNow(j) PROVE HoldInv'
  <2>1. /\ running[j] = None /\ Exists(j) /\ Delivered(j)
        /\ status' = status /\ log' = log
    BY <1>0, <1>2, ClaimIs
  <2>2. PICK r \in Run : /\ run'[r].job = j /\ run'[r].pc = "claimed"
                         /\ run'[r].todo = <<>>
                         /\ \A q \in Run \ {r} : run'[q] = run[q]
                         /\ running'[j] = r
                         /\ \A k \in Job \ {j} : running'[k] = running[k]
    BY <1>0, <1>2, ClaimIs, NewRunIs
  <2>3. \A q \in Run \ {r} :
          /\ run'[q].job = run[q].job
          /\ HoldsMarker(q)' => HoldsMarker(q)
          /\ NoClear(q)' <=> NoClear(q)
    BY <2>1, <2>2 DEF HoldsMarker, Ahead, InTurn, NoClear
  <2>4. \A q \in Run : HoldsMarker(q) => run[q].job # j
    BY <1>0, <2>1 DEF HoldInv
  <2>5. NoClear(r)' /\ \A q \in Run : run[q].job = j => NoClear(q)
    BY <2>1, <2>2 DEF Delivered, NoClear
  <2>6. ASSUME NEW q \in Run, HoldsMarker(q)', status'[run'[q].job] # "deleted"
        PROVE  running'[run'[q].job] = q
    <3>1. CASE q = r
      BY <2>2, <3>1
    <3>2. CASE q # r
      <4>1. HoldsMarker(q) /\ run'[q].job = run[q].job /\ run[q].job \in Job \ {j}
        BY <1>b, <2>3, <2>4, <2>6, <3>2
      <4> QED BY <2>1, <2>2, <2>6, <4>1 DEF HoldInv, Exists
    <3> QED BY <3>1, <3>2
  <2>7. ASSUME NEW q \in Run, NEW p \in Run, HoldsMarker(q)', p # q,
               run'[p].job = run'[q].job
        PROVE  NoClear(p)'
    <3>1. CASE p = r
      BY <2>5, <3>1
    <3>2. CASE p # r /\ q = r
      BY <2>2, <2>3, <2>5, <2>7, <3>2
    <3>3. CASE p # r /\ q # r
      BY <2>3, <2>7, <3>3 DEF HoldInv
    <3> QED BY <3>1, <3>2, <3>3
  <2> QED BY <2>6, <2>7 DEF HoldInv, Exists
<1>3. CASE Crash
  <2>1. \A r \in Run : ~HoldsMarker(r)'
    <3>1. ASSUME NEW r \in Run PROVE ~HoldsMarker(r)'
      <4>1. /\ run'[r].pc = IF Alive(r) THEN "over" ELSE run[r].pc
            /\ Alive(r) => run'[r].todo = <<>>
            /\ ~Alive(r) => run'[r] = run[r]
        BY <1>0, <1>3, CrashIs
      <4>2. ~Alive(r) => run[r].todo = <<>>
        BY <1>0 DEF AgendaInv, Agenda, Alive
      <4>3. run'[r].pc \in {"none", "over"} /\ run'[r].todo = <<>>
        BY <4>1, <4>2 DEF Alive
      <4> QED BY <4>3 DEF HoldsMarker, InTurn, Ahead
    <3> QED BY <3>1
  <2> QED BY <2>1 DEF HoldInv
<1>4. CASE Elsewhere
  <2>1. run' = run
    BY <1>4, ElsewhereKeepsRuns
  <2>2. CASE ClearAllRunning
    <3>1. log' = log /\ \A r \in Run : ~Alive(r)
      BY <2>2 DEF ClearAllRunning, TurnInv, StartsAlone
    <3>2. \A r \in Run : ~HoldsMarker(r)'
      BY <1>b, <2>1, <3>1 DEF HoldsMarker, InTurn, Ahead
    <3> QED BY <3>2 DEF HoldInv
  <2>3. ASSUME \A r \in Run : log'[r] = "running" => log[r] = "running",
               running' = running
        PROVE  HoldInv'
    <3>1. \A r \in Run : /\ HoldsMarker(r)' => HoldsMarker(r)
                         /\ NoClear(r)' <=> NoClear(r)
      BY <2>1, <2>3 DEF HoldsMarker, InTurn, Ahead, NoClear
    <3>2. ASSUME NEW q \in Run, HoldsMarker(q)', status'[run'[q].job] # "deleted"
          PROVE  running'[run'[q].job] = q
      <4>1. HoldsMarker(q) /\ run[q].job \in Job /\ Exists(run[q].job)
        BY <1>a, <1>b, <2>1, <3>1, <3>2 DEF Exists
      <4> QED BY <2>1, <2>3, <4>1 DEF HoldInv
    <3> QED BY <2>1, <3>1, <3>2 DEF HoldInv, Exists
  <2>4. CASE Delete
    <3> DEFINE j == call.job
    <3>1. /\ j \in Job /\ status' = [status EXCEPT ![j] = "deleted"]
          /\ running' = [running EXCEPT ![j] = None]
          /\ log' = [r \in Run |-> IF run[r].job = j THEN "none" ELSE log[r]]
      BY <1>0, <2>4 DEF Delete, Shape, CallShape
    <3> HIDE DEF j
    <3>2. \A r \in Run : /\ HoldsMarker(r)' => HoldsMarker(r)
                         /\ NoClear(r)' <=> NoClear(r)
      BY <2>1, <3>1 DEF HoldsMarker, InTurn, Ahead, NoClear
    <3>3. ASSUME NEW q \in Run, HoldsMarker(q)', status'[run'[q].job] # "deleted"
          PROVE  running'[run'[q].job] = q
      <4>1. HoldsMarker(q) /\ run[q].job \in Job /\ Exists(run[q].job)
        BY <1>a, <1>b, <2>1, <3>2, <3>3 DEF Exists
      <4>2. run[q].job # j
        BY <1>0, <2>1, <3>1, <3>3 DEF Shape, StatusShape
      <4>3. running[run[q].job] = q
        BY <4>1 DEF HoldInv
      <4> QED BY <1>0, <2>1, <3>1, <4>1, <4>2, <4>3
    <3>4. \A q, r \in Run :
            HoldsMarker(r)' /\ q # r /\ run'[q].job = run'[r].job => NoClear(q)'
      BY <2>1, <3>2 DEF HoldInv
    <3> QED BY <3>3, <3>4 DEF HoldInv, Exists
  <2>5. CASE RecoverOrphanedRuns
    BY <2>3, <2>5 DEF RecoverOrphanedRuns
  <2>6. CASE \/ Reap \/ ListDue \/ CountRunning \/ EndPass \/ Cancel \/ Hold
             \/ \E j \in Job : \/ LoseClaim(j) \/ ComeDue(j) \/ GrowLate(j)
                               \/ Pause(j) \/ Resume(j) \/ Rename(j)
                               \/ \E then \in {"idle", "delete"} : Ask(j, then)
    <3>1. log' = log /\ running' = running
      BY <2>6 DEF Reap, ListDue, CountRunning, EndPass, Cancel, Hold, LoseClaim,
         ComeDue, GrowLate, Pause, Resume, Rename, Ask
    <3> QED BY <2>3, <3>1
  <2> QED BY <1>4, <2>2, <2>4, <2>5, <2>6 DEF Elsewhere
<1>5. CASE UNCHANGED vars
  BY <1>5 DEF vars, HoldInv, HoldsMarker, InTurn, Ahead, NoClear, Exists
<1> QED BY <1>1, <1>2, <1>3, <1>4, <1>5, NextSplit

(* What is open, and where.                                                *)
LogOf(r) ==
  /\ log[r] = "running" => Exists(run[r].job)
  /\ log[r] = "running" /\ sched.pc # "orphans" =>
       run[r].pc \in {"turn", "ending", "unregister", "release"}
  /\ log[r] = "running" /\ run[r].pc = "ending" => Ahead(r, "finish")
  /\ run[r].pc \in Pre \cup {"none"} => log[r] = "none"
  /\ run[r].pc = "turn" => log[r] \in {"none", "running"}

LEMMA LogInvStep ==
  Basis /\ TurnInv /\ HoldInv /\ LogInv /\ [Next]_vars => LogInv'
<1> SUFFICES ASSUME Basis, TurnInv, HoldInv, LogInv, [Next]_vars PROVE LogInv'
  OBVIOUS
<1>0. Shape /\ AgendaInv /\ LogShape
  BY DEF Basis, DataShape
<1>a. \A r \in Run : LogOf(r)
  BY DEF LogInv, LogOf
<1>b. SUFFICES \A r \in Run : LogOf(r)'
  BY DEF LogInv, LogOf
<1>c. \A r \in Run : log[r] = "running" => run[r].job \in Job
  BY <1>a, NoneIsNoRun DEF LogOf, Basis, DataShape, Numbered, NoRun, Pre
<1>d. ~Delete => \A j \in Job : Exists(j) => Exists(j)'
  BY OnlyDeleteRemoves
(* A run left alone, with its log, while the scheduler stays past its      *)
(* first step.                                                             *)
<1>e. ASSUME NEW q \in Run, run'[q] = run[q], log'[q] = log[q], ~Delete,
             sched'.pc # "orphans" => sched.pc # "orphans"
      PROVE  LogOf(q)'
  <2>1. /\ Ahead(q, "finish")' <=> Ahead(q, "finish")
    BY <1>e DEF Ahead
  <2>2. log[q] = "running" => Exists(run[q].job)'
    BY <1>a, <1>c, <1>d, <1>e DEF LogOf, Exists
  <2> QED BY <1>a, <1>e, <2>1, <2>2 DEF LogOf
<1>1. ASSUME NEW r \in Run, RunStep(r), ~Delete PROVE \A q \in Run : LogOf(q)'
  <2>1. /\ run'[r].job = run[r].job /\ Alive(r) /\ run[r].job \in Job
        /\ \A q \in Run \ {r} : run'[q] = run[q] /\ log'[q] = log[q]
        /\ sched' = sched
    BY <1>0, <1>1, RunStepTouches, RunStepLog, RunStepMarkers DEF Shape, RunShape
  <2>3. ASSUME NEW q \in Run, q # r PROVE LogOf(q)'
    BY <1>1, <1>e, <2>1, <2>3
  <2>a. Exists(run[r].job) => Exists(run[r].job)'
    BY <1>1, <1>d, <2>1 DEF Exists
  <2>4. LogOf(r)'
    <3>1. CASE Drain(r) \/ Publish(r)
      <4>1. run[r].pc \in Pre /\ run'[r].pc \in Pre /\ log' = log
        BY <1>0, <3>1, Moves DEF Drain, Publish, Pre
      <4>2. log'[r] = "none"
        BY <1>a, <4>1 DEF LogOf
      <4> QED BY <4>1, <4>2 DEF LogOf, Pre
    <3>2. CASE OpenLog(r)
      <4>1. /\ run'[r].pc = "turn" /\ log'[r] \in {"none", "running"}
            /\ log'[r] = "running" => Exists(run[r].job)
        BY <1>0, <3>2, Moves, RunStepLog, <1>1
      <4> QED BY <2>a, <4>1 DEF LogOf, Pre
    <3>3. CASE FailToStart(r) \/ EndTurn(r)
      <4>1. run'[r].pc = "ending" /\ Ahead(r, "finish")' /\ log' = log
        BY <1>0, <3>3, FailToStartEnds, EndTurnEnds DEF Ended, FailToStart, EndTurn
      <4> QED BY <1>a, <2>a, <4>1 DEF LogOf, Pre
    <3>4. CASE Panic(r) \/ Unregister(r)
      <4>1. run'[r].pc \in {"unregister", "release"} /\ log' = log
        BY <1>0, <3>4, Moves DEF Panic, Unregister
      <4> QED BY <1>a, <2>a, <4>1 DEF LogOf, Pre
    <3>5. CASE EndingStep(r)
      <4>1. /\ run[r].pc = "ending" /\ run'[r].pc \in {"ending", "unregister"}
            /\ \A s : Ahead(r, s) => Ahead(r, s)' \/ s = Head(run[r].todo)
        BY <1>0, <3>5, EndingDone
      <4>2. IF Head(run[r].todo) = "finish" /\ Exists(run[r].job)
            THEN log'[r] = run[r].outcome ELSE log'[r] = log[r]
        BY <1>1, <3>5, RunStepLog
      <4>3. run[r].outcome # "running"
        BY <1>0, <4>1 DEF AgendaInv, Agenda, Outcomes
      <4>4. log'[r] = "running" => /\ log[r] = "running" /\ Exists(run[r].job)
                                   /\ Ahead(r, "finish")'
        BY <1>a, <4>1, <4>2, <4>3 DEF LogOf
      <4> QED BY <2>a, <4>1, <4>4 DEF LogOf, Pre
    <3>6. CASE Release(r)
      <4>1. /\ run[r].pc = "release" /\ run'[r].pc = "over"
            /\ log'[r] \in {log[r], "error"}
        BY <1>0, <1>1, <3>6, ReleaseIs, RunStepLog
      <4>2. log'[r] # "running"
        <5> SUFFICES ASSUME log[r] = "running" PROVE log'[r] # "running"
          BY <4>1
        <5>1. Exists(run[r].job) /\ HoldsMarker(r)
          BY <1>a, <4>1 DEF LogOf, HoldsMarker
        <5>2. running[run[r].job] = r
          BY <5>1 DEF HoldInv
        <5>3. log' = [log EXCEPT ![r] = "error"]
          BY <3>6, <5>1, <5>2 DEF Release, FinishLog
        <5> QED BY <1>0, <5>3 DEF LogShape
      <4> QED BY <4>1, <4>2 DEF LogOf, Pre
    <3> QED BY <1>1, <3>1, <3>2, <3>3, <3>4, <3>5, <3>6 DEF RunStep
  <2> QED BY <2>3, <2>4
<1>2. ASSUME NEW j \in Job, ClaimScheduled(j) \/ ClaimNow(j)
      PROVE  \A q \in Run : LogOf(q)'
  <2>1. /\ log' = log /\ sched'.pc = sched.pc /\ status' = status
    BY <1>0, <1>2, ClaimIs
  <2>2. PICK r \in Run : /\ run[r].pc = "none" /\ run'[r].job = j
                         /\ run'[r].pc = "claimed"
                         /\ \A q \in Run \ {r} : run'[q] = run[q]
    BY <1>0, <1>2, ClaimIs, NewRunIs
  <2>3. log'[r] = "none"
    BY <1>a, <2>1, <2>2 DEF LogOf
  <2>4. LogOf(r)'
    BY <2>2, <2>3 DEF LogOf, Pre
  <2>5. ASSUME NEW q \in Run, q # r PROVE LogOf(q)'
    <3>1. run'[q] = run[q]
      BY <2>2, <2>5
    <3> QED BY <1>a, <2>1, <3>1 DEF LogOf, Ahead, Exists
  <2> QED BY <2>4, <2>5
<1>3. CASE Crash
  <2>1. sched'.pc = "orphans" /\ log' = log /\ status' = status
    BY <1>0, <1>3, CrashIs DEF rows
  <2>2. ASSUME NEW r \in Run PROVE LogOf(r)'
    <3>1. CASE Alive(r)
      <4>1. run'[r].job = run[r].job /\ run'[r].pc = "over"
        BY <1>0, <1>3, <3>1, CrashIs
      <4> QED BY <1>a, <2>1, <4>1 DEF LogOf, Pre, Exists
    <3>2. CASE ~Alive(r)
      <4>1. run'[r] = run[r]
        BY <1>0, <1>3, <3>2, CrashIs
      <4> QED BY <1>a, <2>1, <4>1 DEF LogOf, Ahead, Exists
    <3> QED BY <3>1, <3>2
  <2> QED BY <2>2
<1>4. CASE Elsewhere
  <2>1. run' = run
    BY <1>4, ElsewhereKeepsRuns
  <2>2. CASE RecoverOrphanedRuns
    <3>1. /\ log' = [r \in Run |-> IF log[r] = "running" THEN "error" ELSE log[r]]
          /\ \A r \in Run : ~Alive(r)
      BY <2>2 DEF RecoverOrphanedRuns, TurnInv, StartsAlone
    <3>2. \A r \in Run : log'[r] # "running" /\ run[r].pc \notin {"turn"}
      BY <3>1 DEF Alive
    <3> QED BY <1>a, <2>1, <3>1, <3>2 DEF LogOf
  <2>3. CASE Delete
    <3> DEFINE j == call.job
    <3>1. /\ j \in Job /\ status' = [status EXCEPT ![j] = "deleted"]
          /\ log' = [r \in Run |-> IF run[r].job = j THEN "none" ELSE log[r]]
          /\ sched' = sched
      BY <1>0, <2>3 DEF Delete, Shape, CallShape
    <3> HIDE DEF j
    <3>2. ASSUME NEW r \in Run PROVE LogOf(r)'
      <4>1. CASE run[r].job = j
        <5>1. log'[r] = "none"
          BY <3>1, <4>1
        <5> QED BY <5>1 DEF LogOf
      <4>2. CASE run[r].job # j
        <5>1. log'[r] = log[r] /\ run'[r] = run[r]
          BY <2>1, <3>1, <4>2
        <5>2. log[r] = "running" => Exists(run[r].job)'
          <6> SUFFICES ASSUME log[r] = "running" PROVE Exists(run[r].job)'
            OBVIOUS
          <6>1. run[r].job \in Job /\ Exists(run[r].job)
            BY <1>a, <1>c DEF LogOf
          <6>2. status'[run[r].job] = status[run[r].job]
            BY <1>0, <3>1, <4>2, <6>1 DEF Shape, StatusShape
          <6> QED BY <5>1, <6>1, <6>2 DEF Exists
        <5>3. Ahead(r, "finish")' <=> Ahead(r, "finish")
          BY <5>1 DEF Ahead
        <5> QED BY <1>a, <3>1, <5>1, <5>2, <5>3 DEF LogOf
      <4> QED BY <4>1, <4>2
    <3> QED BY <3>2
  <2>4. CASE \/ ClearAllRunning \/ Reap \/ ListDue \/ CountRunning \/ EndPass
             \/ Cancel \/ Hold
             \/ \E j \in Job : \/ LoseClaim(j) \/ ComeDue(j) \/ GrowLate(j)
                               \/ Pause(j) \/ Resume(j) \/ Rename(j)
                               \/ \E then \in {"idle", "delete"} : Ask(j, then)
    <3>1. /\ log' = log
          /\ sched.pc # "orphans" \/ sched' = sched
      BY <2>4 DEF ClearAllRunning, Reap, ListDue, CountRunning, EndPass, Cancel,
         Hold, LoseClaim, ComeDue, GrowLate, Pause, Resume, Rename, Ask
    <3>2. CASE Delete
      BY <2>3, <3>2
    <3>3. CASE ~Delete
      BY <1>e, <2>1, <3>1, <3>3
    <3> QED BY <3>2, <3>3
  <2>5. (\A r \in Run : LogOf(r)')
    BY <1>4, <2>2, <2>3, <2>4 DEF Elsewhere
  <2> QED BY <2>5
<1>5. CASE UNCHANGED vars
  BY <1>5, <1>a DEF vars, LogOf, Ahead, Exists
<1>6. Delete => Elsewhere
  BY DEF Elsewhere
<1> QED BY <1>1, <1>2, <1>3, <1>4, <1>5, <1>6, NextSplit

(* What the agreement of a log and its job says of one run.                *)
Agrees(r) ==
  /\ run[r].job \notin touched =>
       /\ InTurn(r) \/ Ahead(r, "advance") => status[run[r].job] = "active"
       /\ Delivers(r) => status[run[r].job] = "completed"
  /\ log[r] \in {"success", "empty"} =>
       r \in fired /\ (run[r].pc = "ending" => run[r].outcome = log[r])

LEMMA AgreeInvStep ==
  Basis /\ ShotInv /\ HoldInv /\ LogInv /\ AgreeInv /\ [Next]_vars => AgreeInv'
<1> SUFFICES ASSUME Basis, ShotInv, HoldInv, LogInv, AgreeInv, [Next]_vars
             PROVE  AgreeInv'
  OBVIOUS
<1>0. Shape /\ AgendaInv /\ RowShape /\ LogShape
  BY DEF Basis, DataShape
<1>a. \A r \in Run : Single(r) => Agrees(r)
  BY DEF AgreeInv, Agrees
<1>b. SUFFICES \A r \in Run : Single(r)' => Agrees(r)'
  BY DEF AgreeInv, Agrees
<1>c. \A r \in Run : Single(r) => run[r].job \in OneShot /\ run[r].job \in Job
  BY CronAssumption DEF Single
(* A run left alone, of a job that either is left alone or was touched.    *)
<1>d. ASSUME NEW q \in Run, run'[q] = run[q], touched \subseteq touched',
             fired \subseteq fired',
             log'[q] \in {log[q], "none", "error"},
             \/ status'[run[q].job] = status[run[q].job]
             \/ run[q].job \in touched' \/ run[q].job \notin OneShot
      PROVE  Single(q)' => Agrees(q)'
  <2> SUFFICES ASSUME Single(q)' PROVE Agrees(q)'
    OBVIOUS
  <2>1. /\ Single(q) /\ (InTurn(q)' <=> InTurn(q))
        /\ \A s : Ahead(q, s)' <=> Ahead(q, s)
    BY <1>d DEF Single, Scheduled, InTurn, Ahead
  <2>2. log'[q] \in {"success", "empty"} => log'[q] = log[q]
    BY <1>d
  <2>3. Delivers(q)' => Delivers(q)
    BY <1>d, <2>1, <2>2 DEF Delivers
  <2> QED BY <1>a, <1>d, <2>1, <2>2, <2>3 DEF Agrees, Single
(* What is active or delivers holds its occurrence.                        *)
<1>e. ASSUME NEW q \in Run, Single(q),
             InTurn(q) \/ Ahead(q, "advance") \/ Delivers(q)
      PROVE  Holder(q)
  <2>1. log[q] \in {"success", "empty"} => q \in fired
    BY <1>a, <1>e DEF Agrees
  <2> QED BY <1>e, <2>1 DEF Holder, InTurn, Pre, Delivers, ShotInv, TurnsFired
<1>1. ASSUME NEW r \in Run, RunStep(r) PROVE \A q \in Run : Single(q)' => Agrees(q)'
  <2>1. /\ run'[r].job = run[r].job /\ touched' = touched
        /\ \A q \in Run \ {r} : run'[q] = run[q] /\ log'[q] = log[q]
    BY <1>0, <1>1, RunStepTouches, RunStepLog
  <2>2. /\ Single(r)' <=> Single(r)
        /\ fired \subseteq fired'
    BY <1>1, ShotRunStep
  <2>3. CASE ~EndingStep(r)
    <3>1. status' = status
      BY <1>1, <2>3 DEF RunStep, Drain, Publish, FailToStart, OpenLog, EndTurn,
         Panic, Unregister, Release, rows
    <3>2. ASSUME NEW q \in Run, q # r PROVE Single(q)' => Agrees(q)'
      BY <1>d, <2>1, <2>2, <3>1, <3>2
    <3>3. ASSUME Single(r) PROVE Agrees(r)'
      <4>1. CASE Drain(r) \/ Publish(r) \/ Panic(r) \/ Unregister(r)
        <5>1. /\ run'[r].job = run[r].job /\ run'[r].todo = run[r].todo
              /\ InTurn(r)' => InTurn(r)
              /\ run'[r].pc # "ending" /\ log' = log
          BY <1>0, <4>1, Moves DEF InTurn, Drain, Publish, Panic, Unregister
        <5>2. /\ \A s : Ahead(r, s)' <=> Ahead(r, s)
              /\ Delivers(r)' => Delivers(r)
          BY <5>1 DEF Ahead, Delivers
        <5> QED BY <1>a, <2>1, <2>2, <3>1, <3>3, <5>1, <5>2 DEF Agrees
      <4>2. CASE OpenLog(r)
        <5>1. /\ run'[r].job = run[r].job /\ run'[r].todo = run[r].todo
              /\ InTurn(r) /\ run'[r].pc = "turn"
              /\ log'[r] \notin {"success", "empty"}
          BY <1>0, <1>1, <4>2, Moves, RunStepLog DEF InTurn
        <5>2. ~Delivers(r)'
          BY <5>1 DEF Delivers
        <5> QED BY <1>a, <2>1, <3>1, <3>3, <5>1, <5>2 DEF Agrees
      <4>3. CASE FailToStart(r)
        <5>1. /\ run'[r].pc = "ending" /\ run'[r].outcome = "error"
              /\ ~Ahead(r, "advance")'
          BY <1>0, <4>3, FailToStartEnds DEF Ended
        <5>2. log' = log /\ log[r] = "none"
          BY <4>3 DEF FailToStart, LogInv, Pre
        <5> QED BY <5>1, <5>2 DEF Agrees, Delivers, InTurn
      <4>4. CASE EndTurn(r)
        <5>1. /\ run'[r].pc = "ending" /\ run'[r].job = run[r].job
              /\ run'[r].outcome \in {"success", "empty"} => Ahead(r, "advance")'
          BY <1>0, <3>3, <4>4, EndTurnEnds DEF Ended, Single
        <5>2. /\ log' = log /\ log[r] \in {"none", "running"} /\ InTurn(r)
          BY <4>4 DEF EndTurn, LogInv, InTurn
        <5> QED BY <1>a, <2>1, <3>1, <3>3, <5>1, <5>2 DEF Agrees, Delivers
      <4>5. CASE Release(r)
        <5>1. run'[r].pc = "over" /\ run'[r].todo = <<>> /\ run'[r].job = run[r].job
          BY <1>0, <4>5, ReleaseIs
        <5>2. log'[r] \in {log[r], "error"}
          BY <1>1, <4>5, RunStepLog
        <5>3. ~InTurn(r)' /\ ~Ahead(r, "advance")' /\ (Delivers(r)' => Delivers(r))
          BY <5>1, <5>2 DEF InTurn, Ahead, Delivers
        <5> QED BY <1>a, <2>1, <2>2, <3>1, <3>3, <5>1, <5>2, <5>3 DEF Agrees
      <4> QED BY <1>1, <2>3, <4>1, <4>2, <4>3, <4>4, <4>5 DEF RunStep
    <3> QED BY <2>2, <3>2, <3>3
  <2>4. CASE EndingStep(r)
    <3> DEFINE j == run[r].job
               step == Head(run[r].todo)
    <3>1. /\ run[r].pc = "ending" /\ run'[r].pc \in {"ending", "unregister"}
          /\ run'[r].outcome = run[r].outcome
          /\ Ahead(r, step) /\ ~Ahead(r, "advance")'
          /\ Ahead(r, "advance") <=> step = "advance"
      BY <1>0, <2>4, EndingDone
    <3>2. /\ j \in Job
          /\ \A k \in Job \ {j} : status'[k] = status[k]
          /\ step \notin {"advance", "reschedule", "fail", "complete"} =>
               status' = status
          /\ step = "reschedule" => status' = status
          /\ step = "advance" =>
               status'[j] = IF status[j] = "active" /\ j \in OneShot
                            THEN "completed" ELSE status[j]
      BY <1>0, <2>4, EndingRow
    <3>3. IF step = "finish" /\ Exists(j) THEN log'[r] = run[r].outcome
          ELSE log'[r] = log[r]
      BY <1>1, <2>4, RunStepLog
    <3>4. fired' = fired
      BY <2>4 DEF EndingStep, history
    <3>5. /\ Ahead(r, "advance") => Scheduled(r) /\ run[r].outcome \in {"success", "empty"}
          /\ Ahead(r, "fail") => Scheduled(r) /\ run[r].outcome = "error"
          /\ Ahead(r, "complete") => Scheduled(r) /\ run[r].outcome = "cancelled"
      BY <1>0 DEF AgendaInv, Agenda, Ahead
    <3> HIDE DEF j, step
    <3>6. ASSUME status' # status, j \in OneShot PROVE Holder(r)
      <4>1. step \in {"advance", "fail", "complete"}
        BY <3>2, <3>6
      <4>2. Single(r)
        BY <3>1, <3>5, <3>6, <4>1 DEF Single, j
      <4>3. r \in fired
        BY <3>1, <4>1, <4>2 DEF ShotInv, TurnsFired
      <4> QED BY <4>2, <4>3 DEF Holder
    <3>7. ASSUME NEW q \in Run, q # r, Single(q)' PROVE Agrees(q)'
      <4>1. run'[q] = run[q] /\ log'[q] = log[q] /\ Single(q)
        BY <2>1, <3>7 DEF Single, Scheduled
      <4>2. CASE status'[run[q].job] = status[run[q].job]
        BY <1>d, <2>1, <2>2, <3>7, <4>1, <4>2
      <4>3. CASE status'[run[q].job] # status[run[q].job]
        <5>1. run[q].job = j /\ j \in OneShot /\ status' # status
          BY <1>c, <3>2, <4>1, <4>3
        <5>2. Holder(r) /\ run[r].job = run[q].job
          BY <3>6, <5>1 DEF j
        <5>3. ~Holder(q)
          BY <3>7, <5>2 DEF ShotInv, HeldOnce
        <5>4. ~InTurn(q) /\ ~Ahead(q, "advance") /\ ~Delivers(q)
          BY <1>e, <4>1, <5>3
        <5>5. ~InTurn(q)' /\ ~Ahead(q, "advance")' /\ ~Delivers(q)'
          BY <4>1, <5>4 DEF InTurn, Ahead, Delivers
        <5> QED BY <1>a, <3>4, <4>1, <5>5 DEF Agrees
      <4> QED BY <4>2, <4>3
    <3>8. ASSUME Single(r) PROVE Agrees(r)'
      <4>1. j \in OneShot /\ run[r].job = j /\ run'[r].job = j
        BY <1>c, <2>1, <3>8 DEF j
      <4>2. ~InTurn(r)' /\ ~Ahead(r, "advance")'
        BY <3>1 DEF InTurn
      <4>3. ASSUME j \notin touched, run[r].outcome \in {"success", "empty"}
            PROVE  status'[j] = "completed"
        <5>1. CASE step = "advance"
          <6>1. status[j] = "active"
            BY <1>a, <3>1, <3>8, <4>1, <4>3, <5>1 DEF Agrees
          <6> QED BY <3>2, <4>1, <5>1, <6>1
        <5>2. CASE step # "advance"
          <6>1. Delivers(r)
            BY <3>1, <4>3, <5>2 DEF Delivers
          <6>2. status[j] = "completed"
            BY <1>a, <3>8, <4>1, <4>3, <6>1 DEF Agrees
          <6>3. step # "fail" /\ step # "complete"
            BY <3>1, <3>5, <4>3
          <6> QED BY <3>2, <5>2, <6>2, <6>3
        <5> QED BY <5>1, <5>2
      <4>4. log'[r] \in {"success", "empty"} =>
              r \in fired /\ run[r].outcome = log'[r]
        <5>1. run[r].outcome \in {"success", "empty"} => r \in fired
          BY <3>1, <3>8 DEF ShotInv, TurnsFired
        <5>2. log[r] \in {"success", "empty"} =>
                r \in fired /\ run[r].outcome = log[r]
          BY <1>a, <3>1, <3>8 DEF Agrees
        <5> QED BY <3>3, <5>1, <5>2
      <4>5. Delivers(r)' => run[r].outcome \in {"success", "empty"}
        BY <3>1, <4>4 DEF Delivers
      <4> QED BY <2>1, <3>1, <3>4, <4>1, <4>2, <4>3, <4>4, <4>5 DEF Agrees
    <3> QED BY <2>2, <3>7, <3>8
  <2> QED BY <2>3, <2>4
<1>2. ASSUME NEW j \in Job, ClaimScheduled(j) \/ ClaimNow(j)
      PROVE  \A q \in Run : Single(q)' => Agrees(q)'
  <2>1. /\ log' = log /\ status' = status /\ touched' = touched /\ fired' = fired
        /\ ClaimScheduled(j) => status[j] = "active"
    BY <1>0, <1>2, ClaimIs DEF history
  <2>2. PICK i \in BOOLEAN : NewRun(j, i) /\ (i <=> ~ClaimScheduled(j))
    BY <1>0, <1>2, ClaimIs
  <2>3. PICK r \in Run : /\ run[r].pc = "none" /\ run'[r].job = j
                         /\ run'[r].pc = "claimed" /\ run'[r].immediate = i
                         /\ \A q \in Run \ {r} : run'[q] = run[q]
    BY <1>0, <2>2, NewRunIs
  <2>4. ASSUME NEW q \in Run, q # r PROVE Single(q)' => Agrees(q)'
    BY <1>d, <2>1, <2>3, <2>4
  <2>5. Single(r)' => Agrees(r)'
    <3> SUFFICES ASSUME Single(r)' PROVE Agrees(r)'
      OBVIOUS
    <3>1. status'[j] = "active"
      BY <2>1, <2>2, <2>3 DEF Single, Scheduled
    <3>2. log'[r] = "none"
      BY <2>1, <2>3 DEF LogInv
    <3>3. ~Delivers(r)'
      BY <2>3, <3>2 DEF Delivers
    <3> QED BY <2>3, <3>1, <3>2, <3>3 DEF Agrees
  <2> QED BY <2>4, <2>5
<1>3. CASE Crash
  <2>1. log' = log /\ status' = status /\ touched' = touched /\ fired' = fired
    BY <1>0, <1>3, CrashIs DEF rows
  <2>2. ASSUME NEW r \in Run PROVE Single(r)' => Agrees(r)'
    <3>1. CASE Alive(r)
      <4>1. /\ run'[r].job = run[r].job /\ run'[r].immediate = run[r].immediate
            /\ run'[r].pc = "over" /\ run'[r].todo = <<>>
        BY <1>0, <1>3, <3>1, CrashIs
      <4>2. Single(r)' => Single(r)
        BY <3>1, <4>1 DEF Single, Scheduled, Alive
      <4>3. ~InTurn(r)' /\ ~Ahead(r, "advance")' /\ (Delivers(r)' => Delivers(r))
        BY <2>1, <4>1 DEF InTurn, Ahead, Delivers
      <4> QED BY <1>a, <2>1, <4>1, <4>2, <4>3 DEF Agrees
    <3>2. CASE ~Alive(r)
      <4>1. run'[r] = run[r]
        BY <1>0, <1>3, <3>2, CrashIs
      <4> QED BY <1>d, <2>1, <4>1
    <3> QED BY <3>1, <3>2
  <2> QED BY <2>2
<1>4. CASE Elsewhere
  <2>1. run' = run
    BY <1>4, ElsewhereKeepsRuns
  <2>2. CASE Reap
    <3>1. /\ status' = [j \in Job |-> IF MarkMissed(j) THEN "missed" ELSE status[j]]
          /\ log' = log /\ touched' = touched /\ fired' = fired
      BY <2>2 DEF Reap, history
    <3>2. ASSUME NEW q \in Run, Single(q)' PROVE Agrees(q)'
      <4>1. Single(q) /\ run[q].job \in Job /\ run'[q] = run[q]
        BY <1>c, <2>1, <3>2 DEF Single, Scheduled
      <4>2. CASE ~MarkMissed(run[q].job)
        <5>1. status'[run[q].job] = status[run[q].job]
          BY <3>1, <4>1, <4>2
        <5> QED BY <1>d, <3>1, <3>2, <4>1, <5>1
      <4>3. CASE MarkMissed(run[q].job)
        <5>1. status[run[q].job] = "active" /\ running[run[q].job] = None
          BY <4>3 DEF MarkMissed
        <5>2. ~HoldsMarker(q)
          BY <5>1, NoneIsNoRun DEF HoldInv, Exists
        <5>3. ~InTurn(q) /\ ~Ahead(q, "advance")
          BY <5>2 DEF HoldsMarker
        <5>4. run[q].job \notin touched => ~Delivers(q)
          BY <1>a, <4>1, <5>1 DEF Agrees
        <5>5. ~InTurn(q)' /\ ~Ahead(q, "advance")' /\ (Delivers(q)' <=> Delivers(q))
          BY <3>1, <4>1, <5>3 DEF InTurn, Ahead, Delivers
        <5> QED BY <1>a, <3>1, <4>1, <5>4, <5>5 DEF Agrees
      <4> QED BY <4>2, <4>3
    <3> QED BY <3>2
  <2>3. ASSUME NEW j \in Job, \/ status' = status
                              \/ \E s \in Status : status' = [status EXCEPT ![j] = s],
               status' = status \/ touched' = touched \cup ({j} \cap OneShot),
               touched \subseteq touched', fired' = fired,
               \A q \in Run : log'[q] \in {log[q], "none", "error"}
        PROVE  \A q \in Run : Single(q)' => Agrees(q)'
    <3>1. ASSUME NEW q \in Run, Single(q)' PROVE Agrees(q)'
      <4>1. run[q].job \in Job /\ run'[q] = run[q]
        BY <1>c, <2>1, <3>1 DEF Single, Scheduled
      <4>2. \/ status'[run[q].job] = status[run[q].job]
            \/ run[q].job \in touched' \/ run[q].job \notin OneShot
        BY <1>0, <2>3, <4>1 DEF Shape, StatusShape
      <4> QED BY <1>d, <2>3, <3>1, <4>1, <4>2
    <3> QED BY <3>1
  <2>4. CASE Delete
    <3>1. /\ call.job \in Job /\ status' = [status EXCEPT ![call.job] = "deleted"]
          /\ touched' = touched \cup ({call.job} \cap OneShot) /\ fired' = fired
          /\ \A q \in Run : log'[q] \in {log[q], "none"}
      BY <1>0, <2>4 DEF Delete, Shape, CallShape
    <3> QED BY <2>3, <3>1 DEF Status
  <2>5. ASSUME NEW j \in Job, Pause(j) \/ Resume(j) \/ Rename(j)
        PROVE  \A q \in Run : Single(q)' => Agrees(q)'
    <3>1. /\ \E s \in Status : status' = [status EXCEPT ![j] = s]
          /\ touched' = touched \cup ({j} \cap OneShot)
          /\ fired' = fired /\ log' = log
      BY <2>5 DEF Pause, Resume, Rename, Status
    <3> QED BY <2>3, <3>1
  <2>6. CASE RecoverOrphanedRuns
    <3>1. /\ status' = status /\ touched' = touched /\ fired' = fired
          /\ \A q \in Run : log'[q] \in {log[q], "error"}
      BY <2>6 DEF RecoverOrphanedRuns, rows, history
    <3>2. \A q \in Run : Single(q)' => Agrees(q)'
      BY <1>d, <2>1, <3>1
    <3> QED BY <3>2
  <2>7. CASE \/ ClearAllRunning \/ ListDue \/ CountRunning \/ EndPass
             \/ Cancel \/ Hold
             \/ \E j \in Job : \/ LoseClaim(j) \/ ComeDue(j) \/ GrowLate(j)
                               \/ \E then \in {"idle", "delete"} : Ask(j, then)
    <3>1. status' = status /\ touched' = touched /\ fired' = fired /\ log' = log
      BY <2>7 DEF ClearAllRunning, ListDue, CountRunning, EndPass, Cancel, Hold,
         LoseClaim, ComeDue, GrowLate, Ask, rows, history
    <3> QED BY <1>d, <2>1, <3>1
  <2> QED BY <1>4, <2>2, <2>4, <2>5, <2>6, <2>7 DEF Elsewhere
<1>5. CASE UNCHANGED vars
  <2>1. run' = run /\ status' = status /\ touched' = touched /\ fired' = fired
        /\ log' = log
    BY <1>5 DEF vars
  <2> QED BY <1>d, <2>1
<1> QED BY <1>1, <1>2, <1>3, <1>4, <1>5, NextSplit

(* What the logs say is true, for any jobs, crashes and deletions, of jobs *)
(* that deliver before they are due again: an untouched one-shot job whose *)
(* log says it delivered is completed, and past the startup's first step   *)
(* an open log is that of a live run (executor.rs, RunningMarkerGuard;     *)
(* db.rs, recover_orphaned_runs and mark_missed_past_at_jobs).             *)
THEOREM LogsAreTrue == ASSUME SlowDelivery = {} PROVE Spec => []LogIsTrue
<1>1. Init => HoldInv /\ LogInv /\ AgreeInv
  <2> SUFFICES ASSUME Init PROVE HoldInv /\ LogInv /\ AgreeInv
    OBVIOUS
  <2>1. \A r \in Run : run[r].pc = "none" /\ run[r].todo = <<>> /\ log[r] = "none"
    BY DEF Init, NoRun
  <2>2. HoldInv
    BY <2>1 DEF HoldInv, HoldsMarker, InTurn, Ahead
  <2>3. LogInv
    BY <2>1 DEF LogInv
  <2>4. AgreeInv
    BY <2>1 DEF AgreeInv, Single
  <2> QED BY <2>2, <2>3, <2>4
<1>2. Shape /\ TurnInv /\ [Next]_vars => TurnInv'
  BY TurnInvStep
<1>3. Basis => Shape
  BY DEF Basis
<1>4. Basis /\ TurnInv /\ LogInv /\ HoldInv /\ [Next]_vars => HoldInv'
  BY HoldInvStep
<1>5. Basis /\ LogInv /\ AgreeInv => LogIsTrue
  <2> SUFFICES ASSUME Basis, LogInv, AgreeInv PROVE LogIsTrue
    OBVIOUS
  <2>1. LogsClose
    <3>1. ASSUME NEW r \in Run, sched.pc # "orphans", log[r] = "running"
          PROVE  Alive(r)
      <4>1. run[r].pc \in {"turn", "ending", "unregister", "release"}
        BY <3>1 DEF LogInv
      <4> QED BY <4>1 DEF Alive
    <3> QED BY <3>1 DEF LogsClose
  <2>2. LogAgreesWithJob
    <3>1. ASSUME NEW r \in Run, log[r] \in {"success", "empty"}, Scheduled(r),
                 run[r].job \in OneShot \ touched
          PROVE  status[run[r].job] = "completed"
      <4>1. run[r].pc # "none"
        BY <3>1 DEF LogInv
      <4>2. Single(r) /\ Delivers(r)
        BY <3>1, <4>1 DEF Single, Delivers
      <4> QED BY <3>1, <4>2 DEF AgreeInv
    <3> QED BY <3>1 DEF LogAgreesWithJob
  <2> QED BY <2>1, <2>2 DEF LogIsTrue
<1> QED BY BasisInvariant, ShotInvInit, ShotInvStep, TurnInvInit, <1>1, <1>2,
           <1>3, <1>4, LogInvStep, AgreeInvStep, <1>5, PTL DEF Spec
=============================================================================

--------------------------- MODULE CompletionsProofs ---------------------------
(***************************************************************************)
(* Theorems about Completions, for any finite set of jobs, any sessions    *)
(* and any number of crashes: no completion is stuck, and the window, the  *)
(* claims and the replay implement Deliveries.                             *)
(***************************************************************************)
EXTENDS Completions, FiniteSetTheorems, TLAPS

(* What the proofs need of the types of the variables.                     *)
PC == {"none", "single", "batch", "claim", "running", "deferred", "marking"}

AttemptRecord ==
  [pc : PC, jobs : SUBSET Job, todo : SUBSET Job, holds : BOOLEAN]

Typed ==
  /\ row \in [Job -> {"none", "active", "left", "terminal", "gone"}]
  /\ injected \subseteq Job /\ alive \subseteq Session
  /\ settling \subseteq Job
  /\ buffer \in [Session -> Seq(Job)]
  /\ timers \in [Session -> Nat]
  /\ dispatching \subseteq Job
  /\ attempt \in [Origin -> AttemptRecord]
  /\ replay \in {"interrupt", "list", "dispatch", "done"}
  /\ listed \subseteq Job /\ relisted \subseteq Job
  /\ abandoned \subseteq Job /\ told \in [Job -> Nat]
  /\ crashes \in 0 .. MaxCrashes

(* What a window holds after a job joined it, and when it is opened.       *)
LEMMA Windows ==
  /\ ToSet(<<>>) = {}
  /\ \A j : ToSet(<<j>>) = {j}
  /\ \A S, j : \A s \in Seq(S) : ToSet(Append(s, j)) = ToSet(s) \cup {j}
  /\ \A S : \A s \in Seq(S) : ToSet(s) \subseteq S
  /\ \A S : \A s \in Seq(S) : s # <<>> => Head(s) \in ToSet(s)
<1>1. ToSet(<<>>) = {} /\ \A j : ToSet(<<j>>) = {j}
  BY DEF ToSet
<1>2. ASSUME NEW S, NEW j, NEW s \in Seq(S)
      PROVE  ToSet(Append(s, j)) = ToSet(s) \cup {j}
  <2>1. /\ DOMAIN Append(s, j) = DOMAIN s \cup {Len(s) + 1}
        /\ \A i \in DOMAIN s : Append(s, j)[i] = s[i]
        /\ Append(s, j)[Len(s) + 1] = j
    OBVIOUS
  <2> QED BY <2>1, Zenon DEF ToSet
<1>3. ASSUME NEW S, NEW s \in Seq(S) PROVE ToSet(s) \subseteq S
  BY DEF ToSet
<1>4. ASSUME NEW S, NEW s \in Seq(S), s # <<>> PROVE Head(s) \in ToSet(s)
  <2>1. 1 \in DOMAIN s /\ Head(s) = s[1]
    BY <1>4
  <2> QED BY <2>1 DEF ToSet
<1> QED BY <1>1, <1>2, <1>3, <1>4

(* The origins are the live dispatches and the replays of the jobs.        *)
LEMMA Origins ==
  /\ \A j \in Job : <<"live", j>> \in Origin /\ <<"replay", j>> \in Origin
  /\ \A a \in Origin : \E j \in Job : a = <<"live", j>> \/ a = <<"replay", j>>
BY DEF Origin

LEMMA TypedInit == Init => Typed
BY CompletionsAssumption DEF Init, Typed, NoAttempt, AttemptRecord, PC

LEMMA TypedStep == Typed /\ [Next]_vars => Typed'
<1> SUFFICES ASSUME Typed, [Next]_vars PROVE Typed'
  OBVIOUS
<1> USE CompletionsAssumption DEF Typed, memVars, replayVars, toldVars
<1>1. NoAttempt \in AttemptRecord
  BY DEF NoAttempt, AttemptRecord, PC
<1>2. ASSUME NEW a \in Origin, NEW pc \in PC, NEW J \in SUBSET Job,
             StartAttempt(a, pc, J)
      PROVE  attempt' \in [Origin -> AttemptRecord]
  BY <1>2 DEF StartAttempt, AttemptRecord
<1>3. ASSUME NEW a \in Origin, NEW rec \in AttemptRecord, Update(a, rec)
      PROVE  attempt' \in [Origin -> AttemptRecord]
  BY <1>3 DEF Update
<1>4. ASSUME NEW a \in Origin PROVE attempt[a] \in AttemptRecord
  OBVIOUS
<1>5. ASSUME NEW j \in Job,
             Spawn(j) \/ Settle(j) \/ JoinWindow(j) \/ OpenWindow(j)
      PROVE  Typed'
  <2>1. CASE Spawn(j) \/ Settle(j)
    BY <2>1 DEF Spawn, Settle
  <2>2. SessionOf[j] \in Session
    OBVIOUS
  <2>3. /\ Append(buffer[SessionOf[j]], j) \in Seq(Job) /\ <<j>> \in Seq(Job)
        /\ timers[SessionOf[j]] + 1 \in Nat
    BY <2>2
  <2>4. CASE JoinWindow(j)
    BY <2>3, <2>4 DEF JoinWindow
  <2>5. CASE OpenWindow(j)
    BY <2>3, <2>5 DEF OpenWindow
  <2> QED BY <1>5, <2>1, <2>4, <2>5
<1>6. ASSUME NEW j \in Job, DispatchAtOnce(j) \/ ReplayDispatch(j)
      PROVE  Typed'
  BY <1>2, <1>6, Origins DEF DispatchAtOnce, ReplayDispatch, PC
<1>7. ASSUME NEW s \in Session, Flush(s) PROVE Typed'
  <2>1. buffer[s] \in Seq(Job) /\ ToSet(buffer[s]) \in SUBSET Job
    BY Windows
  <2>2. /\ buffer' = [buffer EXCEPT ![s] = <<>>]
        /\ timers' = [timers EXCEPT ![s] = @ - 1] /\ timers[s] > 0
    BY <1>7 DEF Flush
  <2>3. buffer' \in [Session -> Seq(Job)] /\ timers' \in [Session -> Nat]
    BY <2>2
  <2>4. attempt' \in [Origin -> AttemptRecord]
    <3>1. CASE ToSet(buffer[s]) = {}
      BY <1>7, <3>1 DEF Flush
    <3>2. CASE ToSet(buffer[s]) # {}
      <4>1. <<"live", Head(buffer[s])>> \in Origin
        BY <2>1, <3>2, Windows, Origins
      <4>2. PICK pc \in {"single", "batch"} :
              StartAttempt(<<"live", Head(buffer[s])>>, pc, ToSet(buffer[s]))
        BY <1>7, <3>2 DEF Flush
      <4> QED BY <1>2, <2>1, <4>1, <4>2 DEF PC
    <3> QED BY <3>1, <3>2
  <2> QED BY <1>7, <2>3, <2>4 DEF Flush
<1>8. ASSUME NEW s \in Session, DeleteSession(s) \/ PurgeSession(s)
      PROVE  Typed'
  <2>1. <<>> \in Seq(Job)
    OBVIOUS
  <2>2. CASE DeleteSession(s)
    BY <2>2 DEF DeleteSession
  <2>3. CASE PurgeSession(s)
    BY <2>1, <2>3 DEF PurgeSession
  <2> QED BY <1>8, <2>2, <2>3
<1>9. ASSUME NEW a \in Origin, Dispatch(a) PROVE Typed'
  <2> DEFINE x == attempt[a]
  <2>1. x \in AttemptRecord
    BY <1>4
  <2>2. ASSUME NEW pc \in PC, NEW J \in SUBSET Job
        PROVE  [x EXCEPT !.pc = pc, !.todo = J] \in AttemptRecord
    BY <2>1 DEF AttemptRecord
  <2>3. CASE SkipGhost(a) \/ CloseUntold(a) \/ Turn(a)
    <3>1. x.jobs \in SUBSET Job
      BY <2>1 DEF AttemptRecord
    <3>2. attempt' \in [Origin -> AttemptRecord]
      <4>1. Update(a, [x EXCEPT !.pc = "marking", !.todo = x.jobs])
        BY <2>3 DEF SkipGhost, CloseUntold, Turn, StartMarking
      <4> QED BY <1>3, <2>2, <3>1, <4>1 DEF PC
    <3>3. CASE Turn(a)
      <4>1. \A j \in Job : told[j] + (IF j \in x.jobs THEN 1 ELSE 0) \in Nat
        OBVIOUS
      <4> QED BY <3>2, <3>3, <4>1 DEF Turn
    <3> QED BY <2>3, <3>2, <3>3 DEF SkipGhost, CloseUntold
  <2>4. CASE ClaimSingle(a)
    <3>1. [x EXCEPT !.pc = "running", !.todo = {}, !.holds = TRUE]
            \in AttemptRecord /\ x.jobs \in SUBSET Job
      BY <2>1 DEF AttemptRecord, PC
    <3> QED BY <1>1, <1>3, <2>4, <3>1 DEF ClaimSingle
  <2>5. CASE PassGate(a)
    <3>1. [x EXCEPT !.pc = "claim"] \in AttemptRecord
      BY <2>1 DEF AttemptRecord, PC
    <3> QED BY <1>3, <2>5, <3>1 DEF PassGate
  <2>6. CASE SortOut(a)
    <3>1. [x EXCEPT !.pc = "running"] \in AttemptRecord /\ x.jobs \in SUBSET Job
      BY <2>1 DEF AttemptRecord, PC
    <3>2. attempt' \in [Origin -> AttemptRecord]
      BY <1>1, <1>2, <1>3, <2>6, <3>1 DEF SortOut, PC
    <3> QED BY <2>6, <3>2 DEF SortOut
  <2>7. ASSUME NEW j \in Job, ClaimBatch(a, j) PROVE Typed'
    <3>1. [x EXCEPT !.todo = x.todo \ {j}, !.holds = TRUE,
                    !.jobs = IF j \in dispatching THEN x.jobs \ {j} ELSE x.jobs]
            \in AttemptRecord
      BY <2>1 DEF AttemptRecord
    <3> QED BY <1>3, <2>7, <3>1 DEF ClaimBatch
  <2>8. ASSUME NEW j \in Job, MarkInjected(a, j) PROVE Typed'
    <3>1. [x EXCEPT !.todo = x.todo \ {j}] \in AttemptRecord
      BY <2>1 DEF AttemptRecord
    <3> QED BY <1>3, <2>8, <3>1 DEF MarkInjected
  <2>9. CASE Defer(a)
    <3>1. [x EXCEPT !.pc = "deferred", !.holds = FALSE] \in AttemptRecord
      BY <2>1 DEF AttemptRecord, PC
    <3> QED BY <1>3, <2>9, <3>1 DEF Defer, ReleaseClaims
  <2>10. CASE Abandon(a) \/ EndAttempt(a)
    <3>1. x.jobs \in SUBSET Job
      BY <2>1 DEF AttemptRecord
    <3> QED BY <1>1, <1>3, <2>10, <3>1 DEF Abandon, EndAttempt, ReleaseClaims
  <2> QED BY <1>9, <2>3, <2>4, <2>5, <2>6, <2>7, <2>8, <2>9, <2>10
          DEF Dispatch
<1>10. CASE Crash
  BY <1>1, <1>10 DEF Crash
<1>11. CASE ReplayInterrupt \/ ReplayList \/ ReplayEnds
  BY <1>11 DEF ReplayInterrupt, ReplayList, ReplayEnds
<1>12. CASE UNCHANGED vars
  BY <1>12 DEF vars
<1> QED BY <1>5, <1>6, <1>7, <1>8, <1>9, <1>10, <1>11, <1>12 DEF Next

-----------------------------------------------------------------------------
(* A dispatch: nothing remains of one that is over, any other but one that *)
(* sorts out its batch has jobs, a single one has one, only a thread that  *)
(* claimed holds, and its jobs are of one session.                         *)
WellFormed(x) ==
  /\ x.pc = "none" => x = NoAttempt
  /\ x.pc \notin {"none", "claim"} => x.jobs # {}
  /\ x.pc = "single" => \E j \in Job : x.jobs = {j}
  /\ x.pc \notin {"claim", "running", "marking"} => ~x.holds
  /\ x.todo \subseteq x.jobs
  /\ \A i, j \in x.jobs : SessionOf[i] = SessionOf[j]

OfOneSession == \A s \in Session : \A j \in ToSet(buffer[s]) : SessionOf[j] = s

DispatchesWellFormed ==
  OfOneSession /\ \A a \in Origin : WellFormed(attempt[a])

LEMMA WellFormedInit == Init => DispatchesWellFormed
BY Windows DEF Init, DispatchesWellFormed, OfOneSession, WellFormed, NoAttempt

(* A step of a dispatch changes that dispatch only; its jobs become fewer, *)
(* and it stays well formed.                                               *)
LEMMA DispatchStep ==
  ASSUME IsFiniteSet(Job), Typed, DispatchesWellFormed,
         NEW a \in Origin, Dispatch(a)
  PROVE  /\ \A b \in Origin \ {a} : attempt'[b] = attempt[b]
         /\ attempt[a].pc # "none"
         /\ attempt'[a].jobs \subseteq attempt[a].jobs
         /\ WellFormed(attempt'[a])
<1> DEFINE x == attempt[a]
           y == attempt'[a]
<1>1. x \in AttemptRecord /\ WellFormed(x)
  BY DEF Typed, DispatchesWellFormed
<1>2. ASSUME NEW rec, Update(a, rec)
      PROVE  y = rec /\ \A b \in Origin \ {a} : attempt'[b] = attempt[b]
  BY <1>2 DEF Update, Typed
<1>3. WellFormed(NoAttempt) /\ NoAttempt.jobs = {}
  BY DEF WellFormed, NoAttempt
<1>4. CASE SkipGhost(a) \/ CloseUntold(a) \/ Turn(a)
  <2> DEFINE z == [x EXCEPT !.pc = "marking", !.todo = x.jobs]
  <2>1. Update(a, z)
    BY <1>4 DEF SkipGhost, CloseUntold, Turn, StartMarking
  <2>2. x.pc \in {"single", "batch", "running", "deferred"}
    BY <1>4 DEF SkipGhost, CloseUntold, Turn, Injecting
  <2>3. z.pc = "marking" /\ z.jobs = x.jobs /\ z.todo = x.jobs
    BY <1>1 DEF AttemptRecord
  <2>4. WellFormed(z)
    BY <1>1, <2>2, <2>3 DEF WellFormed
  <2> HIDE DEF z
  <2> QED BY <1>2, <2>1, <2>2, <2>3, <2>4
<1>5. CASE ClaimSingle(a)
  <2> DEFINE z == [x EXCEPT !.pc = "running", !.todo = {}, !.holds = TRUE]
  <2>1. x.pc = "single" /\ (Update(a, NoAttempt) \/ Update(a, z))
    BY <1>5 DEF ClaimSingle
  <2>2. z.pc = "running" /\ z.jobs = x.jobs /\ z.todo = {}
    BY <1>1 DEF AttemptRecord
  <2>3. WellFormed(z)
    BY <1>1, <2>1, <2>2 DEF WellFormed
  <2> HIDE DEF z
  <2> QED BY <1>2, <1>3, <2>1, <2>2, <2>3
<1>6. CASE PassGate(a)
  <2> DEFINE z == [x EXCEPT !.pc = "claim"]
  <2>1. x.pc = "batch" /\ Update(a, z)
    BY <1>6 DEF PassGate
  <2>2. /\ z.pc = "claim" /\ z.jobs = x.jobs /\ z.todo = x.todo
        /\ z.holds = x.holds
    BY <1>1 DEF AttemptRecord
  <2>3. WellFormed(z)
    BY <1>1, <2>1, <2>2 DEF WellFormed
  <2> HIDE DEF z
  <2> QED BY <1>2, <2>1, <2>2, <2>3
<1>7. CASE SortOut(a)
  <2> DEFINE z == [x EXCEPT !.pc = "running"]
             v == [pc |-> "single", jobs |-> x.jobs, todo |-> x.jobs,
                   holds |-> FALSE]
  <2>1. x.pc = "claim" /\ x.todo = {}
    BY <1>7 DEF SortOut
  <2>2. CASE x.jobs = {}
    <3>1. Cardinality(x.jobs) # 1
      BY <2>2, FS_EmptySet
    <3>2. Update(a, NoAttempt)
      BY <1>7, <2>2, <3>1 DEF SortOut
    <3> QED BY <1>2, <1>3, <2>1, <3>2
  <2>3. CASE x.jobs # {} /\ Cardinality(x.jobs) = 1
    <3>1. Update(a, v)
      BY <1>7, <2>3 DEF SortOut, StartAttempt, Update
    <3>2. IsFiniteSet(x.jobs)
      BY <1>1, FS_Subset DEF AttemptRecord
    <3>3. PICK j : x.jobs = {j}
      BY <2>3, <3>2, FS_Singleton
    <3>4. j \in Job
      BY <1>1, <3>3 DEF AttemptRecord
    <3>5. WellFormed(v)
      BY <1>1, <3>3, <3>4 DEF WellFormed
    <3> QED BY <1>2, <2>1, <3>1, <3>5
  <2>4. CASE x.jobs # {} /\ Cardinality(x.jobs) # 1
    <3>1. Update(a, z)
      BY <1>7, <2>4 DEF SortOut
    <3>2. z.pc = "running" /\ z.jobs = x.jobs /\ z.todo = x.todo
      BY <1>1 DEF AttemptRecord
    <3>3. WellFormed(z)
      BY <1>1, <2>4, <3>2 DEF WellFormed
    <3> HIDE DEF z
    <3> QED BY <1>2, <2>1, <3>1, <3>2, <3>3
  <2> QED BY <2>2, <2>3, <2>4
<1>8. ASSUME NEW j \in Job, ClaimBatch(a, j)
      PROVE  /\ \A b \in Origin \ {a} : attempt'[b] = attempt[b]
             /\ x.pc # "none" /\ y.jobs \subseteq x.jobs /\ WellFormed(y)
  <2> DEFINE z == [x EXCEPT !.todo = x.todo \ {j}, !.holds = TRUE,
                     !.jobs = IF j \in dispatching THEN x.jobs \ {j} ELSE x.jobs]
  <2>1. x.pc = "claim" /\ Update(a, z)
    BY <1>8 DEF ClaimBatch
  <2>2. /\ z.pc = "claim" /\ z.jobs \subseteq x.jobs /\ z.todo = x.todo \ {j}
        /\ z.jobs = x.jobs \/ z.jobs = x.jobs \ {j}
    BY <1>1, <2>1 DEF AttemptRecord
  <2>3. WellFormed(z)
    BY <1>1, <2>1, <2>2 DEF WellFormed
  <2> HIDE DEF z
  <2> QED BY <1>2, <2>1, <2>2, <2>3
<1>9. ASSUME NEW j \in Job, MarkInjected(a, j)
      PROVE  /\ \A b \in Origin \ {a} : attempt'[b] = attempt[b]
             /\ x.pc # "none" /\ y.jobs \subseteq x.jobs /\ WellFormed(y)
  <2> DEFINE z == [x EXCEPT !.todo = x.todo \ {j}]
  <2>1. x.pc = "marking" /\ Update(a, z)
    BY <1>9 DEF MarkInjected
  <2>2. z.pc = "marking" /\ z.jobs = x.jobs /\ z.todo \subseteq x.todo
    BY <1>1, <2>1 DEF AttemptRecord
  <2>3. WellFormed(z)
    BY <1>1, <2>1, <2>2 DEF WellFormed
  <2> HIDE DEF z
  <2> QED BY <1>2, <2>1, <2>2, <2>3
<1>10. CASE Defer(a)
  <2> DEFINE z == [x EXCEPT !.pc = "deferred", !.holds = FALSE]
  <2>1. x.pc = "running" /\ Update(a, z)
    BY <1>10 DEF Defer
  <2>2. z.pc = "deferred" /\ z.jobs = x.jobs /\ z.todo = x.todo /\ ~z.holds
    BY <1>1 DEF AttemptRecord
  <2>3. WellFormed(z)
    BY <1>1, <2>1, <2>2 DEF WellFormed
  <2> HIDE DEF z
  <2> QED BY <1>2, <2>1, <2>2, <2>3
<1>11. CASE Abandon(a) \/ EndAttempt(a)
  BY <1>2, <1>3, <1>11 DEF Abandon, EndAttempt, Injecting
<1> QED BY <1>4, <1>5, <1>6, <1>7, <1>8, <1>9, <1>10, <1>11 DEF Dispatch

(* A dispatch begins: it is well formed, and the others are as they were.  *)
LEMMA NewDispatch ==
  ASSUME Typed, DispatchesWellFormed, NEW a \in Origin, NEW pc, NEW J,
         StartAttempt(a, pc, J), pc \in {"single", "batch"}, J # {},
         pc = "single" => \E j \in Job : J = {j},
         \A i, j \in J : SessionOf[i] = SessionOf[j]
  PROVE  /\ \A b \in Origin \ {a} : attempt'[b] = attempt[b]
         /\ attempt'[a].pc = pc /\ attempt'[a].jobs = J
         /\ attempt'[a].todo = J /\ ~attempt'[a].holds
         /\ \A b \in Origin : WellFormed(attempt'[b])
<1> DEFINE z == [pc |-> pc, jobs |-> J, todo |-> J, holds |-> FALSE]
<1>1. WellFormed(z)
  BY DEF WellFormed
<1>2. attempt' = [attempt EXCEPT ![a] = z]
  BY DEF StartAttempt
<1>3. /\ \A b \in Origin \ {a} : attempt'[b] = attempt[b]
      /\ attempt'[a] = z
  BY <1>2 DEF Typed
<1>4. \A b \in Origin : WellFormed(attempt'[b])
  BY <1>1, <1>3 DEF DispatchesWellFormed
<1>5. z.pc = pc /\ z.jobs = J /\ z.todo = J /\ ~z.holds
  OBVIOUS
<1> QED BY <1>3, <1>4, <1>5

LEMMA NewSingle ==
  ASSUME Typed, DispatchesWellFormed, NEW a \in Origin, NEW j \in Job,
         StartAttempt(a, "single", {j})
  PROVE  /\ \A b \in Origin \ {a} : attempt'[b] = attempt[b]
         /\ attempt'[a].pc = "single" /\ attempt'[a].jobs = {j}
         /\ attempt'[a].todo = {j} /\ ~attempt'[a].holds
         /\ \A b \in Origin : WellFormed(attempt'[b])
BY NewDispatch

(* The flush of a window that is not empty begins a dispatch of what the   *)
(* window holds, named by its first job.                                   *)
LEMMA FlushDispatches ==
  ASSUME IsFiniteSet(Job), Typed, DispatchesWellFormed, NEW s \in Session,
         Flush(s), ToSet(buffer[s]) # {}
  PROVE  \E a \in Origin, j \in ToSet(buffer[s]) :
           /\ a = <<"live", j>>
           /\ \A b \in Origin \ {a} : attempt'[b] = attempt[b]
           /\ attempt'[a].pc \in {"single", "batch"}
           /\ attempt'[a].jobs = ToSet(buffer[s])
           /\ attempt'[a].todo = ToSet(buffer[s]) /\ ~attempt'[a].holds
           /\ \A b \in Origin : WellFormed(attempt'[b])
<1> DEFINE J == ToSet(buffer[s])
           j == Head(buffer[s])
           pc == IF Cardinality(J) = 1 THEN "single" ELSE "batch"
<1>1. buffer[s] \in Seq(Job) /\ J \subseteq Job /\ buffer[s] # <<>>
  BY Windows DEF Typed
<1>2. j \in J /\ j \in Job
  BY <1>1, Windows
<1>3. StartAttempt(<<"live", j>>, pc, J)
  BY DEF Flush
<1>4. pc = "single" => \E i \in Job : J = {i}
  BY <1>1, FS_Subset, FS_Singleton
<1>5. \A i, k \in J : SessionOf[i] = SessionOf[k]
  BY DEF DispatchesWellFormed, OfOneSession
<1>6. <<"live", j>> \in Origin
  BY <1>2, Origins
<1>7. pc \in {"single", "batch"}
  OBVIOUS
<1> HIDE DEF J, j, pc
<1>8. /\ \A b \in Origin \ {<<"live", j>>} : attempt'[b] = attempt[b]
      /\ attempt'[<<"live", j>>].pc = pc /\ attempt'[<<"live", j>>].jobs = J
      /\ attempt'[<<"live", j>>].todo = J /\ ~attempt'[<<"live", j>>].holds
      /\ \A b \in Origin : WellFormed(attempt'[b])
  BY <1>2, <1>3, <1>4, <1>5, <1>6, <1>7, NewDispatch
<1>9. J = ToSet(buffer[s])
  BY DEF J
<1> QED BY <1>2, <1>6, <1>7, <1>8, <1>9

(* What a step of a dispatch leaves alone.                                 *)
LEMMA DispatchKeeps ==
  ASSUME NEW a \in Origin, Dispatch(a)
  PROVE  UNCHANGED <<row, alive, settling, buffer, timers, replayVars>>
BY DEF Dispatch, SkipGhost, ClaimSingle, PassGate, SortOut, ClaimBatch,
   MarkInjected, Turn, CloseUntold, Defer, Abandon, EndAttempt, replayVars,
   toldVars

LEMMA WellFormedStep ==
  ASSUME IsFiniteSet(Job), Typed, DispatchesWellFormed, [Next]_vars
  PROVE  DispatchesWellFormed'
<1> USE DEF memVars, replayVars, toldVars
<1>1. ASSUME UNCHANGED attempt
      PROVE  \A a \in Origin : WellFormed(attempt'[a])
  BY <1>1 DEF DispatchesWellFormed
<1>2. ASSUME UNCHANGED buffer PROVE OfOneSession'
  BY <1>2 DEF DispatchesWellFormed, OfOneSession
<1>3. ASSUME NEW a \in Origin, Dispatch(a) PROVE DispatchesWellFormed'
  <2>1. UNCHANGED buffer
    BY <1>3, DispatchKeeps
  <2>2. \A b \in Origin : WellFormed(attempt'[b])
    BY <1>3, DispatchStep DEF DispatchesWellFormed
  <2> QED BY <1>2, <2>1, <2>2 DEF DispatchesWellFormed
<1>4. ASSUME NEW j \in Job, DispatchAtOnce(j) \/ ReplayDispatch(j)
      PROVE  DispatchesWellFormed'
  <2>1. PICK a \in Origin : StartAttempt(a, "single", {j}) /\ UNCHANGED buffer
    BY <1>4, Origins DEF DispatchAtOnce, ReplayDispatch
  <2> QED BY <1>2, <2>1, NewSingle DEF DispatchesWellFormed
<1>5. ASSUME NEW s \in Session, Flush(s) PROVE DispatchesWellFormed'
  <2>1. buffer' = [buffer EXCEPT ![s] = <<>>]
    BY <1>5 DEF Flush
  <2>2. OfOneSession'
    BY <2>1, Windows DEF DispatchesWellFormed, OfOneSession, Typed
  <2>3. CASE ToSet(buffer[s]) = {}
    BY <1>1, <1>5, <2>2, <2>3 DEF Flush, DispatchesWellFormed
  <2>4. CASE ToSet(buffer[s]) # {}
    BY <1>5, <2>2, <2>4, FlushDispatches DEF DispatchesWellFormed
  <2> QED BY <2>3, <2>4
<1>6. ASSUME NEW j \in Job, Spawn(j) \/ Settle(j) PROVE DispatchesWellFormed'
  BY <1>1, <1>2, <1>6 DEF Spawn, Settle, DispatchesWellFormed
<1>7. ASSUME NEW j \in Job, JoinWindow(j) \/ OpenWindow(j)
      PROVE  DispatchesWellFormed'
  <2> DEFINE s == SessionOf[j]
  <2>1. s \in Session /\ buffer[s] \in Seq(Job)
    BY CompletionsAssumption DEF Typed
  <2>2. PICK q : /\ buffer' = [buffer EXCEPT ![s] = q]
                 /\ ToSet(q) \subseteq ToSet(buffer[s]) \cup {j}
    BY <1>7, <2>1, Windows DEF JoinWindow, OpenWindow
  <2>3. OfOneSession'
    BY <2>1, <2>2 DEF DispatchesWellFormed, OfOneSession, Typed
  <2> QED BY <1>1, <1>7, <2>3 DEF JoinWindow, OpenWindow, DispatchesWellFormed
<1>8. ASSUME NEW s \in Session, DeleteSession(s) \/ PurgeSession(s)
      PROVE  DispatchesWellFormed'
  <2>1. UNCHANGED buffer \/ buffer' = [buffer EXCEPT ![s] = <<>>]
    BY <1>8 DEF DeleteSession, PurgeSession
  <2>2. ASSUME buffer' = [buffer EXCEPT ![s] = <<>>] PROVE OfOneSession'
    BY <2>2, Windows DEF DispatchesWellFormed, OfOneSession, Typed
  <2>3. OfOneSession'
    BY <1>2, <2>1, <2>2
  <2> QED BY <1>1, <1>8, <2>3 DEF DeleteSession, PurgeSession,
          DispatchesWellFormed
<1>9. CASE Crash
  <2>1. WellFormed(NoAttempt)
    BY DEF WellFormed, NoAttempt
  <2> QED BY <1>9, <2>1, Windows DEF Crash, DispatchesWellFormed, OfOneSession
<1>10. CASE ReplayInterrupt \/ ReplayList \/ ReplayEnds \/ UNCHANGED vars
  BY <1>1, <1>2, <1>10 DEF ReplayInterrupt, ReplayList, ReplayEnds, vars,
     DispatchesWellFormed
<1> QED BY <1>3, <1>4, <1>5, <1>6, <1>7, <1>8, <1>9, <1>10 DEF Next

-----------------------------------------------------------------------------
(* Where a job is.  A job that is under way, or was when the process died, *)
(* is nowhere; one that ended is in one place of the live path - about to  *)
(* be buffered, in its window or in one dispatch - and in one place of the *)
(* replay, if that listed it.  No dispatch is named by a job that is still *)
(* to be dispatched.                                                       *)
Fresh(j) == row[j] \in {"none", "active", "left"}
InWindow(j) == j \in ToSet(buffer[SessionOf[j]])
Live(j) == attempt[<<"live", j>>]
Replayed(j) == attempt[<<"replay", j>>]

FreshIsNowhere ==
  \A j \in Job : Fresh(j) =>
    /\ j \notin settling /\ ~InWindow(j) /\ j \notin relisted
    /\ \A i \in Job : j \notin Live(i).jobs /\ j \notin Replayed(i).jobs

OneLivePlace ==
  /\ \A j \in Job : j \in settling => ~InWindow(j)
  /\ \A i, j \in Job : j \in settling \/ InWindow(j) => j \notin Live(i).jobs
  /\ \A h, i, j \in Job : j \in Live(h).jobs /\ j \in Live(i).jobs => h = i
  /\ \A j \in Job : Live(j).pc # "none" =>
       ~Fresh(j) /\ j \notin settling /\ ~InWindow(j)

OneReplayPlace ==
  /\ \A j \in Job : Replayed(j).jobs \subseteq {j}
  /\ \A j \in Job : Replayed(j).pc # "none" => j \in relisted \ listed
  /\ listed \subseteq relisted
  /\ replay \in {"interrupt", "list"} => relisted = {}

Places == FreshIsNowhere /\ OneLivePlace /\ OneReplayPlace

LEMMA PlacesInit == Init => Places
<1> SUFFICES ASSUME Init PROVE Places
  OBVIOUS
<1>1. \A j \in Job : /\ Live(j).pc = "none" /\ Live(j).jobs = {}
                     /\ Replayed(j).pc = "none" /\ Replayed(j).jobs = {}
  BY Origins DEF Init, Live, Replayed, NoAttempt
<1>2. \A j \in Job : ~InWindow(j)
  BY Windows, CompletionsAssumption DEF Init, InWindow
<1> QED BY <1>1, <1>2 DEF Init, Places, FreshIsNowhere, OneLivePlace,
        OneReplayPlace, Fresh

LEMMA PlacesStep ==
  ASSUME IsFiniteSet(Job), Typed, DispatchesWellFormed, Places, [Next]_vars
  PROVE  Places'
<1> USE DEF Places, FreshIsNowhere, OneLivePlace, OneReplayPlace, Fresh,
            InWindow, Live, Replayed, memVars, replayVars, toldVars
<1>1. CASE UNCHANGED <<row, settling, buffer, attempt, replay, listed, relisted>>
  BY <1>1
<1>2. ASSUME NEW a \in Origin, Dispatch(a) PROVE Places'
  <2>1. UNCHANGED <<row, settling, buffer, replay, listed, relisted>>
    BY <1>2, DispatchKeeps
  <2>2. /\ \A b \in Origin \ {a} : attempt'[b] = attempt[b]
        /\ attempt[a].pc # "none" /\ attempt'[a].jobs \subseteq attempt[a].jobs
    BY <1>2, DispatchStep
  <2>3. \A b \in Origin : /\ attempt'[b].jobs \subseteq attempt[b].jobs
                          /\ attempt'[b].pc # "none" => attempt[b].pc # "none"
    BY <2>2
  <2>4. \A i \in Job :
          /\ Live(i)'.jobs \subseteq Live(i).jobs
          /\ Live(i)'.pc # "none" => Live(i).pc # "none"
          /\ Replayed(i)'.jobs \subseteq Replayed(i).jobs
          /\ Replayed(i)'.pc # "none" => Replayed(i).pc # "none"
    BY <2>3, Origins
  <2> QED BY <2>1, <2>4
<1>3. ASSUME NEW j \in Job, Spawn(j) PROVE Places'
  BY <1>3 DEF Spawn, Typed
<1>4. ASSUME NEW j \in Job, Settle(j) PROVE Places'
  BY <1>4 DEF Settle, Typed
<1>5. ASSUME NEW j \in Job, JoinWindow(j) \/ OpenWindow(j) PROVE Places'
  <2> DEFINE s == SessionOf[j]
  <2>1. s \in Session /\ buffer[s] \in Seq(Job)
    BY CompletionsAssumption DEF Typed
  <2>2. PICK q : /\ buffer' = [buffer EXCEPT ![s] = q]
                 /\ ToSet(q) = ToSet(buffer[s]) \cup {j}
    <3>1. CASE JoinWindow(j)
      <4>1. ToSet(Append(buffer[s], j)) = ToSet(buffer[s]) \cup {j}
        BY <2>1, Windows
      <4> QED BY <3>1, <4>1 DEF JoinWindow
    <3>2. CASE OpenWindow(j)
      <4>1. ToSet(<<j>>) = ToSet(buffer[s]) \cup {j}
        BY <3>2, Windows DEF OpenWindow
      <4> QED BY <3>2, <4>1 DEF OpenWindow
    <3> QED BY <1>5, <3>1, <3>2
  <2>3. \A i \in Job : InWindow(i)' => InWindow(i) \/ i = j
    BY <2>1, <2>2 DEF Typed
  <2>4. /\ UNCHANGED <<row, attempt, replay, listed, relisted>>
        /\ j \in settling /\ settling' = settling \ {j}
    BY <1>5 DEF JoinWindow, OpenWindow
  <2> QED BY <2>3, <2>4
<1>6. ASSUME NEW j \in Job, DispatchAtOnce(j) PROVE Places'
  <2>1. /\ UNCHANGED <<row, buffer, replay, listed, relisted>>
        /\ j \in settling /\ settling' = settling \ {j}
        /\ StartAttempt(<<"live", j>>, "single", {j})
    BY <1>6 DEF DispatchAtOnce
  <2>2. /\ \A b \in Origin \ {<<"live", j>>} : attempt'[b] = attempt[b]
        /\ attempt'[<<"live", j>>].jobs = {j}
    BY <2>1, NewSingle, Origins
  <2>3. /\ Live(j)'.jobs = {j}
        /\ \A i \in Job \ {j} : Live(i)' = Live(i)
        /\ \A i \in Job : Replayed(i)' = Replayed(i)
    BY <2>2, Origins
  <2>4. ~Fresh(j) /\ ~InWindow(j) /\ \A i \in Job : j \notin Live(i).jobs
    BY <2>1
  <2> QED BY <2>1, <2>3, <2>4
<1>7. ASSUME NEW j \in Job, ReplayDispatch(j) PROVE Places'
  <2>1. /\ UNCHANGED <<row, settling, buffer, replay, relisted>>
        /\ replay = "dispatch" /\ j \in listed /\ listed' = listed \ {j}
        /\ StartAttempt(<<"replay", j>>, "single", {j})
    BY <1>7 DEF ReplayDispatch
  <2>2. /\ \A b \in Origin \ {<<"replay", j>>} : attempt'[b] = attempt[b]
        /\ attempt'[<<"replay", j>>].jobs = {j}
    BY <2>1, NewSingle, Origins
  <2>3. /\ Replayed(j)'.jobs = {j}
        /\ \A i \in Job \ {j} : Replayed(i)' = Replayed(i)
        /\ \A i \in Job : Live(i)' = Live(i)
    BY <2>2, Origins
  <2>4. ~Fresh(j) /\ j \in relisted
    BY <2>1
  <2> QED BY <2>1, <2>3, <2>4
<1>8. ASSUME NEW s \in Session, Flush(s) PROVE Places'
  <2>1. /\ buffer' = [buffer EXCEPT ![s] = <<>>]
        /\ UNCHANGED <<row, settling, replay, listed, relisted>>
    BY <1>8 DEF Flush
  <2>2. \A i \in Job : InWindow(i)' <=> InWindow(i) /\ SessionOf[i] # s
    BY <2>1, Windows, CompletionsAssumption DEF Typed
  <2>3. CASE ToSet(buffer[s]) = {}
    BY <1>8, <2>1, <2>2, <2>3 DEF Flush
  <2>4. CASE ToSet(buffer[s]) # {}
    <3>1. PICK a \in Origin, j \in ToSet(buffer[s]) :
            /\ a = <<"live", j>>
            /\ \A b \in Origin \ {a} : attempt'[b] = attempt[b]
            /\ attempt'[a].jobs = ToSet(buffer[s])
      BY <1>8, <2>4, FlushDispatches
    <3>2. \A i \in ToSet(buffer[s]) : i \in Job /\ SessionOf[i] = s
      BY Windows DEF DispatchesWellFormed, OfOneSession, Typed
    <3>3. \A i \in ToSet(buffer[s]) : InWindow(i) /\ ~InWindow(i)' /\ ~Fresh(i)
      BY <2>2, <3>2
    <3>4. /\ Live(j)'.jobs = ToSet(buffer[s])
          /\ \A i \in Job \ {j} : Live(i)' = Live(i)
          /\ \A i \in Job : Replayed(i)' = Replayed(i)
      BY <3>1, <3>2, Origins
    <3>5. \A h, i \in Job : h \in ToSet(buffer[s]) => h \notin Live(i).jobs
      BY <3>3
    <3> QED BY <2>1, <2>2, <3>2, <3>3, <3>4, <3>5
  <2> QED BY <2>3, <2>4
<1>9. ASSUME NEW s \in Session, PurgeSession(s) PROVE Places'
  <2>1. \A j \in Job : Fresh(j)' => Fresh(j)
    BY <1>9 DEF PurgeSession, Typed
  <2>2. \A j \in Job : InWindow(j)' => InWindow(j)
    BY <1>9, Windows, CompletionsAssumption DEF PurgeSession, Typed
  <2>3. UNCHANGED <<settling, attempt, replay, listed, relisted>>
    BY <1>9 DEF PurgeSession
  <2> QED BY <2>1, <2>2, <2>3
<1>10. CASE Crash
  <2>1. \A i \in Job : /\ Live(i)'.jobs = {} /\ Replayed(i)'.jobs = {}
                       /\ Live(i)'.pc = "none" /\ Replayed(i)'.pc = "none"
    BY <1>10, Origins DEF Crash, NoAttempt
  <2>2. \A i \in Job : ~InWindow(i)'
    BY <1>10, Windows, CompletionsAssumption DEF Crash
  <2>3. settling' = {} /\ relisted' = {} /\ listed' = {}
    BY <1>10 DEF Crash
  <2> HIDE DEF Live, Replayed, InWindow, Fresh
  <2> QED BY <2>1, <2>2, <2>3
<1>11. CASE ReplayInterrupt
  BY <1>11 DEF ReplayInterrupt, Typed
<1>12. CASE ReplayList
  BY <1>12 DEF ReplayList
<1>13. CASE ReplayEnds \/ UNCHANGED vars \/ \E s \in Session : DeleteSession(s)
  BY <1>1, <1>13 DEF ReplayEnds, DeleteSession, vars
<1> QED BY <1>2, <1>3, <1>4, <1>5, <1>6, <1>7, <1>8, <1>9, <1>10, <1>11, <1>12,
        <1>13 DEF Next
-----------------------------------------------------------------------------
(* Claims: a job of the claim set is claimed by one dispatch, and a batch  *)
(* that claimed nothing yet still has all its jobs to do.                  *)
AllToDo(x) == x.pc \in {"batch", "claim"} /\ ~x.holds => x.todo = x.jobs

Claimants ==
  /\ \A a, b \in Origin : a # b => ClaimedBy(a) \cap ClaimedBy(b) = {}
  /\ \A j \in Job : j \in dispatching <=> \E a \in Origin : j \in ClaimedBy(a)
  /\ \A a \in Origin : AllToDo(attempt[a])

(* What a dispatch claims it has among its jobs.                           *)
LEMMA ClaimsAreJobs ==
  ASSUME Typed, NEW a \in Origin
  PROVE  ClaimedBy(a) \subseteq attempt[a].jobs /\ ClaimedBy(a) \subseteq Job
<1>1. attempt[a].jobs \subseteq Job
  BY DEF Typed, AttemptRecord
<1> QED BY <1>1 DEF ClaimedBy

LEMMA ClaimantsInit == Init => Claimants
<1> SUFFICES ASSUME Init PROVE Claimants
  OBVIOUS
<1>1. \A a \in Origin : ClaimedBy(a) = {} /\ attempt[a].pc = "none"
  BY DEF Init, ClaimedBy, NoAttempt
<1>2. dispatching = {}
  BY DEF Init
<1> QED BY <1>1, <1>2 DEF Claimants, AllToDo

(* A step of a dispatch adds to the claim set what it claims, which nobody *)
(* had, and takes away what it gives back.                                 *)
LEMMA ClaimStep ==
  ASSUME IsFiniteSet(Job), Typed, DispatchesWellFormed, Claimants,
         NEW a \in Origin, Dispatch(a)
  PROVE  /\ dispatching' = (dispatching \ ClaimedBy(a)) \cup ClaimedBy(a)'
         /\ (ClaimedBy(a)' \ ClaimedBy(a)) \cap dispatching = {}
         /\ AllToDo(attempt'[a])
<1> DEFINE x == attempt[a]
           y == attempt'[a]
           Goal == /\ dispatching' = (dispatching \ ClaimedBy(a)) \cup ClaimedBy(a)'
                   /\ (ClaimedBy(a)' \ ClaimedBy(a)) \cap dispatching = {}
                   /\ AllToDo(y)
<1>1. x \in AttemptRecord /\ WellFormed(x) /\ AllToDo(x)
  BY DEF Typed, DispatchesWellFormed, Claimants
<1>2. ASSUME NEW rec, Update(a, rec) PROVE y = rec
  BY <1>2 DEF Update, Typed
<1>3. ClaimedBy(a) \subseteq dispatching
  BY ClaimsAreJobs DEF Claimants
<1>0. y \in AttemptRecord
  BY TypedStep DEF Next, Typed
<1>4. /\ ~x.holds => ClaimedBy(a) = {}
      /\ x.holds /\ x.pc = "claim" => ClaimedBy(a) = x.jobs \ x.todo
      /\ x.holds /\ x.pc # "claim" => ClaimedBy(a) = x.jobs
      /\ ~y.holds => ClaimedBy(a)' = {}
      /\ y.holds /\ y.pc = "claim" => ClaimedBy(a)' = y.jobs \ y.todo
      /\ y.holds /\ y.pc # "claim" => ClaimedBy(a)' = y.jobs
  BY DEF ClaimedBy
<1>5. NoAttempt.pc = "none" /\ ~NoAttempt.holds
  BY DEF NoAttempt
<1>6. ASSUME UNCHANGED dispatching, ClaimedBy(a)' = ClaimedBy(a)
      PROVE  /\ dispatching' = (dispatching \ ClaimedBy(a)) \cup ClaimedBy(a)'
             /\ (ClaimedBy(a)' \ ClaimedBy(a)) \cap dispatching = {}
  BY <1>3, <1>6
<1>7. ASSUME ReleaseClaims(a), x.pc # "claim", ~y.holds,
             y.pc \notin {"batch", "claim"}
      PROVE  Goal
  BY <1>1, <1>4, <1>7 DEF ReleaseClaims, AllToDo
<1> HIDE DEF Goal
<1>8. CASE SkipGhost(a) \/ CloseUntold(a) \/ Turn(a)
  <2> DEFINE z == [x EXCEPT !.pc = "marking", !.todo = x.jobs]
  <2>1. Update(a, z) /\ UNCHANGED dispatching
    BY <1>8 DEF SkipGhost, CloseUntold, Turn, StartMarking
  <2>2. x.pc \in {"single", "batch", "running", "deferred"}
    BY <1>8 DEF SkipGhost, CloseUntold, Turn, Injecting
  <2>3. z.pc = "marking" /\ z.jobs = x.jobs /\ z.holds = x.holds
    BY <1>1 DEF AttemptRecord
  <2> HIDE DEF z
  <2>4. y = z
    BY <1>2, <2>1
  <2>5. ClaimedBy(a)' = ClaimedBy(a)
    BY <1>1, <1>4, <2>2, <2>3, <2>4 DEF AttemptRecord
  <2> QED BY <1>6, <2>1, <2>3, <2>4, <2>5 DEF Goal, AllToDo
<1>9. CASE ClaimSingle(a)
  <2> DEFINE z == [x EXCEPT !.pc = "running", !.todo = {}, !.holds = TRUE]
  <2>1. x.pc = "single" /\ ClaimedBy(a) = {}
    BY <1>1, <1>4, <1>9 DEF ClaimSingle, WellFormed
  <2>2. z.pc = "running" /\ z.jobs = x.jobs /\ z.holds
    BY <1>1 DEF AttemptRecord
  <2>3. CASE x.jobs \cap dispatching # {}
    <3>1. Update(a, NoAttempt) /\ UNCHANGED dispatching
      BY <1>9, <2>3 DEF ClaimSingle
    <3>2. y = NoAttempt
      BY <1>2, <3>1
    <3> QED BY <1>4, <1>5, <1>6, <2>1, <3>1, <3>2 DEF Goal, AllToDo
  <2>4. CASE x.jobs \cap dispatching = {}
    <3>1. Update(a, z) /\ dispatching' = dispatching \cup x.jobs
      BY <1>9, <2>4 DEF ClaimSingle
    <3> HIDE DEF z
    <3>2. y = z
      BY <1>2, <3>1
    <3>3. ClaimedBy(a)' = x.jobs /\ AllToDo(y)
      BY <1>4, <2>2, <3>2 DEF AllToDo
    <3>4. dispatching' = (dispatching \ {}) \cup x.jobs
      BY <3>1
    <3> QED BY <2>1, <2>4, <3>3, <3>4 DEF Goal
  <2> QED BY <2>3, <2>4
<1>10. CASE PassGate(a)
  <2> DEFINE z == [x EXCEPT !.pc = "claim"]
  <2>1. x.pc = "batch" /\ Update(a, z) /\ UNCHANGED dispatching
    BY <1>10 DEF PassGate
  <2>2. /\ z.pc = "claim" /\ z.jobs = x.jobs /\ z.todo = x.todo
        /\ z.holds = x.holds /\ ~x.holds /\ x.todo = x.jobs
    BY <1>1, <2>1 DEF AttemptRecord, WellFormed, AllToDo
  <2> HIDE DEF z
  <2> QED BY <1>2, <1>4, <1>6, <2>1, <2>2 DEF Goal, AllToDo
<1>11. CASE SortOut(a)
  <2> DEFINE z == [x EXCEPT !.pc = "running"]
             v == [pc |-> "single", jobs |-> x.jobs, todo |-> x.jobs,
                   holds |-> FALSE]
  <2>1. x.pc = "claim" /\ x.todo = {}
    BY <1>11 DEF SortOut
  <2>2. ClaimedBy(a) = x.jobs
    BY <1>1, <1>4, <2>1 DEF AllToDo
  <2>3. CASE x.jobs = {}
    <3>1. Cardinality(x.jobs) # 1
      BY <2>3, FS_EmptySet
    <3>2. Update(a, NoAttempt) /\ UNCHANGED dispatching
      BY <1>11, <2>3, <3>1 DEF SortOut
    <3>3. y = NoAttempt
      BY <1>2, <3>2
    <3> QED BY <1>4, <1>5, <1>6, <2>2, <2>3, <3>2, <3>3 DEF Goal, AllToDo
  <2>4. CASE x.jobs # {} /\ Cardinality(x.jobs) = 1
    <3>1. Update(a, v) /\ dispatching' = dispatching \ x.jobs
      BY <1>11, <2>4 DEF SortOut, StartAttempt, Update
    <3>2. y = v
      BY <1>2, <3>1
    <3>3. ClaimedBy(a)' = {} /\ AllToDo(y)
      BY <1>4, <3>2 DEF AllToDo
    <3>4. dispatching' = (dispatching \ x.jobs) \cup {}
      BY <3>1
    <3> QED BY <2>2, <3>3, <3>4 DEF Goal
  <2>5. CASE x.jobs # {} /\ Cardinality(x.jobs) # 1
    <3>1. Update(a, z) /\ UNCHANGED dispatching
      BY <1>11, <2>5 DEF SortOut
    <3>2. z.pc = "running" /\ z.jobs = x.jobs /\ z.holds
      BY <1>1, <2>1, <2>5 DEF AttemptRecord, AllToDo
    <3> HIDE DEF z
    <3>3. ClaimedBy(a)' = x.jobs /\ AllToDo(y)
      BY <1>2, <1>4, <3>1, <3>2 DEF AllToDo
    <3> QED BY <1>6, <2>2, <3>1, <3>3 DEF Goal
  <2> QED BY <2>3, <2>4, <2>5
<1>12. ASSUME NEW j \in Job, ClaimBatch(a, j) PROVE Goal
  <2> DEFINE z == [x EXCEPT !.todo = x.todo \ {j}, !.holds = TRUE,
                     !.jobs = IF j \in dispatching THEN x.jobs \ {j} ELSE x.jobs]
  <2>1. /\ x.pc = "claim" /\ j \in x.todo /\ Update(a, z)
        /\ dispatching' = dispatching \cup {j}
    BY <1>12 DEF ClaimBatch
  <2>2. /\ z.pc = "claim" /\ z.holds /\ z.todo = x.todo \ {j}
        /\ z.jobs = (IF j \in dispatching THEN x.jobs \ {j} ELSE x.jobs)
    BY <1>1, <2>1 DEF AttemptRecord
  <2>3. ClaimedBy(a) = x.jobs \ x.todo
    BY <1>1, <1>4, <2>1 DEF AllToDo
  <2> HIDE DEF z
  <2>4. y = z
    BY <1>2, <2>1
  <2>5. ClaimedBy(a)' = z.jobs \ z.todo /\ AllToDo(y)
    BY <1>4, <2>2, <2>4 DEF AllToDo
  <2>6. j \in x.jobs
    BY <1>1, <2>1 DEF WellFormed
  <2>7. ClaimedBy(a)' = ClaimedBy(a) \cup (IF j \in dispatching THEN {} ELSE {j})
    BY <2>1, <2>2, <2>3, <2>5, <2>6
  <2> HIDE DEF x, y
  <2> QED BY <1>3, <2>1, <2>5, <2>7 DEF Goal
<1>13. ASSUME NEW j \in Job, MarkInjected(a, j) PROVE Goal
  <2> DEFINE z == [x EXCEPT !.todo = x.todo \ {j}]
  <2>1. x.pc = "marking" /\ Update(a, z) /\ UNCHANGED dispatching
    BY <1>13 DEF MarkInjected
  <2>2. z.pc = "marking" /\ z.jobs = x.jobs /\ z.holds = x.holds
    BY <1>1, <2>1 DEF AttemptRecord
  <2> HIDE DEF z
  <2>3. ClaimedBy(a)' = ClaimedBy(a) /\ AllToDo(y)
    BY <1>1, <1>2, <1>4, <2>1, <2>2 DEF AllToDo, AttemptRecord
  <2> QED BY <1>6, <2>1, <2>3 DEF Goal
<1>14. CASE Defer(a)
  <2> DEFINE z == [x EXCEPT !.pc = "deferred", !.holds = FALSE]
  <2>1. x.pc = "running" /\ Update(a, z) /\ ReleaseClaims(a)
    BY <1>14 DEF Defer
  <2>2. z.pc = "deferred" /\ ~z.holds
    BY <1>1 DEF AttemptRecord
  <2> HIDE DEF z
  <2>3. y = z
    BY <1>2, <2>1
  <2> QED BY <1>7, <2>1, <2>2, <2>3 DEF Goal
<1>15. CASE Abandon(a) \/ EndAttempt(a)
  <2>1. x.pc # "claim" /\ Update(a, NoAttempt) /\ ReleaseClaims(a)
    BY <1>15 DEF Abandon, EndAttempt, Injecting
  <2>2. y = NoAttempt
    BY <1>2, <2>1
  <2> QED BY <1>5, <1>7, <2>1, <2>2 DEF Goal
<1> QED BY <1>8, <1>9, <1>10, <1>11, <1>12, <1>13, <1>14, <1>15 DEF Dispatch, Goal

(* A dispatch begins that has claimed nothing, in a place where none was.  *)
LEMMA NewClaimsNothing ==
  ASSUME Typed, DispatchesWellFormed, Claimants, NEW a \in Origin,
         \A b \in Origin \ {a} : attempt'[b] = attempt[b],
         attempt[a].pc = "none", ~attempt'[a].holds,
         attempt'[a].todo = attempt'[a].jobs, UNCHANGED dispatching
  PROVE  Claimants'
<1>1. ClaimedBy(a) = {} /\ ClaimedBy(a)' = {}
  BY DEF ClaimedBy, DispatchesWellFormed, WellFormed, NoAttempt
<1>2. \A b \in Origin \ {a} : ClaimedBy(b)' = ClaimedBy(b)
  BY DEF ClaimedBy
<1>3. \A b \in Origin : ClaimedBy(b)' = ClaimedBy(b)
  BY <1>1, <1>2
<1> HIDE DEF ClaimedBy
<1> QED BY <1>3 DEF Claimants, AllToDo

LEMMA ClaimantsStep ==
  ASSUME IsFiniteSet(Job), Typed, DispatchesWellFormed, Places, Claimants,
         [Next]_vars
  PROVE  Claimants'
<1> USE DEF memVars, replayVars, toldVars
<1>1. CASE UNCHANGED <<attempt, dispatching>>
  BY <1>1 DEF Claimants, ClaimedBy
<1>2. ASSUME NEW a \in Origin, Dispatch(a) PROVE Claimants'
  <2>1. /\ dispatching' = (dispatching \ ClaimedBy(a)) \cup ClaimedBy(a)'
        /\ (ClaimedBy(a)' \ ClaimedBy(a)) \cap dispatching = {}
        /\ AllToDo(attempt'[a])
    BY <1>2, ClaimStep
  <2>2. \A b \in Origin \ {a} : attempt'[b] = attempt[b]
    BY <1>2, DispatchStep
  <2>3. \A b \in Origin \ {a} : ClaimedBy(b)' = ClaimedBy(b)
    BY <2>2 DEF ClaimedBy
  <2>4. \A b \in Origin : ClaimedBy(b) \subseteq Job
    BY ClaimsAreJobs
  <2>5. \A b \in Origin \ {a} : ClaimedBy(b) \subseteq dispatching \ ClaimedBy(a)
    BY <2>4 DEF Claimants
  <2>6. \A b, c \in Origin : b # c => ClaimedBy(b)' \cap ClaimedBy(c)' = {}
    BY <2>1, <2>3, <2>5 DEF Claimants
  <2>7. \A j \in Job : j \in dispatching' <=>
                        \E b \in Origin : j \in ClaimedBy(b)'
    <3> SUFFICES ASSUME NEW j \in Job
                 PROVE  j \in dispatching' <=> \E b \in Origin : j \in ClaimedBy(b)'
      OBVIOUS
    <3>1. ASSUME j \in dispatching' PROVE \E b \in Origin : j \in ClaimedBy(b)'
      BY <2>1, <2>3, <3>1 DEF Claimants
    <3>2. ASSUME NEW b \in Origin, j \in ClaimedBy(b)' PROVE j \in dispatching'
      BY <2>1, <2>3, <2>5, <3>2
    <3> QED BY <3>1, <3>2
  <2> QED BY <2>1, <2>2, <2>6, <2>7 DEF Claimants
<1>3. ASSUME NEW j \in Job, DispatchAtOnce(j) PROVE Claimants'
  <2>1. j \in settling /\ StartAttempt(<<"live", j>>, "single", {j})
        /\ UNCHANGED dispatching
    BY <1>3 DEF DispatchAtOnce
  <2>2. attempt[<<"live", j>>].pc = "none"
    BY <2>1 DEF Places, OneLivePlace, Live
  <2> QED BY <2>1, <2>2, NewSingle, NewClaimsNothing, Origins
<1>4. ASSUME NEW j \in Job, ReplayDispatch(j) PROVE Claimants'
  <2>1. j \in listed /\ StartAttempt(<<"replay", j>>, "single", {j})
        /\ UNCHANGED dispatching
    BY <1>4 DEF ReplayDispatch
  <2>2. attempt[<<"replay", j>>].pc = "none"
    BY <2>1 DEF Places, OneReplayPlace, Replayed
  <2> QED BY <2>1, <2>2, NewSingle, NewClaimsNothing, Origins
<1>5. ASSUME NEW s \in Session, Flush(s) PROVE Claimants'
  <2>1. UNCHANGED dispatching
    BY <1>5 DEF Flush
  <2>2. CASE ToSet(buffer[s]) = {}
    BY <1>1, <1>5, <2>1, <2>2 DEF Flush
  <2>3. CASE ToSet(buffer[s]) # {}
    <3>1. PICK a \in Origin, j \in ToSet(buffer[s]) :
           /\ a = <<"live", j>>
           /\ \A b \in Origin \ {a} : attempt'[b] = attempt[b]
           /\ attempt'[a].jobs = ToSet(buffer[s])
           /\ attempt'[a].todo = ToSet(buffer[s]) /\ ~attempt'[a].holds
      BY <1>5, <2>3, FlushDispatches
    <3>2. j \in Job /\ SessionOf[j] = s
      BY Windows DEF DispatchesWellFormed, OfOneSession, Typed
    <3>3. attempt[a].pc = "none"
      BY <3>1, <3>2 DEF Places, OneLivePlace, Live, InWindow
    <3> QED BY <2>1, <3>1, <3>3, NewClaimsNothing
  <2> QED BY <2>2, <2>3
<1>6. CASE Crash
  <2>1. /\ \A a \in Origin : attempt'[a] = NoAttempt
        /\ dispatching' = {}
    BY <1>6 DEF Crash
  <2> QED BY <2>1 DEF Claimants, AllToDo, ClaimedBy, NoAttempt
<1>7. ASSUME NEW j \in Job, Spawn(j) \/ Settle(j) \/ JoinWindow(j) \/ OpenWindow(j)
      PROVE  UNCHANGED <<attempt, dispatching>>
  BY <1>7 DEF Spawn, Settle, JoinWindow, OpenWindow
<1>8. CASE \/ \E s \in Session : DeleteSession(s) \/ PurgeSession(s)
           \/ ReplayInterrupt \/ ReplayList \/ ReplayEnds \/ UNCHANGED vars
  BY <1>1, <1>8 DEF DeleteSession, PurgeSession, ReplayInterrupt, ReplayList,
     ReplayEnds, vars
<1> QED BY <1>1, <1>2, <1>3, <1>4, <1>5, <1>6, <1>7, <1>8 DEF Next
-----------------------------------------------------------------------------
(* Windows: each holds a job once, and an open one has a timer.            *)
WindowsKept ==
  WindowCloses /\ \A s \in Session : IsInjective(buffer[s])

LEMMA AppendNew ==
  ASSUME NEW S, NEW s \in Seq(S), NEW j, IsInjective(s), j \notin ToSet(s)
  PROVE  IsInjective(Append(s, j))
<1>1. /\ DOMAIN Append(s, j) = DOMAIN s \cup {Len(s) + 1}
      /\ \A i \in DOMAIN s : Append(s, j)[i] = s[i] /\ s[i] # j
      /\ Append(s, j)[Len(s) + 1] = j
  BY DEF ToSet
<1>2. Len(s) + 1 \notin DOMAIN s
  OBVIOUS
<1> QED BY <1>1, <1>2, Zenon DEF IsInjective

LEMMA WindowsKeptInit == Init => WindowsKept
BY DEF Init, WindowsKept, WindowCloses, IsInjective

LEMMA WindowsKeptStep ==
  ASSUME Typed, Places, WindowsKept, [Next]_vars
  PROVE  WindowsKept'
<1> USE CompletionsAssumption DEF memVars, replayVars, toldVars
<1>1. CASE UNCHANGED <<buffer, timers>>
  BY <1>1 DEF WindowsKept, WindowCloses
<1>2. ASSUME NEW s \in Session, buffer' = [buffer EXCEPT ![s] = <<>>],
             \A r \in Session \ {s} : timers'[r] = timers[r]
      PROVE  WindowsKept'
  BY <1>2 DEF WindowsKept, WindowCloses, IsInjective, Typed
<1>3. ASSUME NEW j \in Job, JoinWindow(j) PROVE WindowsKept'
  <2> DEFINE s == SessionOf[j]
  <2>1. /\ s \in Session /\ buffer[s] \in Seq(Job) /\ buffer[s] # <<>>
        /\ j \notin ToSet(buffer[s]) /\ UNCHANGED timers
        /\ buffer' = [buffer EXCEPT ![s] = Append(buffer[s], j)]
    BY <1>3 DEF JoinWindow, Typed, Places, OneLivePlace, InWindow
  <2>2. IsInjective(Append(buffer[s], j))
    BY <2>1, AppendNew DEF WindowsKept
  <2> HIDE DEF s
  <2>3. /\ \A r \in Session \ {s} : buffer'[r] = buffer[r]
        /\ buffer'[s] = Append(buffer[s], j)
    BY <2>1 DEF Typed
  <2> QED BY <2>1, <2>2, <2>3 DEF WindowsKept, WindowCloses
<1>4. ASSUME NEW j \in Job, OpenWindow(j) PROVE WindowsKept'
  <2> DEFINE s == SessionOf[j]
  <2>1. /\ s \in Session
        /\ buffer' = [buffer EXCEPT ![s] = <<j>>]
        /\ timers' = [timers EXCEPT ![s] = timers[s] + 1]
    BY <1>4 DEF OpenWindow
  <2>2. IsInjective(<<j>>)
    BY DEF IsInjective
  <2> HIDE DEF s
  <2>3. /\ \A r \in Session \ {s} : buffer'[r] = buffer[r] /\ timers'[r] = timers[r]
        /\ buffer'[s] = <<j>> /\ timers'[s] > 0
    BY <2>1 DEF Typed
  <2> QED BY <2>1, <2>2, <2>3 DEF WindowsKept, WindowCloses
<1>5. ASSUME NEW s \in Session, Flush(s) \/ PurgeSession(s) PROVE WindowsKept'
  BY <1>2, <1>5 DEF Flush, PurgeSession, Typed
<1>6. ASSUME NEW a \in Origin, Dispatch(a) PROVE WindowsKept'
  BY <1>1, <1>6, DispatchKeeps
<1>7. CASE Crash
  BY <1>7 DEF Crash, WindowsKept, WindowCloses, IsInjective
<1>8. ASSUME NEW j \in Job,
             Spawn(j) \/ Settle(j) \/ DispatchAtOnce(j) \/ ReplayDispatch(j)
      PROVE  WindowsKept'
  BY <1>1, <1>8 DEF Spawn, Settle, DispatchAtOnce, ReplayDispatch
<1>9. CASE \/ \E s \in Session : DeleteSession(s)
           \/ ReplayInterrupt \/ ReplayList \/ ReplayEnds \/ UNCHANGED vars
  BY <1>1, <1>9 DEF DeleteSession, ReplayInterrupt, ReplayList, ReplayEnds, vars
<1> QED BY <1>3, <1>4, <1>5, <1>6, <1>7, <1>8, <1>9 DEF Next

-----------------------------------------------------------------------------
(* A dispatch marks rows only after it told them, or when their session is *)
(* gone; a row is deleted only when its session is gone.                   *)
MarkedAfterTelling ==
  /\ \A a \in Origin : attempt[a].pc = "marking" =>
       \A j \in attempt[a].jobs : told[j] > 0 \/ SessionOf[j] \notin alive
  /\ \A j \in Job : row[j] = "gone" => SessionOf[j] \notin alive

LEMMA MarkedInit == Init => MarkedAfterTelling
BY DEF Init, MarkedAfterTelling, NoAttempt

(* What a step of a dispatch does to the marking of its jobs.              *)
LEMMA MarkingStep ==
  ASSUME IsFiniteSet(Job), Typed, DispatchesWellFormed, MarkedAfterTelling,
         NEW a \in Origin, Dispatch(a)
  PROVE  /\ attempt'[a].pc = "marking" =>
              \A j \in attempt'[a].jobs : told'[j] > 0 \/ SessionOf[j] \notin alive
         /\ \A j \in Job : told'[j] >= told[j]
<1> DEFINE x == attempt[a]
           y == attempt'[a]
<1>1. /\ x \in AttemptRecord /\ WellFormed(x)
      /\ x.pc = "marking" =>
           \A j \in x.jobs : told[j] > 0 \/ SessionOf[j] \notin alive
  BY DEF Typed, DispatchesWellFormed, MarkedAfterTelling
<1>2. /\ y.jobs \subseteq x.jobs /\ x.jobs \subseteq Job /\ WellFormed(y)
  BY <1>1, DispatchStep DEF AttemptRecord
<1>3. ASSUME NEW rec, Update(a, rec) PROVE y = rec
  BY <1>3 DEF Update, Typed
<1>4. \A j \in Job : told[j] \in Nat
  BY DEF Typed
<1>5. CASE Turn(a)
  <2>1. told' = [j \in Job |-> told[j] + (IF j \in x.jobs THEN 1 ELSE 0)]
    BY <1>5 DEF Turn
  <2>2. \A j \in Job : told'[j] >= told[j] /\ (j \in x.jobs => told'[j] > 0)
    BY <1>4, <2>1
  <2> QED BY <1>2, <2>2
<1>6. CASE SkipGhost(a) \/ CloseUntold(a)
  <2>1. \E j \in x.jobs : SessionOf[j] \notin alive
    BY <1>6 DEF SkipGhost, CloseUntold
  <2>2. \A j \in x.jobs : SessionOf[j] \notin alive
    BY <1>1, <2>1 DEF WellFormed
  <2>3. UNCHANGED told
    BY <1>6 DEF SkipGhost, CloseUntold, toldVars
  <2> QED BY <1>2, <1>4, <2>2, <2>3
<1>7. ASSUME UNCHANGED told, y.pc # "marking" \/ x.pc = "marking"
      PROVE  /\ y.pc = "marking" =>
                  \A j \in y.jobs : told'[j] > 0 \/ SessionOf[j] \notin alive
             /\ \A j \in Job : told'[j] >= told[j]
  BY <1>1, <1>2, <1>4, <1>7
<1>8. NoAttempt.pc = "none"
  BY DEF NoAttempt
<1>9. CASE ClaimSingle(a)
  <2>1. PICK rec \in {NoAttempt, [x EXCEPT !.pc = "running", !.todo = {}, !.holds = TRUE]} :
          Update(a, rec) /\ UNCHANGED told
    BY <1>9 DEF ClaimSingle, toldVars
  <2>2. rec.pc # "marking"
    BY <1>1, <1>8 DEF AttemptRecord
  <2> QED BY <1>3, <1>7, <2>1, <2>2
<1>10. CASE PassGate(a)
  <2>1. Update(a, [x EXCEPT !.pc = "claim"]) /\ UNCHANGED told
    BY <1>10 DEF PassGate, toldVars
  <2>2. [x EXCEPT !.pc = "claim"].pc # "marking"
    BY <1>1 DEF AttemptRecord
  <2> QED BY <1>3, <1>7, <2>1, <2>2
<1>11. CASE SortOut(a)
  <2>1. PICK rec : /\ rec \in {NoAttempt, [x EXCEPT !.pc = "running"],
                    [pc |-> "single", jobs |-> x.jobs, todo |-> x.jobs,
                     holds |-> FALSE]}
                   /\ Update(a, rec) /\ UNCHANGED told
    BY <1>11 DEF SortOut, StartAttempt, Update, toldVars
  <2>2. rec.pc # "marking"
    BY <1>1, <1>8, <2>1 DEF AttemptRecord
  <2> QED BY <1>3, <1>7, <2>1, <2>2
<1>12. ASSUME NEW j \in Job, ClaimBatch(a, j)
       PROVE  y.pc # "marking" /\ UNCHANGED told
  <2> DEFINE z == [x EXCEPT !.todo = x.todo \ {j}, !.holds = TRUE,
                     !.jobs = IF j \in dispatching THEN x.jobs \ {j} ELSE x.jobs]
  <2>1. x.pc = "claim" /\ Update(a, z) /\ UNCHANGED told
    BY <1>12 DEF ClaimBatch, toldVars
  <2>2. z.pc = "claim"
    BY <1>1, <2>1 DEF AttemptRecord
  <2> HIDE DEF z
  <2> QED BY <1>3, <2>1, <2>2
<1>13. ASSUME NEW j \in Job, MarkInjected(a, j)
       PROVE  x.pc = "marking" /\ UNCHANGED told
  BY <1>13 DEF MarkInjected, toldVars
<1>14. CASE Defer(a)
  <2>1. Update(a, [x EXCEPT !.pc = "deferred", !.holds = FALSE]) /\ UNCHANGED told
    BY <1>14 DEF Defer, toldVars
  <2>2. [x EXCEPT !.pc = "deferred", !.holds = FALSE].pc # "marking"
    BY <1>1 DEF AttemptRecord
  <2> QED BY <1>3, <1>7, <2>1, <2>2
<1>15. CASE Abandon(a) \/ EndAttempt(a)
  <2>1. Update(a, NoAttempt) /\ UNCHANGED told
    BY <1>15 DEF Abandon, EndAttempt, toldVars
  <2> QED BY <1>3, <1>7, <1>8, <2>1
<1> QED BY <1>5, <1>6, <1>7, <1>9, <1>10, <1>11, <1>12, <1>13, <1>14, <1>15
        DEF Dispatch

LEMMA MarkedStep ==
  ASSUME IsFiniteSet(Job), Typed, DispatchesWellFormed, MarkedAfterTelling,
         [Next]_vars
  PROVE  MarkedAfterTelling'
<1> USE DEF memVars, replayVars, toldVars
<1>1. CASE UNCHANGED <<attempt, told, alive>> /\ (\A j \in Job : row'[j] = "gone" => row[j] = "gone")
  BY <1>1 DEF MarkedAfterTelling
<1>2. ASSUME NEW a \in Origin, Dispatch(a) PROVE MarkedAfterTelling'
  <2>1. UNCHANGED <<row, alive>>
    BY <1>2, DispatchKeeps
  <2>2. \A b \in Origin \ {a} : attempt'[b] = attempt[b]
    BY <1>2, DispatchStep
  <2>3. \A b \in Origin : attempt[b].jobs \subseteq Job
    BY DEF Typed, AttemptRecord
  <2>4. \A j \in Job : told[j] \in Nat /\ told'[j] \in Nat
    BY <1>2, TypedStep DEF Next, Typed
  <2> QED BY <1>2, <2>1, <2>2, <2>3, <2>4, MarkingStep DEF MarkedAfterTelling
<1>3. ASSUME NEW a \in Origin, \A b \in Origin \ {a} : attempt'[b] = attempt[b],
             attempt'[a].pc # "marking", UNCHANGED <<row, told, alive>>
      PROVE  MarkedAfterTelling'
  BY <1>3 DEF MarkedAfterTelling
<1>4. ASSUME NEW j \in Job, DispatchAtOnce(j) \/ ReplayDispatch(j)
      PROVE  MarkedAfterTelling'
  <2>1. PICK a \in Origin : /\ StartAttempt(a, "single", {j})
                            /\ UNCHANGED <<row, told, alive>>
    BY <1>4, Origins DEF DispatchAtOnce, ReplayDispatch
  <2> QED BY <1>3, <2>1, NewSingle
<1>5. ASSUME NEW s \in Session, Flush(s) PROVE MarkedAfterTelling'
  <2>1. UNCHANGED <<row, told, alive>>
    BY <1>5 DEF Flush
  <2>2. CASE ToSet(buffer[s]) = {}
    BY <1>1, <1>5, <2>1, <2>2 DEF Flush
  <2>3. CASE ToSet(buffer[s]) # {}
    BY <1>3, <1>5, <2>1, <2>3, FlushDispatches
  <2> QED BY <2>2, <2>3
<1>6. ASSUME NEW s \in Session, DeleteSession(s) PROVE MarkedAfterTelling'
  BY <1>6 DEF DeleteSession, MarkedAfterTelling
<1>7. ASSUME NEW s \in Session, PurgeSession(s) PROVE MarkedAfterTelling'
  BY <1>7 DEF PurgeSession, MarkedAfterTelling
<1>8. CASE Crash
  <2>1. /\ \A a \in Origin : attempt'[a].pc = "none"
        /\ \A j \in Job : row'[j] = "gone" => row[j] = "gone"
        /\ UNCHANGED alive
    BY <1>8 DEF Crash, NoAttempt
  <2> QED BY <2>1 DEF MarkedAfterTelling
<1>9. ASSUME NEW j \in Job,
             Spawn(j) \/ Settle(j) \/ JoinWindow(j) \/ OpenWindow(j)
      PROVE  MarkedAfterTelling'
  <2>1. CASE Spawn(j) \/ Settle(j)
    BY <1>1, <2>1 DEF Spawn, Settle, Typed
  <2>2. CASE JoinWindow(j) \/ OpenWindow(j)
    BY <1>1, <2>2 DEF JoinWindow, OpenWindow
  <2> QED BY <1>9, <2>1, <2>2
<1>10. CASE ReplayInterrupt
  BY <1>1, <1>10 DEF ReplayInterrupt
<1>11. CASE ReplayList \/ ReplayEnds \/ UNCHANGED vars
  BY <1>1, <1>11 DEF ReplayList, ReplayEnds, vars
<1> QED BY <1>2, <1>4, <1>5, <1>6, <1>7, <1>8, <1>9, <1>10, <1>11 DEF Next
-----------------------------------------------------------------------------
(* No result is dropped: what must still be told is in one of the places.  *)
Owed(j) ==
  /\ row[j] = "terminal" /\ j \notin injected /\ told[j] = 0
  /\ SessionOf[j] \in alive /\ j \notin abandoned

OnItsWay(j) ==
  \/ j \in settling \cup ToSet(buffer[SessionOf[j]]) \cup listed
  \/ replay \in {"interrupt", "list"}
  \/ \E a \in Origin : j \in attempt[a].jobs

LEMMA DroppedInit == Init => NoResultDropped
BY DEF Init, NoResultDropped

(* A dispatch lets go of a job only to the dispatch that claimed it, or    *)
(* when the job was told or given up.                                      *)
LEMMA LetGo ==
  ASSUME IsFiniteSet(Job), Typed, DispatchesWellFormed, Claimants,
         MarkedAfterTelling,
         NEW a \in Origin, Dispatch(a),
         NEW j \in attempt[a].jobs, j \notin attempt'[a].jobs, Owed(j)'
  PROVE  \E b \in Origin \ {a} : j \in attempt[b].jobs
<1> DEFINE x == attempt[a]
           y == attempt'[a]
<1>1. /\ x \in AttemptRecord /\ WellFormed(x)
      /\ x.pc = "marking" =>
           \A i \in x.jobs : told[i] > 0 \/ SessionOf[i] \notin alive
  BY DEF Typed, DispatchesWellFormed, MarkedAfterTelling
<1>2. j \in Job
  BY <1>1 DEF AttemptRecord
<1>3. ASSUME NEW rec, Update(a, rec) PROVE y = rec
  BY <1>3 DEF Update, Typed
<1>4. UNCHANGED alive /\ told[j] \in Nat /\ told'[j] = 0
  BY <1>2, DispatchKeeps DEF Typed, Owed
<1>5. ASSUME j \in dispatching, j \notin ClaimedBy(a) PROVE \E b \in Origin \ {a} : j \in attempt[b].jobs
  <2>1. PICK b \in Origin : j \in ClaimedBy(b)
    BY <1>2, <1>5 DEF Claimants
  <2> QED BY <1>5, <2>1, ClaimsAreJobs
<1>6. ASSUME NEW rec, Update(a, rec), rec.jobs = x.jobs PROVE FALSE
  BY <1>3, <1>6
<1>7. CASE SkipGhost(a) \/ CloseUntold(a) \/ Turn(a)
  <2> DEFINE z == [x EXCEPT !.pc = "marking", !.todo = x.jobs]
  <2>1. Update(a, z)
    BY <1>7 DEF SkipGhost, CloseUntold, Turn, StartMarking
  <2>2. z.jobs = x.jobs
    BY <1>1 DEF AttemptRecord
  <2> HIDE DEF z
  <2> QED BY <1>6, <2>1, <2>2
<1>8. CASE ClaimSingle(a)
  <2> DEFINE z == [x EXCEPT !.pc = "running", !.todo = {}, !.holds = TRUE]
  <2>1. z.jobs = x.jobs
    BY <1>1 DEF AttemptRecord
  <2>2. x.jobs \cap dispatching # {} \/ Update(a, z)
    BY <1>8 DEF ClaimSingle
  <2> HIDE DEF z
  <2>3. x.jobs \cap dispatching # {} /\ x.pc = "single"
    BY <1>6, <1>8, <2>1, <2>2 DEF ClaimSingle
  <2>4. j \in dispatching /\ j \notin ClaimedBy(a)
    BY <1>1, <2>3 DEF WellFormed, ClaimedBy
  <2> QED BY <1>5, <2>4
<1>9. CASE PassGate(a)
  <2>1. Update(a, [x EXCEPT !.pc = "claim"])
    BY <1>9 DEF PassGate
  <2>2. [x EXCEPT !.pc = "claim"].jobs = x.jobs
    BY <1>1 DEF AttemptRecord
  <2> QED BY <1>6, <2>1, <2>2
<1>10. CASE SortOut(a)
  <2>1. PICK rec : /\ rec \in {[x EXCEPT !.pc = "running"],
                    [pc |-> "single", jobs |-> x.jobs, todo |-> x.jobs,
                     holds |-> FALSE]}
                   /\ Update(a, rec)
    BY <1>10 DEF SortOut, StartAttempt, Update
  <2>2. rec.jobs = x.jobs
    BY <1>1, <2>1 DEF AttemptRecord
  <2> QED BY <1>6, <2>1, <2>2
<1>11. ASSUME NEW i \in Job, ClaimBatch(a, i)
       PROVE  j \in dispatching /\ j \notin ClaimedBy(a)
  <2> DEFINE z == [x EXCEPT !.todo = x.todo \ {i}, !.holds = TRUE,
                     !.jobs = IF i \in dispatching THEN x.jobs \ {i} ELSE x.jobs]
  <2>1. x.pc = "claim" /\ i \in x.todo /\ Update(a, z)
    BY <1>11 DEF ClaimBatch
  <2>2. z.jobs = IF i \in dispatching THEN x.jobs \ {i} ELSE x.jobs
    BY <1>1 DEF AttemptRecord
  <2> HIDE DEF z
  <2>3. j = i /\ i \in dispatching
    BY <1>3, <2>1, <2>2
  <2> QED BY <2>1, <2>3 DEF ClaimedBy
<1>12. ASSUME NEW i \in Job, MarkInjected(a, i) PROVE FALSE
  <2>1. Update(a, [x EXCEPT !.todo = x.todo \ {i}])
    BY <1>12 DEF MarkInjected
  <2>2. [x EXCEPT !.todo = x.todo \ {i}].jobs = x.jobs
    BY <1>1 DEF AttemptRecord
  <2> QED BY <1>6, <2>1, <2>2
<1>13. CASE Defer(a)
  <2>1. Update(a, [x EXCEPT !.pc = "deferred", !.holds = FALSE])
    BY <1>13 DEF Defer
  <2>2. [x EXCEPT !.pc = "deferred", !.holds = FALSE].jobs = x.jobs
    BY <1>1 DEF AttemptRecord
  <2> QED BY <1>6, <2>1, <2>2
<1>14. CASE Abandon(a)
  BY <1>14 DEF Abandon, Owed
<1>15. CASE EndAttempt(a)
  <2>1. x.pc = "marking" /\ UNCHANGED told
    BY <1>15 DEF EndAttempt, toldVars
  <2> QED BY <1>1, <1>4, <2>1 DEF Owed
<1> QED BY <1>5, <1>7, <1>8, <1>9, <1>10, <1>11, <1>12, <1>13, <1>14, <1>15
        DEF Dispatch

LEMMA DroppedStep ==
  ASSUME IsFiniteSet(Job), Typed, DispatchesWellFormed, Places, Claimants,
         MarkedAfterTelling, NoResultDropped, [Next]_vars
  PROVE  NoResultDropped'
<1> USE CompletionsAssumption DEF memVars, replayVars, toldVars
<1> SUFFICES ASSUME NEW j \in Job, Owed(j)' PROVE OnItsWay(j)'
  BY DEF NoResultDropped, Owed, OnItsWay
<1>0. Owed(j) => OnItsWay(j)
  BY DEF NoResultDropped, Owed, OnItsWay
<1>1. ASSUME UNCHANGED <<settling, buffer, listed, replay, attempt>>, Owed(j)
      PROVE  OnItsWay(j)'
  BY <1>0, <1>1 DEF OnItsWay
<1>2. ASSUME NEW i \in Job, Spawn(i) \/ Settle(i) PROVE OnItsWay(j)'
  <2>1. CASE Spawn(i)
    <3>1. Owed(j)
      BY <2>1 DEF Spawn, Owed, Typed
    <3> QED BY <1>1, <2>1, <3>1 DEF Spawn
  <2>2. CASE Settle(i) /\ i = j
    BY <2>2 DEF Settle, OnItsWay
  <2>3. CASE Settle(i) /\ i # j
    <3>1. Owed(j)
      BY <2>3 DEF Settle, Owed, Typed
    <3> QED BY <1>0, <2>3, <3>1 DEF Settle, OnItsWay
  <2> QED BY <1>2, <2>1, <2>2, <2>3
<1>3. ASSUME NEW i \in Job, JoinWindow(i) \/ OpenWindow(i) PROVE OnItsWay(j)'
  <2> DEFINE s == SessionOf[i]
  <2>1. s \in Session /\ buffer[s] \in Seq(Job)
    BY DEF Typed
  <2>2. PICK q : /\ buffer' = [buffer EXCEPT ![s] = q]
                 /\ ToSet(q) = ToSet(buffer[s]) \cup {i}
    BY <1>3, <2>1, Windows DEF JoinWindow, OpenWindow
  <2>3. /\ settling' = settling \ {i} /\ Owed(j)
        /\ UNCHANGED <<listed, replay, attempt>>
    BY <1>3 DEF JoinWindow, OpenWindow, Owed
  <2>4. ToSet(buffer[SessionOf[j]]) \subseteq ToSet(buffer'[SessionOf[j]])
    BY <2>1, <2>2 DEF Typed
  <2>5. i \in ToSet(buffer'[SessionOf[i]])
    BY <2>1, <2>2 DEF Typed
  <2> QED BY <1>0, <2>3, <2>4, <2>5 DEF OnItsWay
<1>4. ASSUME NEW i \in Job, NEW a \in Origin, StartAttempt(a, "single", {i}),
             attempt[a].pc = "none", UNCHANGED <<buffer, replay>>,
             settling \cup listed \subseteq settling' \cup listed' \cup {i}, Owed(j)
      PROVE  OnItsWay(j)'
  <2>1. /\ \A b \in Origin \ {a} : attempt'[b] = attempt[b]
        /\ attempt'[a].jobs = {i} /\ attempt[a].jobs = {}
    BY <1>4, NewSingle DEF DispatchesWellFormed, WellFormed, NoAttempt
  <2> QED BY <1>0, <1>4, <2>1 DEF OnItsWay
<1>5. ASSUME NEW i \in Job, DispatchAtOnce(i) PROVE OnItsWay(j)'
  <2>1. /\ i \in settling /\ StartAttempt(<<"live", i>>, "single", {i})
        /\ UNCHANGED <<buffer, replay, listed>> /\ settling' = settling \ {i}
        /\ Owed(j)
    BY <1>5 DEF DispatchAtOnce, Owed
  <2>2. attempt[<<"live", i>>].pc = "none"
    BY <2>1 DEF Places, OneLivePlace, Live
  <2> QED BY <1>4, <2>1, <2>2, Origins
<1>6. ASSUME NEW i \in Job, ReplayDispatch(i) PROVE OnItsWay(j)'
  <2>1. /\ i \in listed /\ StartAttempt(<<"replay", i>>, "single", {i})
        /\ UNCHANGED <<buffer, replay, settling>> /\ listed' = listed \ {i}
        /\ Owed(j)
    BY <1>6 DEF ReplayDispatch, Owed
  <2>2. attempt[<<"replay", i>>].pc = "none"
    BY <2>1 DEF Places, OneReplayPlace, Replayed
  <2> QED BY <1>4, <2>1, <2>2, Origins
<1>7. ASSUME NEW s \in Session, Flush(s) PROVE OnItsWay(j)'
  <2>1. /\ buffer' = [buffer EXCEPT ![s] = <<>>] /\ Owed(j)
        /\ UNCHANGED <<settling, listed, replay>>
    BY <1>7 DEF Flush, Owed
  <2>2. \A r \in Session \ {s} : buffer'[r] = buffer[r]
    BY <2>1 DEF Typed
  <2>3. CASE ToSet(buffer[s]) = {}
    <3>1. UNCHANGED attempt
      BY <1>7, <2>3 DEF Flush
    <3> QED BY <1>0, <2>1, <2>2, <2>3, <3>1 DEF OnItsWay
  <2>4. CASE ToSet(buffer[s]) # {}
    <3>1. PICK a \in Origin, i \in ToSet(buffer[s]) :
           /\ a = <<"live", i>>
           /\ \A b \in Origin \ {a} : attempt'[b] = attempt[b]
           /\ attempt'[a].jobs = ToSet(buffer[s])
      BY <1>7, <2>4, FlushDispatches
    <3>2. i \in Job /\ SessionOf[i] = s
      BY Windows DEF DispatchesWellFormed, OfOneSession, Typed
    <3>3. attempt[a].jobs = {}
      BY <3>1, <3>2 DEF Places, OneLivePlace, Live, InWindow,
         DispatchesWellFormed, WellFormed, NoAttempt
    <3> QED BY <1>0, <2>1, <2>2, <3>1, <3>3 DEF OnItsWay
  <2> QED BY <2>3, <2>4
<1>8. ASSUME NEW a \in Origin, Dispatch(a) PROVE OnItsWay(j)'
  <2>1. UNCHANGED <<row, alive, settling, buffer, replay, listed>>
    BY <1>8, DispatchKeeps
  <2>2. \A b \in Origin \ {a} : attempt'[b] = attempt[b]
    BY <1>8, DispatchStep
  <2>3. Owed(j)
    <3>1. told[j] \in Nat /\ told'[j] >= told[j]
      BY <1>8, MarkingStep DEF Typed
    <3>2. injected \subseteq injected' /\ abandoned \subseteq abandoned'
      BY <1>8 DEF Dispatch, SkipGhost, ClaimSingle, PassGate, SortOut,
         ClaimBatch, MarkInjected, Turn, CloseUntold, Defer, Abandon, EndAttempt
    <3> QED BY <2>1, <3>1, <3>2 DEF Owed
  <2>4. CASE j \in attempt[a].jobs /\ j \notin attempt'[a].jobs
    BY <1>8, <2>2, <2>4, LetGo DEF OnItsWay
  <2>5. CASE ~(j \in attempt[a].jobs /\ j \notin attempt'[a].jobs)
    BY <1>0, <2>1, <2>2, <2>3, <2>5 DEF OnItsWay
  <2> QED BY <2>4, <2>5
<1>9. ASSUME NEW s \in Session, DeleteSession(s) PROVE OnItsWay(j)'
  BY <1>1, <1>9 DEF DeleteSession, Owed
<1>10. ASSUME NEW s \in Session, PurgeSession(s) PROVE OnItsWay(j)'
  <2>1. SessionOf[j] # s /\ Owed(j)
    BY <1>10 DEF PurgeSession, Owed
  <2>2. /\ buffer'[SessionOf[j]] = buffer[SessionOf[j]]
        /\ UNCHANGED <<settling, listed, replay, attempt>>
    BY <1>10, <2>1 DEF PurgeSession, Typed
  <2> QED BY <1>0, <2>1, <2>2 DEF OnItsWay
<1>11. CASE Crash \/ ReplayInterrupt
  BY <1>11 DEF Crash, ReplayInterrupt, OnItsWay
<1>12. CASE ReplayList
  BY <1>12 DEF ReplayList, OnItsWay, Owed
<1>13. CASE ReplayEnds
  BY <1>0, <1>13 DEF ReplayEnds, OnItsWay, Owed
<1>14. CASE UNCHANGED vars
  BY <1>1, <1>14 DEF vars, Owed
<1> QED BY <1>2, <1>3, <1>5, <1>6, <1>7, <1>8, <1>9, <1>10, <1>11, <1>12,
        <1>13, <1>14 DEF Next

-----------------------------------------------------------------------------
Inv ==
  /\ Typed /\ DispatchesWellFormed /\ Places /\ Claimants /\ WindowsKept
  /\ MarkedAfterTelling /\ NoResultDropped

LEMMA Invariance == ASSUME IsFiniteSet(Job) PROVE Spec => []Inv
<1>1. Init => Inv
  BY TypedInit, WellFormedInit, PlacesInit, ClaimantsInit, WindowsKeptInit,
     MarkedInit, DroppedInit DEF Inv
<1>2. Inv /\ [Next]_vars => Inv'
  BY TypedStep, WellFormedStep, PlacesStep, ClaimantsStep, WindowsKeptStep,
     MarkedStep, DroppedStep DEF Inv
<1> QED BY <1>1, <1>2, PTL DEF Spec

(* What the types, the claims, the windows and the places come to.         *)
LEMMA InvImplies == Inv => NothingStuck
<1> SUFFICES ASSUME Inv PROVE NothingStuck
  OBVIOUS
<1>1. TypeOK
  BY DEF Inv, Typed, AttemptRecord, PC, DispatchesWellFormed, OfOneSession,
     WindowsKept, TypeOK
<1>2. ClaimsAreHeld
  <2> SUFFICES ASSUME NEW j \in Job
               PROVE  Cardinality({a \in Origin : j \in ClaimedBy(a)}) =
                        (IF j \in dispatching THEN 1 ELSE 0)
    BY DEF ClaimsAreHeld
  <2>1. CASE j \in dispatching
    <3>1. PICK a \in Origin : j \in ClaimedBy(a)
      BY <2>1 DEF Inv, Claimants
    <3>2. {b \in Origin : j \in ClaimedBy(b)} = {a}
      BY <3>1 DEF Inv, Claimants
    <3> QED BY <2>1, <3>2, FS_Singleton
  <2>2. CASE j \notin dispatching
    <3>1. {b \in Origin : j \in ClaimedBy(b)} = {}
      BY <2>2 DEF Inv, Claimants
    <3> QED BY <2>2, <3>1, FS_EmptySet
  <2> QED BY <2>1, <2>2
<1> QED BY <1>1, <1>2 DEF Inv, WindowsKept, NothingStuck

(* Whatever the jobs, sessions and crashes, no completion is stuck: claims *)
(* are held by one live dispatch, open windows close, and a result not yet *)
(* told is on its way to a turn.                                           *)
THEOREM NothingEverStuck ==
  ASSUME IsFiniteSet(Job) PROVE Spec => []NothingStuck
BY Invariance, InvImplies, PTL
-----------------------------------------------------------------------------
(* How often a result was told.  The live path and the replay each have at *)
(* most one turn ahead of a job.                                           *)
LiveAhead(j) ==
  \/ j \in settling \/ InWindow(j)
  \/ \E i \in Job : j \in Live(i).jobs /\ Live(i).pc # "marking"

ReplayAhead(j) ==
  j \in listed \/ (j \in Replayed(j).jobs /\ Replayed(j).pc # "marking")

Telling(j) ==
  /\ Fresh(j) => told[j] = 0 /\ j \notin injected
  /\ told[j] <= (IF j \in relisted THEN 2 ELSE 1)
  /\ LiveAhead(j) => told[j] <= (IF j \in relisted THEN 1 ELSE 0)
  /\ ReplayAhead(j) => told[j] <= 1
  /\ LiveAhead(j) /\ ReplayAhead(j) => told[j] = 0
  /\ j \in injected /\ told[j] = 0 /\ SessionOf[j] \in alive =>
       ~LiveAhead(j) /\ ~ReplayAhead(j)

ToldInTurn == \A j \in Job : Telling(j)

LEMMA TellingInit == Init => ToldInTurn
<1> SUFFICES ASSUME Init, NEW j \in Job PROVE Telling(j)
  BY DEF ToldInTurn
<1>1. told[j] = 0 /\ j \notin injected
  BY DEF Init
<1> QED BY <1>1 DEF Telling

(* A step that tells nothing, and brings nothing ahead that was not.       *)
LEMMA TellingKept ==
  ASSUME ToldInTurn, NEW j \in Job,
         UNCHANGED <<told, relisted>>, alive' \subseteq alive,
         j \in injected' => j \in injected,
         Fresh(j)' => Fresh(j),
         LiveAhead(j)' => LiveAhead(j), ReplayAhead(j)' => ReplayAhead(j)
  PROVE  Telling(j)'
<1> HIDE DEF Fresh, LiveAhead, ReplayAhead
<1> QED BY DEF ToldInTurn, Telling

(* Only the end of a job, and the list of the replay, bring one ahead.     *)
LEMMA AheadStep ==
  ASSUME IsFiniteSet(Job), Inv, Next, NEW j \in Job,
         ~Settle(j), ~ReplayList
  PROVE  /\ LiveAhead(j)' => LiveAhead(j)
         /\ ReplayAhead(j)' => ReplayAhead(j)
<1> USE CompletionsAssumption DEF memVars, replayVars, toldVars, Inv
<1> DEFINE Goal == /\ LiveAhead(j)' => LiveAhead(j)
                   /\ ReplayAhead(j)' => ReplayAhead(j)
<1> HIDE DEF Goal
<1>1. ASSUME attempt' = attempt, listed' = listed,
             j \in settling' \/ InWindow(j)' => j \in settling \/ InWindow(j)
      PROVE  Goal
  BY <1>1 DEF Goal, LiveAhead, ReplayAhead, Live, Replayed
<1>2. ASSUME NEW i \in Job, Spawn(i) \/ Settle(i) PROVE Goal
  BY <1>1, <1>2 DEF Spawn, Settle, InWindow
<1>3. ASSUME NEW i \in Job, JoinWindow(i) \/ OpenWindow(i) PROVE Goal
  <2> DEFINE s == SessionOf[i]
  <2>1. s \in Session /\ buffer[s] \in Seq(Job)
    BY DEF Typed
  <2>2. PICK q : /\ buffer' = [buffer EXCEPT ![s] = q]
                 /\ ToSet(q) = ToSet(buffer[s]) \cup {i}
    BY <1>3, <2>1, Windows DEF JoinWindow, OpenWindow
  <2>3. InWindow(j)' => InWindow(j) \/ j = i
    BY <2>1, <2>2 DEF Typed, InWindow
  <2>4. i \in settling /\ settling' \subseteq settling /\ UNCHANGED <<attempt, listed>>
    BY <1>3 DEF JoinWindow, OpenWindow
  <2> QED BY <1>1, <2>3, <2>4
<1>4. ASSUME NEW i \in Job, DispatchAtOnce(i) PROVE Goal
  <2>1. /\ i \in settling /\ StartAttempt(<<"live", i>>, "single", {i})
        /\ UNCHANGED <<buffer, listed>> /\ settling' \subseteq settling
    BY <1>4 DEF DispatchAtOnce
  <2>2. /\ \A b \in Origin \ {<<"live", i>>} : attempt'[b] = attempt[b]
        /\ attempt'[<<"live", i>>].jobs = {i}
    BY <2>1, NewSingle, Origins
  <2>3. /\ Live(i)'.jobs = {i}
        /\ \A h \in Job \ {i} : Live(h)' = Live(h)
        /\ \A h \in Job : Replayed(h)' = Replayed(h)
    BY <2>2, Origins DEF Live, Replayed
  <2> QED BY <2>1, <2>3 DEF Goal, LiveAhead, ReplayAhead, InWindow
<1>5. ASSUME NEW i \in Job, ReplayDispatch(i) PROVE Goal
  <2>1. /\ i \in listed /\ StartAttempt(<<"replay", i>>, "single", {i})
        /\ UNCHANGED <<buffer, settling>> /\ listed' \subseteq listed
    BY <1>5 DEF ReplayDispatch
  <2>2. /\ \A b \in Origin \ {<<"replay", i>>} : attempt'[b] = attempt[b]
        /\ attempt'[<<"replay", i>>].jobs = {i}
    BY <2>1, NewSingle, Origins
  <2>3. /\ Replayed(i)'.jobs = {i}
        /\ \A h \in Job \ {i} : Replayed(h)' = Replayed(h)
        /\ \A h \in Job : Live(h)' = Live(h)
    BY <2>2, Origins DEF Live, Replayed
  <2> QED BY <2>1, <2>3 DEF Goal, LiveAhead, ReplayAhead, InWindow
<1>6. ASSUME NEW s \in Session, Flush(s) PROVE Goal
  <2>1. /\ buffer' = [buffer EXCEPT ![s] = <<>>]
        /\ UNCHANGED <<settling, listed>>
    BY <1>6 DEF Flush
  <2>2. InWindow(j)' => InWindow(j)
    BY <2>1, Windows DEF InWindow, Typed
  <2>3. CASE ToSet(buffer[s]) = {}
    BY <1>1, <1>6, <2>1, <2>2, <2>3 DEF Flush
  <2>4. CASE ToSet(buffer[s]) # {}
    <3>1. PICK a \in Origin, i \in ToSet(buffer[s]) :
           /\ a = <<"live", i>>
           /\ \A b \in Origin \ {a} : attempt'[b] = attempt[b]
           /\ attempt'[a].jobs = ToSet(buffer[s])
      BY <1>6, <2>4, FlushDispatches
    <3>2. \A h \in ToSet(buffer[s]) : h \in Job /\ SessionOf[h] = s
      BY Windows DEF DispatchesWellFormed, OfOneSession, Typed
    <3>3. /\ Live(i)'.jobs = ToSet(buffer[s])
          /\ \A h \in Job \ {i} : Live(h)' = Live(h)
          /\ \A h \in Job : Replayed(h)' = Replayed(h)
      BY <3>1, <3>2, Origins DEF Live, Replayed
    <3>4. j \in ToSet(buffer[s]) => InWindow(j)
      BY <3>2 DEF InWindow
    <3> QED BY <2>1, <2>2, <3>3, <3>4 DEF Goal, LiveAhead, ReplayAhead
  <2> QED BY <2>3, <2>4
<1>7. ASSUME NEW a \in Origin, Dispatch(a) PROVE Goal
  <2>1. /\ UNCHANGED <<settling, buffer, listed>>
        /\ \A b \in Origin \ {a} : attempt'[b] = attempt[b]
        /\ attempt'[a].jobs \subseteq attempt[a].jobs
    BY <1>7, DispatchKeeps, DispatchStep
  <2>2. attempt[a].pc = "marking" => attempt'[a].pc = "marking" \/ attempt'[a].jobs = {}
    <3> SUFFICES ASSUME attempt[a].pc = "marking"
                 PROVE  attempt'[a].pc = "marking" \/ attempt'[a].jobs = {}
      OBVIOUS
    <3>1. ASSUME NEW i \in Job, MarkInjected(a, i) PROVE attempt'[a].pc = "marking"
      BY <3>1 DEF MarkInjected, Update, Typed, AttemptRecord
    <3>2. ASSUME EndAttempt(a) PROVE attempt'[a].jobs = {}
      BY <3>2 DEF EndAttempt, Update, Typed, NoAttempt
    <3> QED BY <1>7, <3>1, <3>2 DEF Dispatch, SkipGhost, ClaimSingle, PassGate,
            SortOut, ClaimBatch, Turn, CloseUntold, Defer, Abandon, Injecting
  <2>3. \A b \in Origin : j \in attempt'[b].jobs /\ attempt'[b].pc # "marking" =>
                          j \in attempt[b].jobs /\ attempt[b].pc # "marking"
    BY <2>1, <2>2
  <2> QED BY <2>1, <2>3, Origins DEF Goal, LiveAhead, ReplayAhead, InWindow,
          Live, Replayed
<1>8. ASSUME NEW s \in Session, DeleteSession(s) \/ PurgeSession(s) PROVE Goal
  <2>1. CASE DeleteSession(s)
    BY <1>1, <2>1 DEF DeleteSession, InWindow
  <2>2. CASE PurgeSession(s)
    <3>1. InWindow(j)' => InWindow(j)
      BY <2>2, Windows DEF PurgeSession, InWindow, Typed
    <3> QED BY <1>1, <2>2, <3>1 DEF PurgeSession
  <2> QED BY <1>8, <2>1, <2>2
<1>9. CASE Crash
  <2>1. \A b \in Origin : attempt'[b].jobs = {}
    BY <1>9 DEF Crash, NoAttempt
  <2>2. ~InWindow(j)' /\ settling' = {} /\ listed' = {}
    BY <1>9, Windows DEF Crash, InWindow
  <2>3. \A i \in Job : Live(i)'.jobs = {} /\ Replayed(i)'.jobs = {}
    BY <2>1, Origins DEF Live, Replayed
  <2>4. ~LiveAhead(j)' /\ ~ReplayAhead(j)'
    BY <2>2, <2>3 DEF LiveAhead, ReplayAhead
  <2> QED BY <2>4 DEF Goal
<1>10. CASE ReplayInterrupt \/ ReplayEnds
  BY <1>1, <1>10 DEF ReplayInterrupt, ReplayEnds, InWindow, Goal
<1> QED BY <1>2, <1>3, <1>4, <1>5, <1>6, <1>7, <1>8, <1>9, <1>10 DEF Next, Goal

(* A turn tells jobs that were ahead on its path, and no longer are.       *)
LEMMA TurnAhead ==
  ASSUME IsFiniteSet(Job), Inv, NEW a \in Origin, Turn(a),
         NEW j \in attempt[a].jobs
  PROVE  /\ j \in Job /\ ~Fresh(j) /\ row[j] # "gone" /\ SessionOf[j] \in alive
         /\ \/ LiveAhead(j) /\ ~LiveAhead(j)'
            \/ ReplayAhead(j) /\ ~ReplayAhead(j)' /\ j \in relisted
<1> USE DEF Inv
<1> DEFINE x == attempt[a]
           z == [x EXCEPT !.pc = "marking", !.todo = x.jobs]
<1>1. /\ x.pc \in {"running", "deferred"} /\ SessionOf[j] \in alive
      /\ UNCHANGED <<settling, buffer, listed>>
  BY DEF Turn, Injecting, replayVars
<1>2. x \in AttemptRecord
  BY DEF Typed
<1>3. z.pc = "marking" /\ z.jobs = x.jobs
  BY <1>2 DEF AttemptRecord
<1>4. Update(a, z)
  BY DEF Turn, StartMarking
<1> HIDE DEF z
<1>5. /\ attempt'[a] = z
      /\ \A b \in Origin \ {a} : attempt'[b] = attempt[b]
  BY <1>4 DEF Update, Typed
<1>6. j \in Job
  BY <1>2 DEF AttemptRecord
<1>7. CASE \E i \in Job : a = <<"live", i>>
  <2>1. PICK i \in Job : a = <<"live", i>>
    BY <1>7
  <2>2. Live(i) = x /\ Live(i)'.pc = "marking"
    BY <1>3, <1>5, <2>1 DEF Live
  <2>3. \A h \in Job \ {i} : Live(h)' = Live(h) /\ j \notin Live(h).jobs
    BY <1>5, <1>6, <2>1, <2>2, Origins DEF Live, Places, OneLivePlace
  <2>4. ~Fresh(j) /\ j \notin settling /\ ~InWindow(j)
    BY <1>6, <2>2 DEF Places, OneLivePlace, FreshIsNowhere
  <2>5. LiveAhead(j)
    BY <1>1, <2>2 DEF LiveAhead
  <2>6. ~LiveAhead(j)'
    BY <1>1, <2>2, <2>3, <2>4 DEF LiveAhead, InWindow
  <2> QED BY <1>1, <1>6, <2>4, <2>5, <2>6 DEF MarkedAfterTelling
<1>8. CASE \E i \in Job : a = <<"replay", i>>
  <2>1. PICK i \in Job : a = <<"replay", i>>
    BY <1>8
  <2>2. Replayed(i) = x /\ Replayed(i)'.pc = "marking"
    BY <1>3, <1>5, <2>1 DEF Replayed
  <2>3. i = j
    BY <2>2 DEF Places, OneReplayPlace
  <2>4. ~Fresh(j) /\ j \in relisted \ listed
    BY <1>1, <1>6, <2>2, <2>3 DEF Places, OneReplayPlace, FreshIsNowhere
  <2>5. ReplayAhead(j) /\ ~ReplayAhead(j)'
    BY <1>1, <2>2, <2>3, <2>4 DEF ReplayAhead
  <2> QED BY <1>1, <1>6, <2>4, <2>5 DEF MarkedAfterTelling
<1> QED BY <1>7, <1>8, Origins

LEMMA TellingStep ==
  ASSUME IsFiniteSet(Job), Inv, ToldInTurn, [Next]_vars
  PROVE  ToldInTurn'
<1> USE CompletionsAssumption DEF memVars, replayVars, toldVars
<1> SUFFICES ASSUME NEW j \in Job PROVE Telling(j)'
  BY DEF ToldInTurn
<1>1. Telling(j) /\ told[j] \in Nat
  BY DEF ToldInTurn, Inv, Typed
<1>2. CASE UNCHANGED vars
  <2>1. /\ Fresh(j)' = Fresh(j) /\ LiveAhead(j)' = LiveAhead(j)
        /\ ReplayAhead(j)' = ReplayAhead(j)
    BY <1>2 DEF vars, Fresh, LiveAhead, ReplayAhead, InWindow, Live, Replayed
  <2> QED BY <1>1, <1>2, <2>1 DEF vars, Telling
<1>3. CASE Settle(j)
  <2>1. Fresh(j) /\ row'[j] = "terminal"
    BY <1>3 DEF Settle, Fresh, Inv, Typed
  <2>2. told'[j] = 0 /\ j \notin injected' /\ ~Fresh(j)'
    BY <1>1, <1>3, <2>1 DEF Settle, Telling, Fresh
  <2> QED BY <2>2 DEF Telling
<1>4. CASE ReplayList
  <2>1. relisted = {} /\ UNCHANGED <<row, told, injected, alive, settling, buffer, attempt>>
    BY <1>4 DEF ReplayList, Inv, Places, OneReplayPlace
  <2>2. Fresh(j)' = Fresh(j) /\ LiveAhead(j)' = LiveAhead(j)
    BY <2>1 DEF Fresh, LiveAhead, InWindow, Live
  <2>3. ReplayAhead(j)' => j \in relisted' \/ ReplayAhead(j)
    BY <1>4, <2>1 DEF ReplayList, ReplayAhead, Replayed
  <2>4. j \in relisted' => j \notin injected
    BY <1>4 DEF ReplayList
  <2> HIDE DEF Fresh, LiveAhead, ReplayAhead
  <2> QED BY <1>1, <2>1, <2>2, <2>3, <2>4 DEF Telling
<1>5. CASE Crash
  <2>1. told'[j] = 0 /\ UNCHANGED injected
    BY <1>5 DEF Crash
  <2>2. Fresh(j)' => Fresh(j)
    BY <1>5 DEF Crash, Fresh
  <2>3. \A i \in Job : Live(i)'.jobs = {} /\ Replayed(i)'.jobs = {}
    BY <1>5, Origins DEF Crash, Live, Replayed, NoAttempt
  <2>4. ~LiveAhead(j)' /\ ~ReplayAhead(j)'
    BY <1>5, <2>3, Windows DEF Crash, LiveAhead, ReplayAhead, InWindow
  <2> QED BY <1>1, <2>1, <2>2, <2>4 DEF Telling
<1>6. ASSUME NEW a \in Origin, Turn(a) PROVE Telling(j)'
  <2>1. /\ UNCHANGED <<row, injected, alive, relisted>>
        /\ told'[j] = told[j] + (IF j \in attempt[a].jobs THEN 1 ELSE 0)
    BY <1>6 DEF Turn
  <2>2. /\ LiveAhead(j)' => LiveAhead(j)
        /\ ReplayAhead(j)' => ReplayAhead(j)
    BY <1>6, AheadStep DEF Next, Dispatch, Settle, ReplayList, Turn, Inv, Typed
  <2>3. Fresh(j)' = Fresh(j)
    BY <2>1 DEF Fresh
  <2>4. CASE j \in attempt[a].jobs
    <3>1. /\ ~Fresh(j) /\ SessionOf[j] \in alive
          /\ \/ LiveAhead(j) /\ ~LiveAhead(j)'
             \/ ReplayAhead(j) /\ ~ReplayAhead(j)' /\ j \in relisted
      BY <1>6, <2>4, TurnAhead
    <3> HIDE DEF Fresh, LiveAhead, ReplayAhead
    <3> QED BY <1>1, <2>1, <2>2, <2>3, <2>4, <3>1 DEF Telling
  <2>5. CASE j \notin attempt[a].jobs
    <3> HIDE DEF Fresh, LiveAhead, ReplayAhead
    <3> QED BY <1>1, <2>1, <2>2, <2>3, <2>5 DEF Telling
  <2> QED BY <2>4, <2>5
<1>7. ASSUME NEW a \in Origin, NEW i \in Job, MarkInjected(a, i)
      PROVE  Telling(j)'
  <2>1. UNCHANGED <<row, alive, relisted, told>>
    BY <1>7 DEF MarkInjected
  <2>2. /\ LiveAhead(j)' => LiveAhead(j)
        /\ ReplayAhead(j)' => ReplayAhead(j)
    BY <1>7, AheadStep DEF Next, Dispatch, Settle, ReplayList, MarkInjected,
       Inv, Typed
  <2>3. Fresh(j)' = Fresh(j)
    BY <2>1 DEF Fresh
  <2>4. CASE j \in injected' /\ j \notin injected
    <3>1. attempt[a].pc = "marking" /\ j \in attempt[a].jobs
      BY <1>7, <2>4 DEF MarkInjected, Inv, DispatchesWellFormed, WellFormed
    <3>2. told[j] > 0 \/ SessionOf[j] \notin alive
      BY <3>1 DEF Inv, MarkedAfterTelling
    <3>3. ~Fresh(j)
      BY <3>1, Origins DEF Inv, Places, FreshIsNowhere, Live, Replayed
    <3> HIDE DEF Fresh, LiveAhead, ReplayAhead
    <3> QED BY <1>1, <2>1, <2>2, <2>3, <3>2, <3>3 DEF Telling
  <2>5. CASE ~(j \in injected' /\ j \notin injected)
    BY <2>1, <2>2, <2>3, <2>5, TellingKept
  <2> QED BY <2>4, <2>5
<1>8. ASSUME Next, ~Settle(j), ~ReplayList, UNCHANGED <<told, relisted>>,
             alive' \subseteq alive, injected' \subseteq injected,
             Fresh(j)' => Fresh(j)
      PROVE  Telling(j)'
  BY <1>8, AheadStep, TellingKept
<1>9. ASSUME NEW i \in Job, i # j, Settle(i) PROVE Telling(j)'
  <2>1. ~Settle(j) /\ ~ReplayList /\ (Fresh(j)' => Fresh(j))
    BY <1>9 DEF Settle, ReplayList, Fresh, Inv, Typed
  <2> QED BY <1>8, <1>9, <2>1 DEF Next, Settle
<1>10. ASSUME Next, UNCHANGED <<told, relisted, row>>,
              alive' \subseteq alive, injected' \subseteq injected
       PROVE  Telling(j)'
  <2>1. CASE ReplayList
    BY <1>4, <2>1
  <2>2. CASE ~ReplayList
    <3>1. ~Settle(j) /\ Fresh(j)' = Fresh(j)
      BY <1>10 DEF Settle, Inv, Typed, Fresh
    <3> QED BY <1>8, <1>10, <2>2, <3>1
  <2> QED BY <2>1, <2>2
<1>11. ASSUME NEW i \in Job,
              \/ JoinWindow(i) \/ OpenWindow(i) \/ DispatchAtOnce(i)
              \/ ReplayDispatch(i)
       PROVE  Telling(j)'
  BY <1>10, <1>11 DEF Next, JoinWindow, OpenWindow, DispatchAtOnce, ReplayDispatch
<1>12. ASSUME NEW i \in Job, Spawn(i) PROVE Telling(j)'
  <2>1. ~Settle(j) /\ ~ReplayList /\ (Fresh(j)' => Fresh(j))
    BY <1>12 DEF Spawn, Settle, ReplayList, Fresh, Inv, Typed
  <2> QED BY <1>8, <1>12, <2>1 DEF Next, Spawn
<1>13. ASSUME NEW s \in Session, Flush(s) \/ DeleteSession(s) PROVE Telling(j)'
  BY <1>10, <1>13 DEF Next, Flush, DeleteSession
<1>14. ASSUME NEW s \in Session, PurgeSession(s) PROVE Telling(j)'
  <2>1. ~Settle(j) /\ ~ReplayList /\ (Fresh(j)' => Fresh(j))
    BY <1>14 DEF PurgeSession, Settle, ReplayList, Fresh, Inv, Typed
  <2> QED BY <1>8, <1>14, <2>1 DEF Next, PurgeSession
<1>15. ASSUME NEW a \in Origin,
              \/ SkipGhost(a) \/ ClaimSingle(a) \/ PassGate(a) \/ SortOut(a)
              \/ \E i \in Job : ClaimBatch(a, i)
              \/ CloseUntold(a) \/ Defer(a) \/ Abandon(a) \/ EndAttempt(a)
       PROVE  Telling(j)'
  <2>1. UNCHANGED <<told, relisted, row, alive, injected>>
    BY <1>15 DEF SkipGhost, ClaimSingle, PassGate, SortOut, ClaimBatch,
       CloseUntold, Defer, Abandon, EndAttempt
  <2> QED BY <1>10, <1>15, <2>1 DEF Next, Dispatch
<1>16. CASE ReplayInterrupt
  <2>1. ~Settle(j) /\ ~ReplayList /\ (Fresh(j)' => Fresh(j))
    BY <1>16 DEF ReplayInterrupt, Settle, ReplayList, Fresh, Inv, Typed
  <2> QED BY <1>8, <1>16, <2>1 DEF Next, ReplayInterrupt
<1>17. CASE ReplayEnds
  BY <1>10, <1>17 DEF Next, ReplayEnds
<1> QED BY <1>2, <1>3, <1>4, <1>5, <1>6, <1>7, <1>9, <1>11, <1>12, <1>13, <1>14,
        <1>15, <1>16, <1>17 DEF Next, Dispatch

-----------------------------------------------------------------------------
(* Refinement: each step is one of Deliveries or leaves its state alone.   *)
LEMMA ResultCases ==
  ASSUME Inv, NEW j \in Job
  PROVE  /\ Results[j] = Result(j)
         /\ Result(j) = "working" <=> Fresh(j)
         /\ Result(j) = "told" <=>
              row[j] = "terminal" /\ j \notin injected /\ told[j] > 0
         /\ Result(j) = "owed" <=>
              row[j] = "terminal" /\ j \notin injected /\ told[j] = 0
         /\ Result(j) \in {"working", "closed", "told", "owed"}
BY DEF Results, Result, Fresh, Inv, Typed

LEMMA DeliveryInit == Init => Delivery!Init
BY DEF Init, Delivery!Init, Results, Result, Again

LEMMA DeliveryStep ==
  ASSUME IsFiniteSet(Job), Inv, ToldInTurn, [Next]_vars
  PROVE  [Delivery!Next]_<<Results, Again, alive>>
<1> USE DEF memVars, replayVars, toldVars
<1> DEFINE Goal == [Delivery!Next]_<<Results, Again, alive>>
<1> SUFFICES Goal
  BY DEF Goal
<1> HIDE DEF Goal
<1>1. ASSUME UNCHANGED <<row, injected, told, relisted, alive>> PROVE Goal
  BY <1>1 DEF Goal, Results, Result, Again
<1>2. ASSUME \A i \in Job : Result(i)' = Result(i), UNCHANGED <<told, relisted, alive>>
      PROVE  Goal
  BY <1>2 DEF Goal, Results, Again
<1>3. \A i \in Job : told[i] \in Nat /\ Telling(i)
  BY DEF Inv, Typed, ToldInTurn
<1>4. ASSUME NEW j \in Job, Spawn(j) PROVE Goal
  <2>1. \A i \in Job : Result(i)' = Result(i)
    BY <1>4 DEF Spawn, Result, Inv, Typed
  <2> QED BY <1>2, <1>4, <2>1 DEF Spawn
<1>5. ASSUME NEW j \in Job, Settle(j) PROVE Goal
  <2>1. Fresh(j) /\ told[j] = 0 /\ j \notin injected
    BY <1>3, <1>5 DEF Settle, Telling, Fresh
  <2>2. /\ row' = [row EXCEPT ![j] = "terminal"]
        /\ UNCHANGED <<injected, told, relisted, alive>>
    BY <1>5 DEF Settle
  <2>3. /\ Result(j)' = "owed"
        /\ \A i \in Job \ {j} : Result(i)' = Result(i)
    BY <2>1, <2>2 DEF Result, Inv, Typed
  <2>4. Results' = [Results EXCEPT ![j] = "owed"]
    BY <2>3 DEF Results
  <2>5. Results[j] = "working" /\ UNCHANGED <<Again, alive>>
    BY <2>1, <2>2, ResultCases DEF Again
  <2>6. Delivery!Owe(j)
    BY <2>4, <2>5 DEF Delivery!Owe
  <2> QED BY <2>6 DEF Delivery!Next, Goal
<1>6. ASSUME NEW a \in Origin, Turn(a) PROVE Goal
  <2> DEFINE J == attempt[a].jobs
  <2>1. /\ J \subseteq Job /\ J # {}
        /\ \A i, j \in J : SessionOf[i] = SessionOf[j]
    BY <1>6 DEF Inv, Typed, AttemptRecord, DispatchesWellFormed, WellFormed,
       Turn, Injecting
  <2>2. /\ told' = [j \in Job |-> told[j] + (IF j \in J THEN 1 ELSE 0)]
        /\ UNCHANGED <<row, injected, relisted, alive>>
    BY <1>6 DEF Turn
  <2>3. \A j \in J : /\ ~Fresh(j) /\ row[j] # "gone" /\ SessionOf[j] \in alive
                     /\ LiveAhead(j) \/ (ReplayAhead(j) /\ j \in relisted)
    <3> HIDE DEF LiveAhead, ReplayAhead, Fresh
    <3> SUFFICES ASSUME NEW j \in attempt[a].jobs
                 PROVE  /\ ~Fresh(j) /\ row[j] # "gone" /\ SessionOf[j] \in alive
                        /\ LiveAhead(j) \/ (ReplayAhead(j) /\ j \in relisted)
      OBVIOUS
    <3> QED BY <1>6, TurnAhead
  <2> HIDE DEF J
  <2>4. \A j \in J : Result(j) # "owed" => told[j] = 1 /\ j \in relisted
    <3> SUFFICES ASSUME NEW j \in J, Result(j) # "owed"
                 PROVE  told[j] = 1 /\ j \in relisted
      OBVIOUS
    <3>1. j \in Job /\ told[j] \in Nat /\ Telling(j)
      BY <1>3, <2>1
    <3>2. row[j] = "terminal"
      BY <2>3, <3>1 DEF Fresh, Inv, Typed
    <3>3. told[j] > 0 \/ j \in injected
      BY <3>1, <3>2, ResultCases
    <3> HIDE DEF LiveAhead, ReplayAhead, Fresh
    <3>4. told[j] > 0
      BY <2>3, <3>1, <3>3 DEF Telling
    <3> QED BY <2>3, <3>1, <3>4 DEF Telling
  <2> DEFINE repeated == {j \in J : Results[j] # "owed"}
  <2>5. repeated = {j \in J : Result(j) # "owed"}
    BY <2>1, ResultCases
  <2>6. repeated \subseteq Again
    BY <2>4, <2>5 DEF Again
  <2>7. \A j \in Job : Result(j)' = IF j \in J \ repeated THEN "told" ELSE Result(j)
    <3> SUFFICES ASSUME NEW j \in Job
                 PROVE  Result(j)' = IF j \in J \ repeated THEN "told" ELSE Result(j)
      OBVIOUS
    <3>1. CASE j \notin J
      BY <1>3, <2>2, <3>1 DEF Result
    <3>2. CASE j \in J /\ Result(j) = "owed"
      <4>1. row[j] = "terminal" /\ j \notin injected /\ told'[j] = 1
        BY <1>3, <2>2, <3>2, ResultCases
      <4> QED BY <2>2, <2>5, <3>2, <4>1 DEF Result
    <3>3. CASE j \in J /\ Result(j) # "owed"
      <4>1. told[j] > 0 /\ told'[j] > 0
        BY <2>2, <2>4, <3>3
      <4> QED BY <2>2, <2>5, <3>3, <4>1 DEF Result
    <3> QED BY <3>1, <3>2, <3>3
  <2>8. Results' = [j \in Job |-> IF j \in J \ repeated THEN "told" ELSE Results[j]]
    <3>1. Results' = [j \in Job |-> Result(j)']
      BY DEF Results
    <3>2. \A j \in Job : Result(j)' = IF j \in J \ repeated THEN "told" ELSE Results[j]
      BY <2>7, ResultCases
    <3> HIDE DEF repeated
    <3> QED BY <3>1, <3>2
  <2>9. Again' = Again \ repeated
    <3>1. relisted \subseteq Job
      BY DEF Inv, Typed
    <3>2. \A j \in relisted : told'[j] < 2 <=> told[j] < 2 /\ j \notin repeated
      <4> SUFFICES ASSUME NEW j \in relisted
                   PROVE  told'[j] < 2 <=> told[j] < 2 /\ j \notin repeated
        OBVIOUS
      <4>1. CASE j \in J /\ Result(j) = "owed"
        <5>1. told[j] = 0 /\ told'[j] = 1
          BY <1>3, <2>2, <3>1, <4>1, ResultCases
        <5> QED BY <2>5, <4>1, <5>1
      <4>2. CASE j \in J /\ Result(j) # "owed"
        <5>1. told[j] = 1 /\ told'[j] = 2
          BY <2>2, <2>4, <3>1, <4>2
        <5> QED BY <2>5, <4>2, <5>1
      <4>3. CASE j \notin J
        BY <1>3, <2>2, <3>1, <4>3
      <4> QED BY <4>1, <4>2, <4>3
    <3> HIDE DEF repeated
    <3> QED BY <2>2, <3>1, <3>2 DEF Again
  <2>10. \A j \in J : Results[j] # "working"
    BY <2>1, <2>3, ResultCases
  <2>11. Delivery!Tell(J)
    BY <2>1, <2>2, <2>3, <2>6, <2>8, <2>9, <2>10 DEF Delivery!Tell
  <2> QED BY <2>1, <2>11 DEF Delivery!Next, Goal
<1>7. ASSUME NEW a \in Origin, NEW j \in Job, MarkInjected(a, j) PROVE Goal
  <2>1. /\ UNCHANGED <<row, told, relisted, alive>>
        /\ attempt[a].pc = "marking" /\ j \in attempt[a].jobs
    BY <1>7 DEF MarkInjected, Inv, DispatchesWellFormed, WellFormed
  <2>2. /\ told[j] > 0 \/ SessionOf[j] \notin alive
        /\ ~Fresh(j)
    BY <2>1, Origins DEF Inv, MarkedAfterTelling, Places, FreshIsNowhere, Live,
       Replayed
  <2>3. injected' = injected \/ (row[j] # "gone" /\ injected' = injected \cup {j})
    BY <1>7 DEF MarkInjected
  <2>4. CASE injected' = injected \/ Result(j) = "closed"
    <3>1. \A i \in Job : Result(i)' = Result(i)
      BY <2>1, <2>2, <2>3, <2>4 DEF Result
    <3> QED BY <1>2, <2>1, <3>1
  <2>5. CASE injected' = injected \cup {j} /\ Result(j) # "closed"
    <3>1. /\ Result(j)' = "closed"
          /\ \A i \in Job \ {j} : Result(i)' = Result(i)
      BY <2>1, <2>2, <2>5 DEF Result, Fresh
    <3>2. Results' = [Results EXCEPT ![j] = "closed"]
      BY <3>1 DEF Results
    <3>3. UNCHANGED <<Again, alive>>
      BY <2>1 DEF Again
    <3>4. Results[j] = Result(j) /\ Result(j) \in {"told", "owed"}
      BY <2>2, <2>5, ResultCases
    <3>5. \/ Results[j] = "told"
          \/ Results[j] = "owed" /\ SessionOf[j] \notin alive
      <4>1. Result(j) = "owed" => told[j] = 0
        BY ResultCases
      <4> QED BY <2>2, <3>4, <4>1
    <3>6. Delivery!Close(j)
      BY <3>2, <3>3, <3>5 DEF Delivery!Close
    <3> QED BY <3>6 DEF Delivery!Next, Goal
  <2> QED BY <2>3, <2>4, <2>5
<1>8. ASSUME NEW s \in Session, DeleteSession(s) PROVE Goal
  <2>1. /\ alive' = alive \ {s} /\ UNCHANGED <<row, injected, told, relisted>>
    BY <1>8 DEF DeleteSession
  <2>2. Delivery!Leave(s)
    BY <2>1 DEF Delivery!Leave, Results, Result, Again
  <2> QED BY <2>2 DEF Delivery!Next, Goal
<1>9. ASSUME NEW s \in Session, PurgeSession(s) PROVE Goal
  <2> DEFINE J == {j \in Job : SessionOf[j] = s /\ row[j] # "none"}
  <2>1. /\ s \notin alive /\ UNCHANGED <<told, relisted, alive>>
        /\ row' = [j \in Job |-> IF j \in J THEN "gone" ELSE row[j]]
        /\ injected' = {j \in injected : SessionOf[j] # s}
    BY <1>9 DEF PurgeSession
  <2>2. \A j \in Job : Result(j)' = IF j \in J THEN "closed" ELSE Result(j)
    BY <2>1 DEF Result
  <2>3. Results' = [j \in Job |-> IF j \in J THEN "closed" ELSE Results[j]]
    <3>1. Results' = [j \in Job |-> Result(j)']
      BY DEF Results
    <3>2. \A j \in Job : Result(j)' = IF j \in J THEN "closed" ELSE Results[j]
      BY <2>2, ResultCases
    <3> HIDE DEF J
    <3> QED BY <3>1, <3>2
  <2>4. \A j \in Job \ J : SessionOf[j] = s => Results[j] = "working"
    BY ResultCases DEF Fresh
  <2>5. J \in SUBSET {j \in Job : SessionOf[j] = s}
    OBVIOUS
  <2> HIDE DEF J
  <2>6. UNCHANGED <<Again, alive>>
    BY <2>1 DEF Again
  <2>7. Delivery!Burn(s)
    BY <2>1, <2>3, <2>4, <2>5, <2>6 DEF Delivery!Burn
  <2> QED BY <2>7 DEF Delivery!Next, Goal
<1>10. CASE Crash
  <2>1. /\ told' = [j \in Job |-> 0] /\ relisted' = {} /\ UNCHANGED <<injected, alive>>
        /\ row' = [j \in Job |-> IF row[j] = "active" THEN "left" ELSE row[j]]
    BY <1>10 DEF Crash
  <2>2. \A j \in Job : Result(j)' = IF Result(j) = "told" THEN "owed" ELSE Result(j)
    BY <2>1 DEF Result
  <2>3. \A j \in Job : Result(j)' = IF Results[j] = "told" THEN "owed" ELSE Results[j]
    BY <2>2, ResultCases
  <2>4. Results' = [j \in Job |-> IF Results[j] = "told" THEN "owed" ELSE Results[j]]
    BY <2>3 DEF Results
  <2>5. Again' = {}
    BY <2>1 DEF Again
  <2>6. Delivery!Restart
    BY <2>1, <2>4, <2>5 DEF Delivery!Restart
  <2> QED BY <2>6 DEF Delivery!Next, Goal
<1>11. CASE ReplayInterrupt
  <2> DEFINE J == {j \in Job : row[j] \in {"active", "left"}}
  <2>1. /\ UNCHANGED <<injected, told, relisted, alive>>
        /\ row' = [j \in Job |-> IF j \in J THEN "terminal" ELSE row[j]]
    BY <1>11 DEF ReplayInterrupt
  <2>2. \A j \in J : Fresh(j) /\ told[j] = 0 /\ j \notin injected
    BY <1>3 DEF Telling, Fresh
  <2>3. \A j \in Job : Result(j)' = IF j \in J THEN "owed" ELSE Result(j)
    BY <2>1, <2>2 DEF Result
  <2>4. Results' = [j \in Job |-> IF j \in J THEN "owed" ELSE Results[j]]
    <3>1. Results' = [j \in Job |-> Result(j)']
      BY DEF Results
    <3>2. \A j \in Job : Result(j)' = IF j \in J THEN "owed" ELSE Results[j]
      BY <2>3, ResultCases
    <3> HIDE DEF J
    <3> QED BY <3>1, <3>2
  <2>5. J \in SUBSET {j \in Job : Results[j] = "working"}
    BY <2>2, ResultCases
  <2> HIDE DEF J
  <2>6. UNCHANGED <<Again, alive>>
    BY <2>1 DEF Again
  <2>7. Delivery!Interrupt
    BY <2>4, <2>5, <2>6 DEF Delivery!Interrupt
  <2> QED BY <2>7 DEF Delivery!Next, Goal
<1>12. CASE ReplayList
  <2>1. /\ UNCHANGED <<row, injected, told, alive>> /\ relisted = {}
        /\ relisted' = {j \in Job : row[j] = "terminal" /\ j \notin injected}
    BY <1>12 DEF ReplayList, Inv, Places, OneReplayPlace
  <2>2. \A j \in Job : told[j] < 2
    BY <1>3, <2>1 DEF Telling
  <2>3. \A j \in Job : Results[j] \in {"owed", "told"} <=>
                       row[j] = "terminal" /\ j \notin injected
    BY <1>3, ResultCases
  <2>4. Again' = {j \in Job : Results[j] \in {"owed", "told"}}
    BY <2>1, <2>2, <2>3 DEF Again
  <2>5. UNCHANGED <<Results, alive>>
    BY <2>1 DEF Results, Result
  <2>6. Delivery!Relist
    BY <2>4, <2>5 DEF Delivery!Relist
  <2> QED BY <2>6 DEF Delivery!Next, Goal
<1>13. ASSUME NEW a \in Origin,
              \/ SkipGhost(a) \/ ClaimSingle(a) \/ PassGate(a) \/ SortOut(a)
              \/ \E j \in Job : ClaimBatch(a, j)
              \/ CloseUntold(a) \/ Defer(a) \/ Abandon(a) \/ EndAttempt(a)
       PROVE  UNCHANGED <<row, injected, told, relisted, alive>>
  BY <1>13 DEF SkipGhost, ClaimSingle, PassGate, SortOut, ClaimBatch,
     CloseUntold, Defer, Abandon, EndAttempt
<1>14. ASSUME NEW j \in Job,
              \/ JoinWindow(j) \/ OpenWindow(j) \/ DispatchAtOnce(j)
              \/ ReplayDispatch(j)
       PROVE  UNCHANGED <<row, injected, told, relisted, alive>>
  BY <1>14 DEF JoinWindow, OpenWindow, DispatchAtOnce, ReplayDispatch
<1>15. ASSUME ReplayEnds \/ UNCHANGED vars \/ \E s \in Session : Flush(s)
       PROVE  UNCHANGED <<row, injected, told, relisted, alive>>
  BY <1>15 DEF ReplayEnds, Flush, vars
<1>16. ASSUME NEW a \in Origin, Dispatch(a) PROVE Goal
  <2>1. CASE \E j \in Job : MarkInjected(a, j)
    BY <1>7, <2>1
  <2>2. CASE Turn(a)
    BY <1>6, <2>2
  <2>3. CASE ~Turn(a) /\ ~\E j \in Job : MarkInjected(a, j)
    BY <1>1, <1>13, <1>16, <2>3 DEF Dispatch
  <2> QED BY <2>1, <2>2, <2>3
<1>17. ASSUME NEW j \in Job,
              \/ Spawn(j) \/ Settle(j) \/ JoinWindow(j)
              \/ OpenWindow(j) \/ DispatchAtOnce(j) \/ ReplayDispatch(j)
       PROVE  Goal
  BY <1>1, <1>4, <1>5, <1>14, <1>17
<1>18. ASSUME NEW s \in Session, Flush(s) \/ DeleteSession(s) \/ PurgeSession(s)
       PROVE  Goal
  BY <1>1, <1>8, <1>9, <1>15, <1>18
<1>19. CASE Next
  <2>1. CASE \E j \in Job : \/ Spawn(j) \/ Settle(j) \/ JoinWindow(j)
                            \/ OpenWindow(j) \/ DispatchAtOnce(j)
                            \/ ReplayDispatch(j)
    BY <1>17, <2>1
  <2>2. CASE \E s \in Session : Flush(s) \/ DeleteSession(s) \/ PurgeSession(s)
    BY <1>18, <2>2
  <2>3. CASE \E a \in Origin : Dispatch(a)
    BY <1>16, <2>3
  <2>4. CASE ReplayEnds
    BY <1>1, <1>15, <2>4
  <2> QED BY <1>10, <1>11, <1>12, <1>19, <2>1, <2>2, <2>3, <2>4 DEF Next
<1>20. CASE UNCHANGED vars
  BY <1>1, <1>20 DEF vars
<1> QED BY <1>19, <1>20

(* Completions implements Deliveries for any finite set of jobs, however   *)
(* windows, claims, purges, crashes and replays fall: a result is told in  *)
(* turns of its session only, closed only after that or when the session   *)
(* is gone, and told again only after a restart.                           *)
THEOREM DeliversAsPromised ==
  ASSUME IsFiniteSet(Job) PROVE Spec => ImplementsDelivery
<1>1. Init => Inv /\ ToldInTurn
  BY TypedInit, WellFormedInit, PlacesInit, ClaimantsInit, WindowsKeptInit,
     MarkedInit, DroppedInit, TellingInit DEF Inv
<1>2. Inv /\ ToldInTurn /\ [Next]_vars => ToldInTurn'
  BY TellingStep
<1>3. Inv /\ ToldInTurn /\ [Next]_vars => [Delivery!Next]_<<Results, Again, alive>>
  BY DeliveryStep
<1>4. Spec => []Inv
  BY Invariance
<1> QED BY <1>1, <1>2, <1>3, <1>4, DeliveryInit, PTL
        DEF Spec, ImplementsDelivery, Delivery!Spec

(* How often the parent hears of a job.                                    *)
LEMMA TellingInvariant == ASSUME IsFiniteSet(Job) PROVE Spec => []ToldInTurn
<1>1. Init => ToldInTurn
  BY TellingInit
<1>2. Inv /\ ToldInTurn /\ [Next]_vars => ToldInTurn'
  BY TellingStep
<1> QED BY <1>1, <1>2, Invariance, PTL DEF Spec

(* A process tells a result at most twice, and twice only when its replay  *)
(* listed it: the claims keep every other pair of dispatches apart         *)
(* (try_claim_dispatch, replay_pending_jobs).                              *)
THEOREM RetoldByReplayOnly ==
  ASSUME IsFiniteSet(Job)
  PROVE  Spec => [](\A j \in Job :
                      told[j] <= 2 /\ (told[j] = 2 => j \in relisted))
<1>1. Inv /\ ToldInTurn =>
        \A j \in Job : told[j] <= 2 /\ (told[j] = 2 => j \in relisted)
  <2> SUFFICES ASSUME Inv, ToldInTurn, NEW j \in Job
               PROVE  told[j] <= 2 /\ (told[j] = 2 => j \in relisted)
    OBVIOUS
  <2>1. told[j] \in Nat
    BY DEF Inv, Typed
  <2>2. told[j] <= (IF j \in relisted THEN 2 ELSE 1)
    BY DEF ToldInTurn, Telling
  <2> QED BY <2>1, <2>2
<1> QED BY <1>1, Invariance, TellingInvariant, PTL

(* So what the documentation promises, one injection per job, holds of a   *)
(* process that never restarts: only the replay of a restart breaks it.    *)
THEOREM ToldOnceWithoutRestart ==
  ASSUME IsFiniteSet(Job), MaxCrashes = 0 PROVE Spec => []ToldOnce
<1> DEFINE NoReplay == /\ crashes \in 0 .. MaxCrashes
                       /\ replay = "done" /\ relisted = {}
<1>1. Init => NoReplay
  BY CompletionsAssumption DEF Init
<1>2. NoReplay /\ [Next]_vars => NoReplay'
  <2> SUFFICES ASSUME NoReplay, [Next]_vars PROVE NoReplay'
    OBVIOUS
  <2>1. ~Crash /\ ~ReplayInterrupt /\ ~ReplayList /\ ~ReplayEnds
    BY DEF Crash, ReplayInterrupt, ReplayList, ReplayEnds
  <2>2. ASSUME NEW a \in Origin, Dispatch(a)
        PROVE  UNCHANGED <<crashes, replay, relisted>>
    BY <2>2 DEF Dispatch, SkipGhost, ClaimSingle, PassGate, SortOut, ClaimBatch,
       MarkInjected, Turn, CloseUntold, Defer, Abandon, EndAttempt, replayVars
  <2>3. ASSUME NEW j \in Job,
               \/ Spawn(j) \/ Settle(j) \/ JoinWindow(j) \/ OpenWindow(j)
               \/ DispatchAtOnce(j) \/ ReplayDispatch(j)
        PROVE  UNCHANGED <<crashes, replay, relisted>>
    BY <2>3 DEF Spawn, Settle, JoinWindow, OpenWindow, DispatchAtOnce,
       ReplayDispatch, replayVars
  <2>4. ASSUME NEW s \in Session,
               Flush(s) \/ DeleteSession(s) \/ PurgeSession(s)
        PROVE  UNCHANGED <<crashes, replay, relisted>>
    BY <2>4 DEF Flush, DeleteSession, PurgeSession, replayVars
  <2>5. CASE UNCHANGED vars
    BY <2>5 DEF vars, replayVars
  <2> QED BY <2>1, <2>2, <2>3, <2>4, <2>5 DEF Next
<1>3. Inv /\ ToldInTurn /\ NoReplay => ToldOnce
  BY DEF ToldInTurn, Telling, ToldOnce
<1> QED BY <1>1, <1>2, <1>3, Invariance, TellingInvariant, PTL DEF Spec
================================================================================

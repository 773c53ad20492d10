------------------------- MODULE AutoBackgroundProofs -------------------------
(***************************************************************************)
(* The handover of a tool call from its caller to a background job, for    *)
(* any set of calls: whoever comes second finds it complete, and the       *)
(* result of a call goes exactly one way.                                  *)
(***************************************************************************)
EXTENDS AutoBackground, FiniteSetTheorems, TLAPS

-----------------------------------------------------------------------------
(* Type correctness.                                                       *)

(* A guarded UPDATE maps a row to a row.                                   *)
LEMMA RowTypes ==
  ASSUME NEW row \in Row, NEW st \in Terminal
  PROVE  /\ Settle(row, st) \in Row /\ RequestCancel(row) \in Row
         /\ MarkCancelling(row) \in Row
         /\ MarkInjected(row) \in Row
BY DEF Settle, CanSettle, RequestCancel, MarkCancelling, CanMarkCancelling,
       MarkInjected, Row, Status, Terminal, Active

(* The worker has ended the tool before it settles a row.                  *)
VerdictKnown ==
  \A c \in Call : worker[c] \notin {"start", "run"} => verdict[c] # "none"

Typed == TypeOK /\ VerdictKnown

(* The initial state is typed.                                             *)
LEMMA TypedInit == Init => Typed
BY DEF Init, Typed, TypeOK, VerdictKnown, Phase, NoRow, Row, Status

(* Steps of the worker thread and the end of its tool keep the types.      *)
LEMMA TypedWorker ==
  ASSUME Typed, NEW c \in Call, WorkerStep(c) \/ ToolEnds(c)
  PROVE  Typed'
<1> USE DEF Typed, TypeOK, VerdictKnown, Phase, SetPhase, Work, awaiterVars,
            jobVars
<1>1. CASE BuildFails(c)
  BY <1>1 DEF BuildFails
<1>2. CASE StartTool(c) \/ ToolEnds(c)
  BY <1>2 DEF StartTool, ToolEnds
<1>3. CASE Publish(c)
  BY <1>3 DEF Publish
<1>4. CASE FinalizeRow(c)
  <2>1. verdict[c] \in Terminal
    BY <1>4 DEF FinalizeRow, Terminal
  <2>2. Settle(rows[c], verdict[c]) \in Row
    BY <2>1, RowTypes
  <2> QED BY <1>4, <2>2 DEF FinalizeRow
<1>5. CASE FinalizeToken(c)
  BY <1>5 DEF FinalizeToken
<1>6. CASE WorkerExits(c)
  BY <1>6 DEF WorkerExits
<1> QED BY <1>1, <1>2, <1>3, <1>4, <1>5, <1>6 DEF WorkerStep

(* So do the steps of the caller and its disappearance.                    *)
LEMMA TypedAwaiter ==
  ASSUME Typed, NEW c \in Call, AwaiterStep(c) \/ DropCall(c) \/ StopTurn(c)
  PROVE  Typed'
<1> USE DEF Typed, TypeOK, VerdictKnown, Phase, SetPhase, Await, Return,
            workerVars, awaiterVars, jobVars
<1>1. CASE TakeInline(c) \/ BudgetOver(c)
  BY <1>1 DEF TakeInline, BudgetOver
<1>5. CASE Select(c) \/ Notified(c)
  BY <1>5 DEF Select, Notified
<1>2. CASE NoDatabase(c) \/ InsertFails(c)
  BY <1>2 DEF NoDatabase, InsertFails
<1>9. CASE RegisterToken(c)
  BY <1>9 DEF RegisterToken
<1>10. CASE Rollback(c)
  BY <1>10 DEF Rollback
<1>3. CASE InsertRow(c)
  <2>1. NewRow("running") \in Row
    BY DEF NewRow, NoRow, Row, Status, Active
  <2> QED BY <1>3, <2>1 DEF InsertRow
<1>4. CASE CommitDetach(c)
  BY <1>4 DEF CommitDetach
<1>6. CASE ReserveForced(c)
  BY <1>6 DEF ReserveForced
<1>7. CASE DropCall(c)
  BY <1>7 DEF DropCall
<1>8. CASE StopTurn(c)
  BY <1>8 DEF StopTurn
<1> QED BY <1>1, <1>2, <1>3, <1>4, <1>5, <1>6, <1>7, <1>8, <1>9, <1>10
        DEF AwaiterStep

(* So do the steps of a cancel call.                                       *)
LEMMA TypedCancel ==
  ASSUME Typed, NEW c \in Call, BeginCancel(c) \/ CancelStep(c)
  PROVE  Typed'
<1> USE DEF Typed, TypeOK, VerdictKnown, CancelGoto, workerVars, awaiterVars
<1>0. "cancelled" \in Terminal
  BY DEF Terminal
<1>1. /\ RequestCancel(rows[c]) \in Row /\ MarkCancelling(rows[c]) \in Row
      /\ Settle(rows[c], "cancelled") \in Row /\ MarkInjected(rows[c]) \in Row
  BY <1>0, RowTypes
<1>2. CASE BeginCancel(c)
  BY <1>2 DEF BeginCancel
<1>3. CASE CancelTrip(c)
  BY <1>1, <1>3 DEF CancelTrip
<1>4. CASE CancelMark(c)
  BY <1>1, <1>4 DEF CancelMark
<1>5. CASE CancelSettle(c)
  BY <1>1, <1>5 DEF CancelSettle
<1>6. CASE CancelAnnounce(c)
  BY <1>1, <1>6 DEF CancelAnnounce
<1> QED BY <1>2, <1>3, <1>4, <1>5, <1>6 DEF CancelStep

(* Every step keeps the types.                                             *)
LEMMA TypedStep == Typed /\ [Next]_vars => Typed'
<1> SUFFICES ASSUME Typed, [Next]_vars PROVE Typed'
  OBVIOUS
<1>1. CASE UNCHANGED vars
  BY <1>1 DEF vars, awaiterVars, workerVars, jobVars, Typed, TypeOK,
              VerdictKnown
<1>2. CASE Next
  BY <1>2, TypedWorker, TypedAwaiter, TypedCancel DEF Next
<1> QED BY <1>1, <1>2

-----------------------------------------------------------------------------
(* The inductive invariant: what the two threads and the job tables hold   *)
(* of a call, by where its caller is.                                      *)

Early(c) == worker[c] \in {"start", "run", "publish"}

Late(c) == worker[c] \in {"exit", "gone"}

(* No trace of the call as a job yet, or no more.                          *)
NoJob(c) == rows[c] = NoRow /\ ~registered[c] /\ ~box[c]

(* The caller still wants the result, or is no longer there to take it.    *)
Awaited(c) ==
  awaiter[c] \in {"check", "select", "dropped"} =>
    /\ NoJob(c) /\ answer[c] = "none"
    /\ \/ Early(c) /\ phase[c] = "Pending"
       \/ Late(c) /\ phase[c] = "ResultReady"

(* The caller holds the lock: the worker cannot have published.            *)
Detaching(c) ==
  Locked(c) =>
    /\ Early(c) /\ answer[c] = "none" /\ ~box[c]
    /\ phase[c] = (IF awaiter[c] = "slot" THEN "DetachedRunning" ELSE "Pending")
    /\ registered[c] <=> awaiter[c] # "register"
    /\ IF awaiter[c] \in {"register", "insert"} THEN rows[c] = NoRow
                                                ELSE rows[c].status # "absent"

RollingBack(c) ==
  awaiter[c] = "rollback" =>
    /\ rows[c] = NoRow /\ ~box[c] /\ answer[c] = "none"
    /\ Early(c) \/ Late(c)
    /\ phase[c] \in {"Consumed", "ResultReady"}

Answered(c) ==
  awaiter[c] = "returned" =>
    \/ answer[c] = "inline" /\ NoJob(c) /\ Late(c) /\ phase[c] = "Consumed"
    \/ answer[c] = "error" /\ NoJob(c) /\ (Early(c) \/ Late(c))
       /\ phase[c] \in {"Consumed", "ResultReady"}
    \/ answer[c] = "started"

(* The call is a job: its worker settles the row before it gives up the    *)
(* token, unless its runtime never came up.                                *)
Detached(c) ==
  answer[c] = "started" =>
    /\ awaiter[c] = "returned"
    /\ rows[c].status # "absent"
    /\ box[c] <=> worker[c] # "gone"
    /\ \/ Early(c) /\ phase[c] = "DetachedRunning" /\ registered[c]
       \/ worker[c] = "finalize" /\ phase[c] = "DetachedDone" /\ registered[c]
       \/ worker[c] = "token" /\ rows[c].status \in Terminal /\ registered[c]
          /\ phase[c] = "DetachedDone"
       \/ Late(c) /\ phase[c] = "DetachedDone" /\ rows[c].status \in Terminal
       \/ Late(c) /\ BuildFaults /\ phase[c] = "ResultReady" /\ registered[c]
          /\ verdict[c] = "failed"

(* A cancel call knows a row, and finds no token only when it is settled.  *)
CancelKnows(c) ==
  /\ canc[c] # "idle" => rows[c].status # "absent"
  /\ canc[c] \in {"unsignalled", "announce"} => rows[c].status \in Terminal
  /\ canc[c] # "force"

CallInv(c) ==
  Awaited(c) /\ Detaching(c) /\ RollingBack(c) /\ Answered(c) /\ Detached(c)
    /\ CancelKnows(c)

Handover == Typed /\ \A c \in Call : CallInv(c)

(* The handover invariant holds before any call began.                     *)
LEMMA HandoverInit == Init => Handover
<1> SUFFICES ASSUME Init PROVE Handover
  OBVIOUS
<1>1. Typed
  BY TypedInit
<1>2. ASSUME NEW c \in Call PROVE CallInv(c)
  BY DEF Init, CallInv, Awaited, Detaching, RollingBack, Answered, Detached,
         CancelKnows, NoJob, Early, Late, Locked
<1> QED BY <1>1, <1>2 DEF Handover

(* What a step leaves alone of a call keeps its invariant.                 *)
Untouched(d) ==
  /\ phase'[d] = phase[d] /\ awaiter'[d] = awaiter[d]
  /\ worker'[d] = worker[d] /\ rows'[d] = rows[d]
  /\ registered'[d] = registered[d] /\ box'[d] = box[d]
  /\ answer'[d] = answer[d] /\ canc'[d] = canc[d]
  /\ verdict'[d] = verdict[d]

(* The invariant of a call depends on the state of that call alone.        *)
LEMMA UntouchedKept ==
  ASSUME NEW d \in Call, CallInv(d), Untouched(d)
  PROVE  CallInv(d)'
BY DEF Untouched, CallInv, Awaited, Detaching, RollingBack, Answered, Detached,
       CancelKnows, NoJob, Early, Late, Locked

(* A step of one call leaves the others alone.                             *)
LEMMA OthersUntouched ==
  ASSUME Typed, NEW c \in Call, NEW d \in Call, d # c,
         \/ WorkerStep(c) \/ ToolEnds(c) \/ AwaiterStep(c) \/ DropCall(c)
         \/ StopTurn(c) \/ BeginCancel(c) \/ CancelStep(c)
  PROVE  Untouched(d)
<1> USE DEF Typed, TypeOK, Untouched, SetPhase, Await, Work, Return, CancelGoto,
            workerVars, awaiterVars, jobVars
<1>1. CASE WorkerStep(c) \/ ToolEnds(c)
  BY <1>1 DEF WorkerStep, ToolEnds, BuildFails, StartTool, Publish, FinalizeRow,
              FinalizeToken, WorkerExits
<1>2. CASE TakeInline(c) \/ Select(c) \/ Notified(c) \/ BudgetOver(c)
  BY <1>2 DEF TakeInline, Select, Notified, BudgetOver
<1>3. CASE NoDatabase(c) \/ RegisterToken(c) \/ InsertRow(c) \/ InsertFails(c)
  BY <1>3 DEF NoDatabase, RegisterToken, InsertRow, InsertFails
<1>4. CASE Rollback(c) \/ CommitDetach(c) \/ ReserveForced(c) \/ DropCall(c)
  BY <1>4 DEF Rollback, CommitDetach, ReserveForced, DropCall
<1>5. CASE StopTurn(c) \/ BeginCancel(c) \/ CancelStep(c)
  BY <1>5 DEF StopTurn, BeginCancel, CancelStep, CancelTrip, CancelMark,
              CancelSettle, CancelAnnounce
<1> QED BY <1>1, <1>2, <1>3, <1>4, <1>5 DEF AwaiterStep

(* What the UPDATE statements make of a row that is there.                 *)
LEMMA RowSettles ==
  ASSUME NEW row \in Row, row.status # "absent", NEW st \in Terminal
  PROVE  /\ Settle(row, st).status \in Terminal
         /\ MarkInjected(row).status = row.status
BY DEF Settle, CanSettle, MarkInjected, Row, Status, Terminal, Active

(* set_cancel_requested leaves the status of a row alone.                  *)
LEMMA RequestKeeps ==
  ASSUME NEW row \in Row, row.status # "absent"
  PROVE  RequestCancel(row).status = row.status
BY DEF RequestCancel, Row, Status, Terminal, Active

(* mark_cancelling neither settles a row nor reopens one.                  *)
LEMMA MarkKeeps ==
  ASSUME NEW row \in Row, row.status # "absent"
  PROVE  /\ MarkCancelling(row).status # "absent"
         /\ row.status \in Terminal <=> MarkCancelling(row).status \in Terminal
         /\ CanMarkCancelling(row) => row.status \notin Terminal
BY DEF MarkCancelling, CanMarkCancelling, Row, Status, Terminal, Active

(* What the worker thread does keeps the invariant of its call.            *)
LEMMA WorkerKeeps ==
  ASSUME Typed, NEW c \in Call, CallInv(c), WorkerStep(c) \/ ToolEnds(c)
  PROVE  CallInv(c)'
<1> USE DEF Typed, TypeOK, CallInv, Awaited, Detaching, RollingBack, Answered,
            Detached, CancelKnows, NoJob, Early, Late, Locked, SetPhase, Work,
            awaiterVars, jobVars
<1>1. CASE BuildFails(c)
  BY <1>1 DEF BuildFails
<1>2. CASE StartTool(c) \/ ToolEnds(c)
  BY <1>2 DEF StartTool, ToolEnds
<1>3. CASE Publish(c)
  BY <1>3 DEF Publish
<1>4. CASE FinalizeRow(c)
  <2>1. verdict[c] \in Terminal
    BY <1>4 DEF FinalizeRow, Terminal, VerdictKnown
  <2>2. rows[c].status # "absent" /\ awaiter[c] = "returned"
        /\ answer[c] = "started" /\ canc[c] # "force"
    BY <1>4 DEF FinalizeRow
  <2>3. rows'[c].status \in Terminal /\ rows'[c].status # "absent"
    BY <1>4, <2>1, <2>2, RowSettles DEF FinalizeRow, Terminal
  <2> QED BY <1>4, <2>2, <2>3 DEF FinalizeRow
<1>5. CASE FinalizeToken(c)
  BY <1>5 DEF FinalizeToken
<1>6. CASE WorkerExits(c)
  BY <1>6 DEF WorkerExits
<1> QED BY <1>1, <1>2, <1>3, <1>4, <1>5, <1>6 DEF WorkerStep

(* So does what the caller does, and what happens to it.                   *)
LEMMA AwaiterKeeps ==
  ASSUME Typed, NEW c \in Call, CallInv(c),
         AwaiterStep(c) \/ DropCall(c) \/ StopTurn(c)
  PROVE  CallInv(c)'
<1> USE DEF Typed, TypeOK, CallInv, Awaited, Detaching, RollingBack, Answered,
            Detached, CancelKnows, NoJob, Early, Late, Locked, SetPhase, Await,
            Return, workerVars, awaiterVars, jobVars
<1>1. CASE TakeInline(c)
  BY <1>1 DEF TakeInline
<1>2. CASE Select(c) \/ Notified(c)
  BY <1>2 DEF Select, Notified
<1>3. CASE BudgetOver(c)
  BY <1>3 DEF BudgetOver
<1>4. CASE NoDatabase(c)
  BY <1>4 DEF NoDatabase
<1>5. CASE RegisterToken(c)
  BY <1>5 DEF RegisterToken
<1>6. CASE InsertRow(c)
  <2>1. rows[c] = NoRow /\ rows'[c].status = "running"
    BY <1>6 DEF InsertRow, NewRow, NoRow
  <2>2. canc[c] = "idle" /\ canc' = canc
    BY <1>6, <2>1 DEF InsertRow, NoRow
  <2> QED BY <1>6, <2>1, <2>2 DEF InsertRow
<1>7. CASE InsertFails(c)
  BY <1>7 DEF InsertFails
<1>8. CASE Rollback(c)
  BY <1>8 DEF Rollback
<1>9. CASE CommitDetach(c)
  BY <1>9 DEF CommitDetach
<1>10. CASE ReserveForced(c)
  BY <1>10 DEF ReserveForced
<1>11. CASE DropCall(c) \/ StopTurn(c)
  BY <1>11 DEF DropCall, StopTurn
<1> QED BY <1>1, <1>2, <1>3, <1>4, <1>5, <1>6, <1>7, <1>8, <1>9, <1>10, <1>11
        DEF AwaiterStep

(* A row that is there stays there, and a token that was registered is.    *)
LEMMA CancelKeeps ==
  ASSUME Typed, NEW c \in Call, CallInv(c), BeginCancel(c) \/ CancelStep(c)
  PROVE  CallInv(c)'
<1> USE DEF Typed, TypeOK, CallInv, Awaited, Detaching, RollingBack, Answered,
            Detached, CancelKnows, NoJob, Early, Late, Locked, CancelGoto,
            workerVars, awaiterVars
<1>0. NoRow.status = "absent" /\ "cancelled" \in Terminal
      /\ "absent" \notin Active /\ Active \cap Terminal = {}
  BY DEF NoRow, Terminal, Active
<1>1. CASE BeginCancel(c)
  BY <1>0, <1>1 DEF BeginCancel
<1>2. CASE CancelTrip(c)
  <2>1. rows[c].status # "absent"
    BY <1>2 DEF CancelTrip
  <2>2. rows'[c].status = rows[c].status
    BY <1>2, <2>1, RequestKeeps DEF CancelTrip
  <2>3. registered[c] \/ rows[c].status \in Terminal
    BY <1>0, <2>1
  <2> QED BY <1>0, <1>2, <2>1, <2>2, <2>3 DEF CancelTrip
<1>3. CASE CancelMark(c)
  <2>1. rows[c].status # "absent"
    BY <1>3 DEF CancelMark
  <2>2. /\ rows'[c].status # "absent"
        /\ rows[c].status \in Terminal <=> rows'[c].status \in Terminal
    BY <1>3, <2>1, MarkKeeps DEF CancelMark
  <2>3. canc[c] = "unsignalled" => ~CanMarkCancelling(rows[c])
    BY <2>1, MarkKeeps
  <2> QED BY <1>0, <1>3, <2>1, <2>2, <2>3 DEF CancelMark
<1>4. CASE CancelSettle(c)
  <2>1. rows[c].status # "absent"
    BY <1>4 DEF CancelSettle
  <2>2. rows'[c].status \in Terminal /\ rows'[c].status # "absent"
    BY <1>0, <1>4, <2>1, RowSettles DEF CancelSettle, Terminal
  <2> QED BY <1>0, <1>4, <2>1, <2>2 DEF CancelSettle
<1>5. CASE CancelAnnounce(c)
  <2>1. rows[c].status # "absent"
    BY <1>5 DEF CancelAnnounce
  <2>2. rows'[c].status = rows[c].status
    BY <1>0, <1>5, <2>1, RowSettles DEF CancelAnnounce
  <2> QED BY <1>0, <1>5, <2>1, <2>2 DEF CancelAnnounce
<1> QED BY <1>1, <1>2, <1>3, <1>4, <1>5 DEF CancelStep

(* The handover invariant is inductive.                                    *)
LEMMA HandoverStep == Handover /\ [Next]_vars => Handover'
<1> SUFFICES ASSUME Handover, [Next]_vars PROVE Handover'
  OBVIOUS
<1>1. Typed /\ Typed'
  BY TypedStep DEF Handover
<1>2. ASSUME NEW d \in Call PROVE CallInv(d)'
  <2>0. CallInv(d)
    BY DEF Handover
  <2>1. CASE UNCHANGED vars
    BY <2>0, <2>1, UntouchedKept
       DEF vars, awaiterVars, workerVars, jobVars, Untouched
  <2>2. ASSUME NEW c \in Call,
               \/ WorkerStep(c) \/ ToolEnds(c) \/ AwaiterStep(c) \/ DropCall(c)
               \/ StopTurn(c) \/ BeginCancel(c) \/ CancelStep(c)
        PROVE  CallInv(d)'
    <3>1. CASE c = d
      BY <1>1, <2>0, <2>2, <3>1, WorkerKeeps, AwaiterKeeps, CancelKeeps
    <3>2. CASE c # d
      BY <1>1, <2>0, <2>2, <3>2, OthersUntouched, UntouchedKept
    <3> QED BY <3>1, <3>2
  <2> QED BY <2>1, <2>2 DEF Next
<1> QED BY <1>1, <1>2 DEF Handover

(* It holds in every reachable state.                                      *)
LEMMA HandoverInvariant == Spec => []Handover
BY HandoverInit, HandoverStep, PTL DEF Spec

-----------------------------------------------------------------------------
(* Whoever of worker and caller comes second finds the handover complete:  *)
(* a worker that finalizes a detached call finds its row, its token and    *)
(* its slot, an active row always has a token in this process, and the     *)
(* pool counts the call as long as its thread lives.                       *)
THEOREM HandoverIsComplete == Spec => []HandoverComplete
<1>1. Handover => HandoverComplete
  <2> SUFFICES ASSUME Handover PROVE HandoverComplete
    OBVIOUS
  <2> USE DEF Handover, Typed, TypeOK, CallInv, Awaited, Detaching, RollingBack,
              Answered, Detached, CancelKnows, NoJob, Early, Late, Locked
  <2>0. NoRow.status = "absent" /\ "absent" \notin Active
        /\ Active \cap Terminal = {}
    BY DEF NoRow, Terminal, Active
  <2>1. FinalizeFindsAll
    BY <2>0 DEF FinalizeFindsAll
  <2>2. RowHasToken
    BY <2>0 DEF RowHasToken
  <2>3. SlotFollowsWorker
    BY <2>0 DEF SlotFollowsWorker
  <2> QED BY <2>1, <2>2, <2>3 DEF HandoverComplete
<1> QED BY <1>1, HandoverInvariant, PTL

(* The result of a call goes one way: an answer given inline leaves no row *)
(* and no worker that settles one, and a worker that ended leaves its      *)
(* result where a caller that still waits takes it.                        *)
THEOREM ResultGoesOneWay == Spec => []OneWay
<1>1. Handover => OneWay
  BY DEF OneWay, Finalizing, Handover, Typed, TypeOK, VerdictKnown, CallInv,
         Awaited, Detaching, RollingBack, Answered, Detached, NoJob, Early,
         Late, Locked
<1> QED BY <1>1, HandoverInvariant, PTL

(* What EveryCallEnds rests on: a job that was announced to the model and  *)
(* whose worker is gone, so that nothing moves it any more, has settled,   *)
(* or its worker never came up.                                            *)
THEOREM GoneHasEnded ==
  Spec => [](\A c \in Call :
               answer[c] = "started" /\ worker[c] = "gone" => Ended(c))
<1>1. Handover => \A c \in Call :
                    answer[c] = "started" /\ worker[c] = "gone" => Ended(c)
  BY DEF Ended, Handover, CallInv, Detached, Early, Late
<1> QED BY <1>1, HandoverInvariant, PTL

(* So the one way a detached call is left without an end is a runtime that *)
(* could not be built: with runtimes that always build, a call announced   *)
(* as a job whose thread is gone has a settled row.                        *)
THEOREM FinalizedUnlessBuildFails ==
  ASSUME ~BuildFaults PROVE Spec => []DetachedIsFinalized
<1>1. Handover => DetachedIsFinalized
  BY DEF DetachedIsFinalized, Handover, CallInv, Detached, Early, Late
<1> QED BY <1>1, HandoverInvariant, PTL

-----------------------------------------------------------------------------
(* The refinement of DetachedJobs: whichever of the two threads moves, and *)
(* wherever a cancel call comes between their steps, the others see a      *)
(* step of a job that was detached at once, or none.                       *)

(* What the mapping makes of the state: who has a token, who is counted,   *)
(* and where the runner of each call is.                                   *)
Token == {c \in Jobs : registered[c]}

Counted == {c \in Jobs : box[c] \/ awaiter[c] \in {"commit", "slot"}}

Runners == [c \in Call |-> IF c \in Jobs THEN Runner(c) ELSE "none"]

(* A step of a call.                                                       *)
CallStep(c) ==
  \/ WorkerStep(c) \/ ToolEnds(c) \/ AwaiterStep(c) \/ DropCall(c)
  \/ StopTurn(c) \/ BeginCancel(c) \/ CancelStep(c)

(* It is seen to move its own call only.                                   *)
LEMMA OthersSeenUnchanged ==
  ASSUME Handover, NEW c \in Call, CallStep(c), NEW d \in Call, d # c
  PROVE  /\ d \in Token' <=> d \in Token
         /\ d \in Counted' <=> d \in Counted
         /\ Runners'[d] = Runners[d]
<1>1. Untouched(d)
  BY OthersUntouched DEF Handover, CallStep
<1>2. d \in Jobs' <=> d \in Jobs
  BY <1>1 DEF Untouched, Jobs
<1>3. Runner(d)' = Runner(d)
  BY <1>1 DEF Untouched, Runner
<1>4. Runners'[d] = Runners[d]
  BY <1>2, <1>3 DEF Runners
<1>5. d \in Token' <=> d \in Token
  BY <1>1, <1>2 DEF Untouched, Token
<1>6. d \in Counted' <=> d \in Counted
  BY <1>1, <1>2 DEF Untouched, Counted
<1> QED BY <1>4, <1>5, <1>6

(* So what the others see follows from what becomes of the call itself.    *)
LEMMA SeenOfOne ==
  ASSUME Handover, NEW c \in Call, CallStep(c)
  PROVE  /\ Token' = IF c \in Token' THEN Token \cup {c} ELSE Token \ {c}
         /\ Counted' = IF c \in Counted' THEN Counted \cup {c} ELSE Counted \ {c}
         /\ Runners' = [Runners EXCEPT ![c] = Runners'[c]]
<1>1. Token \subseteq Call /\ Token' \subseteq Call
  BY DEF Token, Jobs
<1>2. Counted \subseteq Call /\ Counted' \subseteq Call
  BY DEF Counted, Jobs
<1>3. Token' = IF c \in Token' THEN Token \cup {c} ELSE Token \ {c}
  BY <1>1, OthersSeenUnchanged
<1>4. Counted' = IF c \in Counted' THEN Counted \cup {c} ELSE Counted \ {c}
  BY <1>2, OthersSeenUnchanged
<1>5. Runners' = [Runners EXCEPT ![c] = Runners'[c]]
  <2>1. /\ Runners = [d \in Call |-> Runners[d]]
        /\ Runners' = [d \in Call |-> Runners'[d]]
    BY DEF Runners
  <2> QED BY <2>1, OthersSeenUnchanged
<1> QED BY <1>3, <1>4, <1>5

(* A step that leaves row, token, place and runner of its call is not      *)
(* seen at all.                                                            *)
LEMMA NotSeen ==
  ASSUME Handover, NEW c \in Call, CallStep(c), rows' = rows,
         c \in Token' <=> c \in Token, c \in Counted' <=> c \in Counted,
         Runners'[c] = Runners[c]
  PROVE  UNCHANGED <<rows, Token, Counted, Runners>>
<1>1. Token' = Token /\ Counted' = Counted
  BY SeenOfOne
<1>2. Runners' = [Runners EXCEPT ![c] = Runners[c]]
  BY SeenOfOne
<1>3. Runners' = Runners
  BY <1>2 DEF Runners
<1> QED BY <1>1, <1>3

(* One that moves the runner of its call is seen as that.                  *)
LEMMA RunnerMoves ==
  ASSUME Handover, NEW c \in Call, CallStep(c), NEW from, NEW to,
         Runners[c] = from, Runners'[c] = to
  PROVE  AsOneStep!Run(c, from, to)
<1>1. Runners' = [Runners EXCEPT ![c] = to]
  BY SeenOfOne
<1> QED BY <1>1 DEF AsOneStep!Run, Runners

(* Where the runner of a job is seen.                                      *)
LEMMA RunnerOf ==
  ASSUME NEW c \in Call
  PROVE  /\ c \notin Jobs => Runners[c] = "none"
         /\ c \in Jobs => Runners[c] = Runner(c)
         /\ c \notin Jobs => c \notin Token /\ c \notin Counted
BY DEF Runners, Token, Counted

(* A step of DetachedJobs, or none.                                        *)
Seen == AsOneStep!Next \/ UNCHANGED <<rows, Token, Counted, Runners>>

(* The steps of the worker thread.                                         *)
LEMMA WorkerSeen ==
  ASSUME Handover, NEW c \in Call, WorkerStep(c) \/ ToolEnds(c)
  PROVE  Seen
<1>0. Typed /\ CallInv(c) /\ CallStep(c)
  BY DEF Handover, CallStep
<1>a. /\ TypeOK /\ VerdictKnown /\ Awaited(c) /\ Detaching(c) /\ RollingBack(c)
      /\ Answered(c) /\ Detached(c)
  BY <1>0 DEF Typed, CallInv
(* A step on a call without a row is not seen.                             *)
<1>1. ASSUME c \notin Jobs, rows' = rows
      PROVE  Seen
  <2>1. c \notin Jobs'
    BY <1>1 DEF Jobs
  <2>2. Runners'[c] = "none" /\ c \notin Token' /\ c \notin Counted'
    BY <2>1 DEF Runners, Token, Counted
  <2> QED BY <1>0, <1>1, <2>2, NotSeen, RunnerOf DEF Seen
(* One on a job is seen by what becomes of its worker.                     *)
<1>2. ASSUME c \in Jobs, rows'[c].status # "absent"
      PROVE  /\ Runners[c] = Runner(c) /\ Runners'[c] = Runner(c)'
             /\ c \in Token <=> registered[c]
             /\ c \in Token' <=> registered'[c]
             /\ c \in Counted <=> box[c] \/ awaiter[c] \in {"commit", "slot"}
             /\ c \in Counted' <=> box'[c] \/ awaiter'[c] \in {"commit", "slot"}
  <2>1. c \in Jobs'
    BY <1>2 DEF Jobs
  <2> QED BY <1>2, <2>1 DEF Runners, Token, Counted
<1>3. ASSUME BuildFails(c), c \in Jobs
      PROVE  Seen
  <2>1. /\ worker[c] = "start" /\ worker'[c] = "exit" /\ BuildFaults
        /\ UNCHANGED <<rows, registered, box, awaiter>>
    BY <1>3, <1>a DEF BuildFails, Work, TypeOK, jobVars, awaiterVars
  <2>2. /\ Runner(c) = "dispatch" /\ Runner(c)' = "exit"
        /\ rows'[c].status # "absent"
    BY <1>3, <2>1 DEF Runner, Jobs
  <2>3. AsOneStep!Run(c, "dispatch", "exit")
    BY <1>0, <1>2, <1>3, <2>2, RunnerMoves
  <2>4. Token' = Token /\ Counted' = Counted
    BY <1>0, <1>2, <1>3, <2>1, <2>2, SeenOfOne
  <2>5. AsOneStep!Abandon(c)
    BY <2>1, <2>3, <2>4 DEF AsOneStep!Abandon, Token, Counted
  <2> QED BY <2>5 DEF AsOneStep!Next, Seen
<1>4. ASSUME StartTool(c) \/ ToolEnds(c), c \in Jobs
      PROVE  Seen
  <2>1. /\ worker[c] \in {"start", "run"} /\ worker'[c] \in {"run", "publish"}
        /\ UNCHANGED <<rows, registered, box, awaiter>>
    BY <1>4, <1>a DEF StartTool, ToolEnds, Work, TypeOK, jobVars, awaiterVars
  <2>2. /\ Runner(c) = "dispatch" /\ Runner(c)' = "dispatch"
        /\ rows'[c].status # "absent"
    BY <1>4, <2>1 DEF Runner, Jobs
  <2> QED BY <1>0, <1>2, <1>4, <2>1, <2>2, NotSeen DEF Seen
<1>5. ASSUME Publish(c), c \in Jobs
      PROVE  Seen
  <2>1. /\ worker[c] = "publish" /\ ~Locked(c)
        /\ UNCHANGED <<rows, registered, box, awaiter>>
    BY <1>5 DEF Publish, jobVars, awaiterVars
  <2>2. phase[c] = "DetachedRunning"
    BY <1>5, <1>a, <2>1 DEF Awaited, RollingBack, Answered, Detached, NoJob,
       Early, Late, Jobs, TypeOK, Locked, NoRow
  <2>3. worker'[c] = "finalize"
    BY <1>5, <1>a, <2>2 DEF Publish, Work, TypeOK
  <2>4. /\ Runner(c) = "dispatch" /\ Runner(c)' = "settle"
        /\ rows'[c].status # "absent"
    BY <1>5, <2>1, <2>3 DEF Runner, Jobs
  <2>5. AsOneStep!Run(c, "dispatch", "settle")
    BY <1>0, <1>2, <1>5, <2>4, RunnerMoves
  <2>6. Token' = Token /\ Counted' = Counted
    BY <1>0, <1>2, <1>5, <2>1, <2>4, SeenOfOne
  <2>7. AsOneStep!EndDispatch(c)
    BY <2>1, <2>5, <2>6 DEF AsOneStep!EndDispatch, Token, Counted
  <2> QED BY <2>7 DEF AsOneStep!Next, Seen
<1>6. ASSUME FinalizeRow(c)
      PROVE  Seen
  <2>1. /\ worker[c] = "finalize" /\ worker'[c] = "token"
        /\ rows' = [rows EXCEPT ![c] = Settle(@, verdict[c])]
        /\ UNCHANGED <<registered, box, awaiter>>
    BY <1>6, <1>a DEF FinalizeRow, Work, TypeOK, awaiterVars
  <2>2. c \in Jobs
    BY <1>a, <2>1 DEF Awaited, Detaching, RollingBack, Answered, Detached, NoJob,
       Early, Late, Jobs, TypeOK, Locked
  <2>3. verdict[c] \in {"completed", "failed", "cancelled"}
    BY <1>a, <2>1 DEF TypeOK, VerdictKnown
  <2>4. rows'[c].status # "absent"
    <3>1. rows'[c] = Settle(rows[c], verdict[c]) /\ rows[c] \in Row
      BY <1>a, <2>1 DEF TypeOK
    <3>2. verdict[c] \in Terminal
      BY <2>3 DEF Terminal
    <3> QED BY <2>2, <3>1, <3>2, RowSettles DEF Jobs, Terminal
  <2>5. Runner(c) = "settle" /\ Runner(c)' = "wrapup"
    BY <2>1 DEF Runner
  <2>5a. Runners[c] = "settle" /\ Runners'[c] = "wrapup"
    BY <1>2, <2>2, <2>4, <2>5
  <2>6. AsOneStep!Run(c, "settle", "wrapup")
    BY <1>0, <2>5a, RunnerMoves
  <2>6a. /\ c \in Token' <=> c \in Token
         /\ c \in Counted' <=> c \in Counted
    BY <1>2, <2>1, <2>2, <2>4
  <2>7. Token' = Token /\ Counted' = Counted
    BY <1>0, <2>6a, SeenOfOne
  <2>8. AsOneStep!SettleRow(c)
    BY <2>1, <2>3, <2>6, <2>7 DEF AsOneStep!SettleRow, AsOneStep!Settle, Settle,
       AsOneStep!CanSettle, CanSettle, AsOneStep!Active, Active, Token, Counted
  <2> QED BY <2>8 DEF AsOneStep!Next, Seen
<1>7. ASSUME FinalizeToken(c)
      PROVE  Seen
  <2>1. /\ worker[c] = "token" /\ worker'[c] = "exit" /\ ~registered'[c]
        /\ UNCHANGED <<rows, box, awaiter>>
    BY <1>7, <1>a DEF FinalizeToken, Work, TypeOK, awaiterVars
  <2>2. c \in Jobs
    BY <1>a, <2>1 DEF Awaited, Detaching, RollingBack, Answered, Detached, NoJob,
       Early, Late, Jobs, TypeOK, Locked
  <2>3. Runner(c) = "wrapup" /\ Runner(c)' = "exit" /\ rows'[c].status # "absent"
    BY <2>1, <2>2 DEF Runner, Jobs
  <2>4. AsOneStep!Run(c, "wrapup", "exit")
    BY <1>0, <1>2, <2>2, <2>3, RunnerMoves
  <2>5. Token' = Token \ {c} /\ Counted' = Counted
    BY <1>0, <1>2, <2>1, <2>2, <2>3, SeenOfOne
  <2>6. AsOneStep!WrapUp(c)
    BY <2>1, <2>4, <2>5 DEF AsOneStep!WrapUp, Token, Counted
  <2> QED BY <2>6 DEF AsOneStep!Next, Seen
<1>8. ASSUME WorkerExits(c), c \in Jobs
      PROVE  Seen
  <2>1. /\ worker[c] = "exit" /\ worker'[c] = "gone" /\ ~box'[c]
        /\ UNCHANGED <<rows, registered, awaiter>>
    BY <1>8, <1>a DEF WorkerExits, Work, TypeOK, awaiterVars
  <2>2. awaiter[c] \notin {"commit", "slot"}
    BY <1>a, <2>1 DEF Detaching, Locked, Early
  <2>3. Runner(c) = "exit" /\ Runner(c)' = "done" /\ rows'[c].status # "absent"
    BY <1>8, <2>1 DEF Runner, Jobs
  <2>4. AsOneStep!Run(c, "exit", "done")
    BY <1>0, <1>2, <1>8, <2>3, RunnerMoves
  <2>5. Token' = Token /\ Counted' = Counted \ {c}
    BY <1>0, <1>2, <1>8, <2>1, <2>2, <2>3, SeenOfOne
  <2>6. AsOneStep!ExitRunner(c)
    BY <2>1, <2>4, <2>5 DEF AsOneStep!ExitRunner, Token, Counted
  <2> QED BY <2>6 DEF AsOneStep!Next, Seen
<1>9. ASSUME c \notin Jobs, ~FinalizeRow(c)
      PROVE  Seen
  <2>1. rows' = rows
    BY <1>9 DEF WorkerStep, BuildFails, StartTool, Publish, FinalizeToken,
       WorkerExits, ToolEnds, jobVars
  <2> QED BY <1>1, <1>9, <2>1
<1> QED BY <1>3, <1>4, <1>5, <1>6, <1>7, <1>8, <1>9 DEF WorkerStep

(* The steps of the caller: the INSERT is the handover, all at once.       *)
LEMMA AwaiterSeen ==
  ASSUME Handover, NEW c \in Call, AwaiterStep(c) \/ DropCall(c) \/ StopTurn(c)
  PROVE  Seen
<1>0. Typed /\ CallInv(c) /\ CallStep(c)
  BY DEF Handover, CallStep
<1>a. /\ TypeOK /\ Awaited(c) /\ Detaching(c) /\ RollingBack(c)
      /\ Answered(c) /\ Detached(c) /\ CancelKnows(c)
  BY <1>0 DEF Typed, CallInv
(* The handover.                                                           *)
<1>1. ASSUME InsertRow(c)
      PROVE  Seen
  <2>1. /\ awaiter[c] = "insert" /\ awaiter'[c] = "commit"
        /\ rows' = [rows EXCEPT ![c] = NewRow("running")]
        /\ UNCHANGED <<worker, registered, box>>
    BY <1>1, <1>a DEF InsertRow, Await, TypeOK, workerVars
  <2>2. rows[c] = NoRow /\ c \notin Jobs
    BY <1>a, <2>1 DEF Detaching, Locked, Jobs, NoRow
  <2>3. rows'[c].status = "running"
    BY <1>a, <2>1 DEF NewRow, NoRow, TypeOK
  <2>4. c \in Jobs'
    BY <2>3 DEF Jobs
  <2>5. registered'[c] /\ Early(c)
    BY <1>a, <2>1 DEF Detaching, Locked
  <2>6. c \in Token' /\ c \in Counted'
    BY <2>1, <2>4, <2>5 DEF Token, Counted
  <2>7. Runners[c] = "none" /\ Runners'[c] = "dispatch"
    <3>1. Runner(c)' = "dispatch"
      BY <2>1, <2>5 DEF Runner, Early
    <3> QED BY <2>2, <2>4, <3>1 DEF Runners
  <2>8. Token' = Token \cup {c} /\ Counted' = Counted \cup {c}
    BY <1>0, <2>6, SeenOfOne
  <2>9. AsOneStep!Run(c, "none", "dispatch")
    BY <1>0, <2>7, RunnerMoves
  <2>10. AsOneStep!Detach(c)
    BY <2>1, <2>2, <2>8, <2>9 DEF AsOneStep!Detach, Token, Counted,
       AsOneStep!NoRow, NoRow, AsOneStep!NewRow, NewRow
  <2> QED BY <2>10 DEF AsOneStep!Next, Seen
(* Before it there is nothing to see.                                      *)
<1>2. ASSUME c \notin Jobs, rows' = rows
      PROVE  Seen
  <2>1. c \notin Jobs'
    BY <1>2 DEF Jobs
  <2>2. Runners'[c] = "none" /\ c \notin Token' /\ c \notin Counted'
    BY <2>1 DEF Runners, Token, Counted
  <2> QED BY <1>0, <1>2, <2>2, NotSeen, RunnerOf DEF Seen
(* After it, phase and slot change nothing the others see.                 *)
<1>3. ASSUME c \in Jobs, rows' = rows, UNCHANGED <<worker, registered>>,
             (box[c] \/ awaiter[c] \in {"commit", "slot"})
               <=> (box'[c] \/ awaiter'[c] \in {"commit", "slot"})
      PROVE  Seen
  <2>1. c \in Jobs'
    BY <1>3 DEF Jobs
  <2>2. c \in Token' <=> c \in Token
    BY <1>3, <2>1 DEF Token
  <2>3. c \in Counted' <=> c \in Counted
    BY <1>3, <2>1 DEF Counted
  <2>4. Runners'[c] = Runners[c]
    <3>1. Runner(c)' = Runner(c)
      BY <1>3 DEF Runner
    <3> QED BY <1>3, <2>1, <3>1 DEF Runners
  <2> QED BY <1>0, <1>3, <2>2, <2>3, <2>4, NotSeen DEF Seen
<1>4. ASSUME CommitDetach(c)
      PROVE  Seen
  <2>1. /\ awaiter[c] = "commit" /\ awaiter'[c] = "slot"
        /\ UNCHANGED <<rows, worker, registered, box>>
    BY <1>4, <1>a DEF CommitDetach, Await, TypeOK, workerVars, jobVars
  <2>2. CASE c \in Jobs
    BY <1>3, <2>1, <2>2
  <2>3. CASE c \notin Jobs
    BY <1>2, <2>1, <2>3
  <2> QED BY <2>2, <2>3
<1>5. ASSUME ReserveForced(c)
      PROVE  Seen
  <2>1. /\ awaiter[c] = "slot" /\ box'[c]
        /\ UNCHANGED <<rows, worker, registered>>
    BY <1>5, <1>a DEF ReserveForced, TypeOK, workerVars
  <2>2. CASE c \in Jobs
    BY <1>3, <2>1, <2>2
  <2>3. CASE c \notin Jobs
    BY <1>2, <2>1, <2>3
  <2> QED BY <2>2, <2>3
<1>6. ASSUME StopTurn(c)
      PROVE  Seen
  <2>1. UNCHANGED <<rows, worker, registered, box, awaiter>>
    BY <1>6 DEF StopTurn, workerVars, awaiterVars
  <2>2. CASE c \in Jobs
    BY <1>3, <2>1, <2>2
  <2>3. CASE c \notin Jobs
    BY <1>2, <2>1, <2>3
  <2> QED BY <2>2, <2>3
<1>7. ASSUME \/ TakeInline(c) \/ Select(c) \/ Notified(c) \/ BudgetOver(c)
             \/ NoDatabase(c) \/ RegisterToken(c) \/ InsertFails(c)
             \/ Rollback(c) \/ DropCall(c)
      PROVE  Seen
  <2>1. rows' = rows
    BY <1>7 DEF TakeInline, Select, Notified, BudgetOver, NoDatabase,
       RegisterToken, InsertFails, Rollback, DropCall, jobVars
  <2>2. awaiter[c] \in {"check", "select", "register", "insert", "rollback"}
    BY <1>7 DEF TakeInline, Select, Notified, BudgetOver, NoDatabase,
       RegisterToken, InsertFails, Rollback, DropCall
  <2>3. rows[c] = NoRow
    BY <1>a, <2>2 DEF Awaited, NoJob, Detaching, Locked, RollingBack
  <2>4. c \notin Jobs
    BY <2>3 DEF Jobs, NoRow
  <2> QED BY <1>2, <2>1, <2>4
<1> QED BY <1>1, <1>4, <1>5, <1>6, <1>7 DEF AwaiterStep

(* The steps of a cancel call are the statements it runs on the row.       *)
LEMMA CancelSeen ==
  ASSUME Handover, NEW c \in Call, BeginCancel(c) \/ CancelStep(c)
  PROVE  Seen
<1>0. Typed /\ CallInv(c) /\ CallStep(c)
  BY DEF Handover, CallStep
<1>a. TypeOK /\ CancelKnows(c) /\ UNCHANGED <<worker, registered, box, awaiter>>
  BY <1>0 DEF Typed, CallInv, CancelStep, BeginCancel, CancelTrip, CancelMark,
     CancelSettle, CancelAnnounce, workerVars, awaiterVars
<1>b. "cancelled" \in Terminal /\ "absent" \notin Active \cup Terminal
  BY DEF Terminal, Active
<1>1. rows[c].status # "absent"
  BY <1>a, <1>b DEF CancelKnows, CancelStep, BeginCancel, CancelTrip, CancelMark,
     CancelSettle, CancelAnnounce
<1>2. rows[c] \in Row /\ rows[c] # NoRow
  BY <1>a, <1>1 DEF TypeOK, NoRow
(* It leaves everything but the row as it is.                              *)
<1>3. rows'[c].status # "absent"
  <2>1. CASE BeginCancel(c)
    BY <1>1, <2>1 DEF BeginCancel
  <2>2. CASE CancelTrip(c)
    BY <1>a, <1>1, <1>2, <2>2, RequestKeeps DEF CancelTrip, TypeOK
  <2>3. CASE CancelMark(c)
    BY <1>a, <1>1, <1>2, <2>3, MarkKeeps DEF CancelMark, TypeOK
  <2>4. CASE CancelSettle(c)
    BY <1>a, <1>b, <1>1, <1>2, <2>4, RowSettles DEF CancelSettle, TypeOK
  <2>5. CASE CancelAnnounce(c)
    BY <1>a, <1>b, <1>1, <1>2, <2>5, RowSettles DEF CancelAnnounce, TypeOK
  <2> QED BY <2>1, <2>2, <2>3, <2>4, <2>5 DEF CancelStep
<1>4. c \in Jobs /\ c \in Jobs'
  BY <1>1, <1>3 DEF Jobs
<1>5. /\ c \in Token' <=> c \in Token
      /\ c \in Counted' <=> c \in Counted
      /\ Runners'[c] = Runners[c]
  <2>1. Runner(c)' = Runner(c)
    BY <1>a DEF Runner
  <2> QED BY <1>a, <1>4, <2>1 DEF Token, Counted, Runners
<1>6. UNCHANGED <<Token, Counted, Runners>>
  <2>1. Token' = Token /\ Counted' = Counted
    BY <1>0, <1>5, SeenOfOne
  <2>2. Runners' = [Runners EXCEPT ![c] = Runners[c]]
    BY <1>0, <1>5, SeenOfOne
  <2> QED BY <2>1, <2>2 DEF Runners
<1>7. ASSUME NEW row, rows' = [rows EXCEPT ![c] = row]
      PROVE  AsOneStep!Statement(c, row)
  BY <1>2, <1>6, <1>7 DEF AsOneStep!Statement, AsOneStep!NoRow, NoRow, Token,
     Counted, Runners
<1>8. CASE BeginCancel(c)
  BY <1>6, <1>8 DEF BeginCancel, Seen
<1>9. CASE CancelTrip(c)
  <2>1. rows' = [rows EXCEPT ![c] = RequestCancel(rows[c])]
    BY <1>9 DEF CancelTrip
  <2>2. AsOneStep!RequestRow(c)
    BY <1>7, <2>1 DEF AsOneStep!RequestRow, AsOneStep!RequestCancel,
       RequestCancel, AsOneStep!Active, Active
  <2> QED BY <2>2 DEF AsOneStep!Next, Seen
<1>10. CASE CancelMark(c)
  <2>1. rows' = [rows EXCEPT ![c] = MarkCancelling(rows[c])]
    BY <1>10 DEF CancelMark
  <2>2. AsOneStep!MarkRow(c)
    BY <1>7, <2>1 DEF AsOneStep!MarkRow, AsOneStep!MarkCancelling,
       MarkCancelling, AsOneStep!CanMarkCancelling, CanMarkCancelling,
       AsOneStep!Active, Active
  <2> QED BY <2>2 DEF AsOneStep!Next, Seen
<1>11. CASE CancelSettle(c)
  <2>1. rows' = [rows EXCEPT ![c] = Settle(rows[c], "cancelled")]
    BY <1>11 DEF CancelSettle
  <2>2. AsOneStep!ForceRow(c)
    BY <1>7, <2>1 DEF AsOneStep!ForceRow, AsOneStep!Settle, Settle,
       AsOneStep!CanSettle, CanSettle, AsOneStep!Active, Active
  <2> QED BY <2>2 DEF AsOneStep!Next, Seen
<1>12. CASE CancelAnnounce(c)
  <2>1. /\ rows' = [rows EXCEPT ![c] = MarkInjected(rows[c])]
        /\ rows[c].status \in Terminal
    BY <1>a, <1>12 DEF CancelAnnounce, CancelKnows
  <2>2. AsOneStep!CloseRow(c)
    BY <1>7, <2>1 DEF AsOneStep!CloseRow, AsOneStep!MarkInjected, MarkInjected,
       AsOneStep!Terminal, Terminal
  <2> QED BY <2>2 DEF AsOneStep!Next, Seen
<1> QED BY <1>8, <1>9, <1>10, <1>11, <1>12 DEF CancelStep

(* Every step is seen as a step of DetachedJobs, or not at all.            *)
LEMMA HandoverSeen ==
  ASSUME Handover, [Next]_vars
  PROVE  Seen
<1>1. CASE UNCHANGED vars
  BY <1>1 DEF vars, awaiterVars, workerVars, jobVars, Seen, Token, Counted,
     Runners, Runner, Jobs
<1>2. ASSUME NEW c \in Call,
             \/ WorkerStep(c) \/ ToolEnds(c) \/ AwaiterStep(c) \/ DropCall(c)
             \/ StopTurn(c) \/ BeginCancel(c) \/ CancelStep(c)
      PROVE  Seen
  BY <1>2, WorkerSeen, AwaiterSeen, CancelSeen
<1> QED BY <1>1, <1>2 DEF Next

(* The handover is one step to everybody else: two threads, the lock they  *)
(* share and the cancel calls that come between their steps do what        *)
(* DetachedJobs does with a job that was detached at once.                 *)
THEOREM HandoverIsOneStep == Spec => ImplementsDetach
<1>1. Init => AsOneStep!Init
  <2> SUFFICES ASSUME Init PROVE AsOneStep!Init
    OBVIOUS
  <2>1. Jobs = {}
    BY DEF Init, Jobs, NoRow
  <2>2. Token = {} /\ Counted = {}
    BY <2>1 DEF Token, Counted
  <2>3. Runners = [c \in Call |-> "none"]
    BY <2>1 DEF Runners
  <2> QED BY <2>2, <2>3 DEF Init, AsOneStep!Init, AsOneStep!NoRow, NoRow, Token,
             Counted, Runners
<1>2. Handover /\ [Next]_vars => Seen
  BY HandoverSeen
<1>3. Handover /\ [Next]_vars => [AsOneStep!Next]_<<rows,
        {c \in Jobs : registered[c]},
        {c \in Jobs : box[c] \/ awaiter[c] \in {"commit", "slot"}},
        [c \in Call |-> IF c \in Jobs THEN Runner(c) ELSE "none"]>>
  BY <1>2 DEF Seen, Token, Counted, Runners
<1> QED BY <1>1, <1>3, HandoverInvariant, PTL
        DEF Spec, ImplementsDetach, AsOneStep!Spec

(* The table alone, as JobLifecycle shows it.                              *)
Lifecycle == INSTANCE JobLifecycle WITH Job <- Call

(* A job that was detached at once keeps the promises of the table.        *)
LEMMA DetachedKeepsLifecycle ==
  ASSUME TypeOK, Seen
  PROVE  Lifecycle!Next \/ UNCHANGED rows
<1> USE DEF TypeOK
<1>0. /\ AsOneStep!Active = Active /\ Lifecycle!Active = Active
      /\ AsOneStep!Terminal = Terminal /\ Lifecycle!Terminal = Terminal
      /\ AsOneStep!NoRow = NoRow /\ Lifecycle!NoRow = NoRow
  BY DEF AsOneStep!Active, Lifecycle!Active, Active, AsOneStep!Terminal,
     Lifecycle!Terminal, Terminal, AsOneStep!NoRow, Lifecycle!NoRow, NoRow
<1>1. SUFFICES ASSUME NEW c \in Call, rows' # rows,
                      \/ AsOneStep!Detach(c) \/ AsOneStep!SettleRow(c)
                      \/ AsOneStep!RequestRow(c) \/ AsOneStep!MarkRow(c)
                      \/ AsOneStep!ForceRow(c) \/ AsOneStep!CloseRow(c)
               PROVE  Lifecycle!Next
  BY DEF Seen, AsOneStep!Next, AsOneStep!EndDispatch, AsOneStep!WrapUp,
     AsOneStep!ExitRunner, AsOneStep!Abandon
<1>2. \A f : rows' = [rows EXCEPT ![c] = f] => f # rows[c]
  BY <1>1
<1>3. CASE AsOneStep!Detach(c)
  <2>1. /\ rows[c] = NoRow
        /\ rows' = [rows EXCEPT ![c] = AsOneStep!NewRow("running")]
    BY <1>0, <1>3 DEF AsOneStep!Detach
  <2>2. AsOneStep!NewRow("running") = Lifecycle!NewRow("running")
    BY <1>0 DEF AsOneStep!NewRow, Lifecycle!NewRow
  <2>3. Lifecycle!Create(c)
    BY <1>0, <2>1, <2>2 DEF Lifecycle!Create
  <2> QED BY <2>3 DEF Lifecycle!Next
<1>4. ASSUME NEW st \in Terminal,
             rows' = [rows EXCEPT ![c] = AsOneStep!Settle(rows[c], st)]
      PROVE  Lifecycle!Next
  <2>1. /\ rows[c].status \in Active
        /\ rows' = [rows EXCEPT ![c].status = st]
    BY <1>0, <1>2, <1>4 DEF AsOneStep!Settle, AsOneStep!CanSettle
  <2>2. Lifecycle!Finish(c)
    BY <1>0, <2>1 DEF Lifecycle!Finish
  <2> QED BY <2>2 DEF Lifecycle!Next
<1>5. CASE AsOneStep!SettleRow(c)
  BY <1>4, <1>5 DEF AsOneStep!SettleRow, Terminal
<1>6. CASE AsOneStep!ForceRow(c)
  BY <1>4, <1>6 DEF AsOneStep!ForceRow, AsOneStep!Statement, Terminal
<1>7. CASE AsOneStep!RequestRow(c)
  <2>1. /\ rows[c].status \in Active
        /\ rows' = [rows EXCEPT ![c].cancelRequested = TRUE]
    BY <1>0, <1>2, <1>7 DEF AsOneStep!RequestRow, AsOneStep!Statement,
       AsOneStep!RequestCancel
  <2>2. Lifecycle!AskCancel(c)
    BY <1>0, <2>1 DEF Lifecycle!AskCancel
  <2> QED BY <2>2 DEF Lifecycle!Next
<1>8. CASE AsOneStep!MarkRow(c)
  <2>1. /\ rows[c].status \in Active \ {"queued"}
        /\ rows' = [rows EXCEPT ![c].status = "cancelling"]
    BY <1>0, <1>2, <1>8 DEF AsOneStep!MarkRow, AsOneStep!Statement,
       AsOneStep!MarkCancelling, AsOneStep!CanMarkCancelling
  <2>2. rows[c].status # "cancelling"
    <3>1. ASSUME rows[c].status = "cancelling"
          PROVE  [rows[c] EXCEPT !.status = "cancelling"] = rows[c]
      BY <3>1 DEF Row
    <3> QED BY <1>2, <2>1, <3>1
  <2>3. rows[c].status \in {"running", "awaiting_approval"}
    BY <2>1, <2>2 DEF Active
  <2>4. PICK e \in Lifecycle!Edges :
          rows[c].status = e[1] /\ e[2] = "cancelling"
    <3>1. /\ <<"running", "cancelling">> \in Lifecycle!Edges
          /\ <<"awaiting_approval", "cancelling">> \in Lifecycle!Edges
      BY DEF Lifecycle!Edges
    <3> QED BY <2>3, <3>1
  <2>5. Lifecycle!Progress(c)
    BY <2>1, <2>4 DEF Lifecycle!Progress
  <2> QED BY <2>5 DEF Lifecycle!Next
<1>9. CASE AsOneStep!CloseRow(c)
  <2>1. /\ rows[c].status \in Terminal
        /\ rows' = [rows EXCEPT ![c].injected = TRUE]
    BY <1>0, <1>9 DEF AsOneStep!CloseRow, AsOneStep!Statement,
       AsOneStep!MarkInjected, Terminal
  <2>2. Lifecycle!Close(c)
    BY <1>0, <2>1 DEF Lifecycle!Close
  <2> QED BY <2>2 DEF Lifecycle!Next
<1> QED BY <1>1, <1>3, <1>5, <1>6, <1>7, <1>8, <1>9

(* The row of a detached call keeps what the table promises of every job:  *)
(* it appears running, settles once, whether its worker or a cancel call   *)
(* settles it, and is closed only after that.                              *)
THEOREM DetachedFollowsTheLifecycle == Spec => Lifecycle!Spec
<1>1. Init => Lifecycle!Init
  BY DEF Init, Lifecycle!Init, Lifecycle!NoRow, NoRow
<1>2. Handover /\ [Next]_vars => [Lifecycle!Next]_rows
  <2> SUFFICES ASSUME Handover, [Next]_vars
               PROVE  Lifecycle!Next \/ UNCHANGED rows
    OBVIOUS
  <2>1. TypeOK
    BY DEF Handover, Typed
  <2>2. Seen
    BY HandoverSeen
  <2> QED BY <2>1, <2>2, DetachedKeepsLifecycle
<1> QED BY <1>1, <1>2, HandoverInvariant, PTL DEF Spec, Lifecycle!Spec

-----------------------------------------------------------------------------
(* Calls that wait.  The other call that races the end of a job is         *)
(* job_status: the registry of the calls that wait, for any jobs and any   *)
(* finite set of calls, as an instance next to the handover.               *)
CONSTANTS Job, Waiter, NoWaiter, Awaits

VARIABLES row, telling, registry, waiter, hold

Waits == INSTANCE WaitRegistry

(* What the calls and the registry hold of a handle.                       *)
Sharers(h) == {w \in Waiter : hold[w] = h}

Entries(h) == {j \in Job : registry[j] = h}

(* The instance counts as this module does.                                *)
LEMMA Counts ==
  ASSUME NEW S
  PROVE  Waits!Cardinality(S) = Cardinality(S)
BY DEF Waits!Cardinality, Cardinality

(* Two calls and an entry sharing a handle are three references, so that   *)
(* neither call takes itself for the last.                                 *)
LEMMA SharedIsKept ==
  ASSUME Waits!WaitAssumption, IsFiniteSet(Waiter), IsFiniteSet(Job),
         NEW v \in Waiter, NEW w \in Waiter, v # w,
         NEW j \in Job, registry[j] = hold[v], hold[v] = hold[w]
  PROVE  Waits!StrongCount(hold[v]) > 2
<1> DEFINE h == hold[v]
           V == Sharers(h)
           J == Entries(h)
<1>1. IsFiniteSet(V) /\ Cardinality(V) \in Nat
  BY FS_Subset, FS_CardinalityType DEF Sharers
<1>2. IsFiniteSet(J) /\ Cardinality(J) \in Nat
  BY FS_Subset, FS_CardinalityType DEF Entries
<1>3. Cardinality(V) >= 2
  <2>1. IsFiniteSet({v}) /\ Cardinality({v}) = 1
    BY FS_Singleton
  <2>2. Cardinality({v} \cup {w}) = 2
    <3>1. w \notin {v}
      OBVIOUS
    <3>2. Cardinality({v} \cup {w}) = Cardinality({v}) + 1
      BY <2>1, <3>1, FS_AddElement
    <3> QED BY <2>1, <3>2
  <2>3. {v} \cup {w} \subseteq V
    BY DEF Sharers
  <2> QED BY <1>1, <2>2, <2>3, FS_Subset
<1>4. Cardinality(J) >= 1
  <2>1. j \in J
    BY DEF Entries
  <2>2. Cardinality(J) # 0
    BY <1>2, <2>1, FS_EmptySet
  <2> QED BY <1>2, <2>2
<1>5. Waits!StrongCount(h) = Cardinality(V) + Cardinality(J)
  BY Counts DEF Waits!StrongCount, Sharers, Entries
<1> QED BY <1>1, <1>2, <1>3, <1>4, <1>5

-----------------------------------------------------------------------------
(* Type correctness: among others, a call holds a handle exactly while it  *)
(* is under way.                                                           *)
LEMMA WaitTypeInit == Waits!WaitAssumption /\ Waits!Init => Waits!TypeOK
BY DEF Waits!WaitAssumption, Waits!Init, Waits!TypeOK

LEMMA WaitTypeStep ==
  Waits!WaitAssumption /\ Waits!TypeOK /\ [Waits!Next]_Waits!vars
    => Waits!TypeOK'
<1> SUFFICES ASSUME Waits!WaitAssumption, Waits!TypeOK, [Waits!Next]_Waits!vars
             PROVE  Waits!TypeOK'
  OBVIOUS
<1> USE DEF Waits!WaitAssumption, Waits!TypeOK
<1>1. ASSUME NEW w \in Waiter, Waits!Ask(w) PROVE Waits!TypeOK'
  BY <1>1 DEF Waits!Ask, Waits!At
<1>2. ASSUME NEW w \in Waiter, Waits!Register(w) PROVE Waits!TypeOK'
  BY <1>2 DEF Waits!Register, Waits!At
<1>3. ASSUME NEW w \in Waiter, Waits!Reload(w) PROVE Waits!TypeOK'
  BY <1>3 DEF Waits!Reload, Waits!At
<1>4. ASSUME NEW w \in Waiter, Waits!Park(w) \/ Waits!Poll(w) \/ Waits!Expire(w)
      PROVE  Waits!TypeOK'
  BY <1>4 DEF Waits!Park, Waits!Poll, Waits!Expire, Waits!At
<1>5. ASSUME NEW w \in Waiter, Waits!Cleanup(w) PROVE Waits!TypeOK'
  BY <1>5 DEF Waits!Cleanup, Waits!At
<1>6. ASSUME NEW w \in Waiter, Waits!DropHandle(w) PROVE Waits!TypeOK'
  BY <1>6 DEF Waits!DropHandle, Waits!At
<1>7. ASSUME NEW j \in Job, Waits!Begin(j) \/ Waits!End(j) \/ Waits!Purge(j)
      PROVE  Waits!TypeOK'
  BY <1>7 DEF Waits!Begin, Waits!End, Waits!Purge
<1>8. ASSUME NEW j \in Job, Waits!Notify(j) PROVE Waits!TypeOK'
  BY <1>8 DEF Waits!Notify
<1>9. CASE UNCHANGED Waits!vars
  BY <1>9 DEF Waits!vars
<1> QED BY <1>1, <1>2, <1>3, <1>4, <1>5, <1>6, <1>7, <1>8, <1>9
        DEF Waits!Next, Waits!WaiterStep

(* Every variable of the registry and of its calls keeps its type, and a   *)
(* call holds a handle from its registration to its end.                   *)
THEOREM WaitTypeCorrect ==
  ASSUME Waits!WaitAssumption
  PROVE  Waits!Spec => []Waits!TypeOK
<1> QED BY WaitTypeInit, WaitTypeStep, PTL DEF Waits!Spec

-----------------------------------------------------------------------------
(* The inductive invariant: what is told of is over, and every call        *)
(* between its registration and its clean-up shares the registered handle  *)
(* until its job is over and told of.                                      *)
ToldIsOver == \A j \in telling : row[j] \notin {"none", "active"}

Untold(j) == row[j] \in {"none", "active"} \/ j \in telling

Joined ==
  \A w \in Waiter :
    Waits!Waiting(w) /\ Untold(Awaits[w]) => registry[Awaits[w]] = hold[w]

Reachable == Waits!TypeOK /\ ToldIsOver /\ Joined

LEMMA ReachableStep ==
  ASSUME IsFiniteSet(Waiter), IsFiniteSet(Job), Waits!WaitAssumption,
         Reachable, [Waits!Next]_Waits!vars
  PROVE  Reachable'
<1> USE DEF Waits!WaitAssumption, Reachable, ToldIsOver, Joined, Waits!Waiting, Untold
<1>0. Waits!TypeOK'
  BY WaitTypeStep
<1> USE DEF Waits!TypeOK
<1>1. ASSUME NEW w \in Waiter, Waits!Ask(w) PROVE Reachable'
  BY <1>0, <1>1 DEF Waits!Ask, Waits!At
<1>2. ASSUME NEW w \in Waiter, Waits!Register(w) PROVE Reachable'
  <2>1. ASSUME NEW v \in Waiter, Waits!Waiting(v)', Untold(Awaits[v])'
        PROVE  registry'[Awaits[v]] = hold'[v]
    <3>1. CASE v = w
      BY <1>2, <3>1 DEF Waits!Register, Waits!At
    <3>2. CASE v # w /\ Awaits[v] = Awaits[w]
      BY <1>2, <2>1, <3>2 DEF Waits!Register, Waits!At
    <3>3. CASE v # w /\ Awaits[v] # Awaits[w]
      BY <1>2, <2>1, <3>3 DEF Waits!Register, Waits!At
    <3> QED BY <3>1, <3>2, <3>3
  <2> QED BY <1>0, <1>2, <2>1 DEF Waits!Register, Waits!At
<1>3. ASSUME NEW w \in Waiter, Waits!Reload(w) PROVE Reachable'
  BY <1>0, <1>3 DEF Waits!Reload, Waits!At
<1>4. ASSUME NEW w \in Waiter, Waits!Park(w) \/ Waits!Poll(w) \/ Waits!Expire(w)
      PROVE  Reachable'
  BY <1>0, <1>4 DEF Waits!Park, Waits!Poll, Waits!Expire, Waits!At
<1>5. ASSUME NEW w \in Waiter, Waits!Cleanup(w) PROVE Reachable'
  <2>1. ASSUME NEW v \in Waiter, Waits!Waiting(v)', Untold(Awaits[v])'
        PROVE  registry'[Awaits[v]] = hold'[v]
    <3>1. v # w /\ Waits!Waiting(v) /\ registry[Awaits[v]] = hold[v]
      BY <1>5, <2>1 DEF Waits!Cleanup, Waits!At
    <3>2. CASE Awaits[v] = Awaits[w] /\ registry[Awaits[w]] = hold[w]
      <4>1. Waits!StrongCount(hold[w]) > 2
        BY <3>1, <3>2, SharedIsKept
      <4>2. ~(Waits!StrongCount(hold[w]) <= 2)
        <5>1. Waits!StrongCount(hold[w]) \in Nat
          BY Counts, FS_Subset, FS_CardinalityType DEF Waits!StrongCount
        <5> QED BY <4>1, <5>1
      <4> QED BY <1>5, <3>1, <4>2 DEF Waits!Cleanup, Waits!At
    <3>3. CASE ~(Awaits[v] = Awaits[w] /\ registry[Awaits[w]] = hold[w])
      BY <1>5, <3>1, <3>3 DEF Waits!Cleanup, Waits!At
    <3> QED BY <3>2, <3>3
  <2> QED BY <1>0, <1>5, <2>1 DEF Waits!Cleanup, Waits!At
<1>6. ASSUME NEW w \in Waiter, Waits!DropHandle(w) PROVE Reachable'
  BY <1>0, <1>6 DEF Waits!DropHandle, Waits!At
<1>7. ASSUME NEW j \in Job, Waits!Begin(j) \/ Waits!End(j) \/ Waits!Purge(j)
      PROVE  Reachable'
  BY <1>0, <1>7 DEF Waits!Begin, Waits!End, Waits!Purge
<1>8. ASSUME NEW j \in Job, Waits!Notify(j) PROVE Reachable'
  BY <1>0, <1>8 DEF Waits!Notify
<1>9. CASE UNCHANGED Waits!vars
  BY <1>0, <1>9 DEF Waits!vars
<1> QED BY <1>1, <1>2, <1>3, <1>4, <1>5, <1>6, <1>7, <1>8, <1>9
        DEF Waits!Next, Waits!WaiterStep

(* A call that waits holds the handle that the end of its job will notify, *)
(* until it is notified, whatever other calls come and go                  *)
(* (cleanup_if_last_waiter); one whose handle is gone waits for a job that *)
(* is over, and its next look at the row ends it.                          *)
THEOREM WaitingAlwaysReachable ==
  ASSUME Waits!WaitAssumption, IsFiniteSet(Waiter), IsFiniteSet(Job)
  PROVE  Waits!Spec => []Waits!WaitingIsReachable
<1>1. Waits!Init => Reachable
  BY WaitTypeInit DEF Waits!Init, Reachable, ToldIsOver, Joined, Waits!Waiting
<1>2. Reachable /\ [Waits!Next]_Waits!vars => Reachable'
  BY ReachableStep
<1>3. Waits!WaitAssumption /\ Reachable => Waits!WaitingIsReachable
  BY DEF Reachable, Joined, Untold, Waits!Waiting, Waits!WaitingIsReachable,
         Waits!TypeOK, Waits!WaitAssumption
<1> QED BY <1>1, <1>2, <1>3, PTL DEF Waits!Spec
================================================================================

--------------------------- MODULE TurnQueueProofs ---------------------------
(***************************************************************************)
(* The queue of user messages and the turns of a session, for any sets of  *)
(* messages and turns: a message goes to a model at most once, none that   *)
(* was accepted is lost, a row taken for a turn comes back, what a thread  *)
(* is about to store is what the user last wrote, and turns are alone.     *)
(***************************************************************************)
EXTENDS TurnQueue, SeqFilterProofs

-----------------------------------------------------------------------------
(* The inductive invariant, by what it is about.                           *)

(* The rows a thread has in hand for insertion, and the message its turn   *)
(* was started from, by where the thread is.                               *)
InHand ==
  \A t \in Turn :
    /\ IsInjective(held[t].list)
    /\ held[t].list # <<>> => pc[t] \in {"insert", "hook", "consumeInserted"}
    /\ pc[t] \in {"hook", "consumeInserted"} => held[t].list # <<>>
    /\ pc[t] = "consumeInserted" => Head(held[t].list) \in persisted
    /\ pc[t] = "new" => from[t] = NoMsg
    /\ pc[t] \in {"consume", "reconcile", "release"} => from[t] # NoMsg

Typed == TypeOK /\ InHand

(* The marker goes with the one turn that will hand the message to a model *)
(* or with the message that was handed to one.                             *)
Committed == {"create", "consume", "start"}

OneCommit ==
  /\ \A m \in Msg : handed[m] <= 1 /\ (handed[m] = 1 => m \in persisted)
  /\ \A t \in Turn : pc[t] \in Committed /\ from[t] # NoMsg =>
       from[t] \in persisted /\ handed[from[t]] = 0
  /\ \A t, u \in Turn :
       {pc[t], pc[u]} \subseteq Committed /\ from[t] = from[u] /\ from[t] # NoMsg
       => t = u

(* Only while its engine runs is the gate of a turn that began open.       *)
GateGuards ==
  \A t \in began :
    /\ pc[t] \in Running \cup Ending \cup {"over"}
    /\ reg.turn = t /\ reg.open => pc[t] \in Running \cup {"clear"}

(* A turn dispatches the message it was started from and no other.         *)
DispatchIsFrom ==
  \A t \in Turn : \A m \in Bound(t, {"dispatching"}) : m = from[t]

(* Where a turn has the session, unless the watchdog released it.          *)
Owning == (Starting \ {"acquire", "release"}) \cup {"start"} \cup Running
            \cup {"clear", "fallback"}

SessionHeld == \A t \in Turn \ forced : pc[t] \in Owning => reg.turn = t

(* Rows that a thread has a copy of are claimed for its turn.              *)
CopiesClaimed ==
  forced = {} =>
    /\ stale = {}
    /\ \A t \in Turn : pc[t] \in Starting /\ from[t] # NoMsg =>
         st[from[t]] = "dispatching" /\ owner[from[t]] = t
    /\ \A t \in Turn : \A m \in ToSet(held[t].list) :
         st[m] = "inserting" /\ owner[m] = t

QueueInv ==
  /\ Typed /\ OneCommit /\ NothingLost
  /\ GateGuards /\ BoundRowsFallBack /\ DispatchIsFrom /\ DispatchDriven
  /\ SessionHeld /\ CopiesClaimed

-----------------------------------------------------------------------------
(* Operators on the rows.                                                  *)

RowsTyped ==
  /\ queue \in Seq(Msg) /\ IsInjective(queue)
  /\ st \in [Msg -> Editable \cup {"none", "inserting", "dispatching"}]
  /\ \A m \in Msg : (st[m] # "none") <=> (m \in ToSet(queue))
  /\ owner \in [Msg -> Turn \cup {NoTurn}]
  /\ persisted \subseteq Msg

(* A DELETE takes its rows out of the queue and touches no other.          *)
LEMMA DeleteEffect ==
  ASSUME RowsTyped, NEW ms, DeleteRows(ms)
  PROVE  /\ RowsTyped' /\ ToSet(queue') = ToSet(queue) \ ms
         /\ persisted' = persisted
         /\ \A m \in Msg : IF m \in ms THEN st'[m] = "none" /\ owner'[m] = NoTurn
                                       ELSE st'[m] = st[m] /\ owner'[m] = owner[m]
<1> USE DEF RowsTyped
<1>1. /\ queue' = Without(queue, ms)
      /\ st' = [m \in Msg |-> IF m \in ms THEN "none" ELSE st[m]]
      /\ owner' = [m \in Msg |-> IF m \in ms THEN NoTurn ELSE owner[m]]
      /\ persisted' = persisted
  BY DEF DeleteRows
<1>2. queue' \in Seq(Msg) /\ IsInjective(queue') /\ ToSet(queue') = ToSet(queue) \ ms
  BY <1>1, WithoutSpec
<1> QED BY <1>1, <1>2

(* An UPDATE of one row touches no other.                                  *)
LEMMA SetRowEffect ==
  ASSUME RowsTyped, NEW m \in Msg, st[m] # "none",
         NEW s \in Editable \cup {"inserting", "dispatching"},
         NEW t \in Turn \cup {NoTurn}, SetRow(m, s, t)
  PROVE  /\ RowsTyped' /\ queue' = queue /\ persisted' = persisted
         /\ st'[m] = s /\ owner'[m] = t
         /\ \A x \in Msg \ {m} : st'[x] = st[x] /\ owner'[x] = owner[x]
BY DEF RowsTyped, SetRow, Editable

(* Rows that only change their status, none of them to "none".             *)
LEMMA MarkEffect ==
  ASSUME RowsTyped, NEW ms \in SUBSET Msg, \A m \in ms : st[m] # "none",
         NEW s \in Editable \cup {"inserting", "dispatching"},
         st' = [m \in Msg |-> IF m \in ms THEN s ELSE st[m]],
         UNCHANGED <<queue, persisted>>,
         owner' \in [Msg -> Turn \cup {NoTurn}]
  PROVE  RowsTyped'
BY DEF RowsTyped, Editable

(* The user's steps keep the types.                                        *)
PCs == {"new", "start", "over"} \cup Starting \cup Running \cup Ending

RestTyped ==
  /\ turn \in [Turn -> {"none", "running", "over"}]
  /\ reg \in [turn : Turn \cup {NoTurn}, open : BOOLEAN]
  /\ cancelled \subseteq Turn
  /\ pc \in [Turn -> PCs]
  /\ from \in [Turn -> Msg \cup {NoMsg}]
  /\ held \in [Turn -> [list : Seq(Msg), of : Turn \cup {NoTurn}]]
  /\ watch \in [Turn -> {"none", "armed", "release"}]
  /\ handed \in [Msg -> Nat] /\ sent \in [Msg -> 0 .. 2]
  /\ gone \subseteq Msg /\ stale \subseteq Turn \X Msg
  /\ began \subseteq Turn /\ abandoned \subseteq Turn /\ forced \subseteq Turn
  /\ booted \in BOOLEAN

(* TypeOK is about the rows, and about the rest.                           *)
LEMMA TypedSplit == TypeOK <=> RowsTyped /\ RestTyped
BY DEF TypeOK, RowsTyped, RestTyped, PCs

(* The same of the next state.                                             *)
LEMMA TypedSplitNext == TypeOK' <=> RowsTyped' /\ RestTyped'
BY DEF TypeOK, RowsTyped, RestTyped, PCs

(* The initial state is typed.                                             *)
LEMMA TypedInit == Init => Typed
<1> SUFFICES ASSUME Init PROVE Typed
  OBVIOUS
<1>1. <<>> \in Seq(Msg) /\ IsInjective(<<>>) /\ ToSet(<<>>) = {}
  BY DEF IsInjective, ToSet
<1>2. RowsTyped
  BY <1>1 DEF Init, RowsTyped
<1>3. RestTyped
  <2>1. NoEntry \in [turn : Turn \cup {NoTurn}, open : BOOLEAN]
    BY DEF NoEntry
  <2>2. NothingHeld \in [list : Seq(Msg), of : Turn \cup {NoTurn}]
    BY <1>1 DEF NothingHeld
  <2>3. "new" \in PCs
    BY DEF PCs
  <2> HIDE DEF NoEntry, NothingHeld
  <2>4. /\ pc \in [Turn -> PCs] /\ from \in [Turn -> Msg \cup {NoMsg}]
        /\ held \in [Turn -> [list : Seq(Msg), of : Turn \cup {NoTurn}]]
    BY <2>2, <2>3 DEF Init
  <2>5. /\ turn \in [Turn -> {"none", "running", "over"}]
        /\ reg \in [turn : Turn \cup {NoTurn}, open : BOOLEAN]
        /\ watch \in [Turn -> {"none", "armed", "release"}]
    BY <2>1 DEF Init
  <2>6. handed \in [Msg -> Nat] /\ sent \in [Msg -> 0 .. 2]
    BY DEF Init
  <2> QED BY <2>4, <2>5, <2>6 DEF Init, RestTyped
<1>4. InHand
  BY <1>1 DEF Init, InHand, NothingHeld
<1> QED BY <1>2, <1>3, <1>4, TypedSplit DEF Typed

(* What a user does to the queue keeps the types.                          *)
LEMMA TypedUser == Typed /\ User => Typed'
<1> SUFFICES ASSUME Typed, User PROVE Typed'
  OBVIOUS
<1>0. RowsTyped /\ RestTyped /\ InHand
  BY TypedSplit DEF Typed
<1> USE DEF rows, threads, history
<1>1. ASSUME UNCHANGED <<pc, from, held>>, RowsTyped', RestTyped',
             persisted \subseteq persisted'
      PROVE  Typed'
  BY <1>0, <1>1, TypedSplitNext DEF Typed, InHand
<1>2. ASSUME NEW m \in Msg, Enqueue(m) PROVE Typed'
  <2>1. UNCHANGED <<pc, from, held, persisted>> /\ RestTyped'
    BY <1>0, <1>2 DEF Enqueue, RestTyped
  <2>2. CASE st[m] # "none"
    BY <1>0, <1>1, <1>2, <2>1, <2>2 DEF Enqueue, RowsTyped
  <2>3. CASE st[m] = "none"
    <3>1. /\ queue' = Append(queue, m) /\ st' = [st EXCEPT ![m] = "queued"]
          /\ UNCHANGED <<owner, persisted>>
      BY <1>2, <2>3 DEF Enqueue
    <3>2. /\ queue' \in Seq(Msg) /\ ToSet(queue') = ToSet(queue) \cup {m}
          /\ IsInjective(queue')
      BY <1>0, <2>3, <3>1, Pushed DEF RowsTyped
    <3>3. RowsTyped'
      BY <1>0, <2>3, <3>1, <3>2 DEF RowsTyped, Editable
    <3> QED BY <1>1, <2>1, <3>3
  <2> QED BY <2>2, <2>3
<1>3. ASSUME NEW m \in Msg, Edit(m) PROVE Typed'
  BY <1>0, <1>1, <1>3 DEF Edit, RestTyped, RowsTyped
<1>4. ASSUME NEW m \in Msg, Delete(m) PROVE Typed'
  <2>1. UNCHANGED <<pc, from, held>> /\ RestTyped'
    BY <1>0, <1>4 DEF Delete, RestTyped
  <2>2. RowsTyped' /\ persisted' = persisted
    BY <1>0, <1>4, DeleteEffect DEF Delete
  <2> QED BY <1>1, <2>1, <2>2
<1>5. ASSUME NEW m \in Msg, CancelInsertion(m) PROVE Typed'
  <2>1. UNCHANGED <<pc, from, held>> /\ RestTyped'
    BY <1>0, <1>5 DEF CancelInsertion, RestTyped
  <2>2. RowsTyped' /\ persisted' = persisted
    BY <1>0, <1>5, SetRowEffect DEF CancelInsertion, Editable
  <2> QED BY <1>1, <2>1, <2>2
<1>6. ASSUME NEW m \in Msg, NEW t \in Turn, RequestInsertion(m, t) PROVE Typed'
  <2>1. UNCHANGED <<pc, from, held>> /\ RestTyped'
    BY <1>0, <1>6 DEF RequestInsertion, RestTyped
  <2>2. RowsTyped' /\ persisted' = persisted
    BY <1>0, <1>6, SetRowEffect DEF RequestInsertion, Editable, Sendable
  <2> QED BY <1>1, <2>1, <2>2
<1>7. ASSUME NEW t \in Turn, Stop(t) PROVE Typed'
  BY <1>0, <1>1, <1>7 DEF Stop, RestTyped, RowsTyped
<1> QED BY <1>2, <1>3, <1>4, <1>5, <1>6, <1>7 DEF User

(* The command of a turn.                                                  *)
LEMMA TypedCommand ==
  ASSUME Typed, NEW t \in Turn, Command(t)
  PROVE  Typed'
<1>0. RowsTyped /\ RestTyped /\ InHand /\ t # NoTurn /\ NoMsg \notin Msg
  BY TypedSplit, TurnQueueAssumption DEF Typed, TurnQueueAssumption
<1> USE DEF rows, threads, history, Goto
<1>1. ASSUME RowsTyped', RestTyped', InHand' PROVE Typed'
  BY <1>1, TypedSplitNext DEF Typed
<1>2. ASSUME UNCHANGED rows, RestTyped', InHand' PROVE Typed'
  <2>1. RowsTyped'
    BY <1>0, <1>2 DEF RowsTyped
  <2> QED BY <1>1, <1>2, <2>1
(* A thread that goes on with no claimed row in hand.                      *)
<1>3. ASSUME NEW l, pc' = [pc EXCEPT ![t] = l], UNCHANGED <<from, held>>,
             persisted \subseteq persisted',
             pc[t] \notin {"insert", "hook", "consumeInserted"},
             l \notin {"hook", "consumeInserted", "new"},
             l \in {"consume", "reconcile", "release"} => from[t] # NoMsg
      PROVE  InHand'
  BY <1>0, <1>3 DEF InHand, RestTyped
<1>4. CASE SendNew(t)
  <2>1. RestTyped'
    BY <1>0, <1>4 DEF SendNew, RestTyped, PCs, Starting
  <2> QED BY <1>0, <1>2, <1>3, <1>4, <2>1 DEF SendNew
<1>5. ASSUME NEW m \in Msg, ClaimForDispatch(t, m) PROVE Typed'
  <2>1. /\ pc[t] = "new" /\ st[m] \in Sendable /\ SetRow(m, "dispatching", t)
        /\ from' = [from EXCEPT ![t] = m] /\ pc' = [pc EXCEPT ![t] = "acquire"]
        /\ UNCHANGED <<turn, reg, cancelled, held, watch, history>>
    BY <1>5 DEF ClaimForDispatch
  <2>2. RestTyped'
    BY <1>0, <2>1 DEF RestTyped, PCs, Starting
  <2>3. RowsTyped' /\ persisted' = persisted
    BY <1>0, <2>1, SetRowEffect DEF Sendable
  <2>4. InHand'
    BY <1>0, <2>1, <2>3 DEF InHand, RestTyped
  <2> QED BY <1>1, <2>2, <2>3, <2>4
<1>6. CASE Acquire(t)
  <2>1. RestTyped'
    <3>1. \E l \in {"preflight", "over", "release"} : pc' = [pc EXCEPT ![t] = l]
      BY <1>6 DEF Acquire
    <3>2. reg' \in [turn : Turn \cup {NoTurn}, open : BOOLEAN]
      <4>1. reg' \in {reg, [turn |-> t, open |-> TRUE]}
        BY <1>6 DEF Acquire
      <4>2. [turn |-> t, open |-> TRUE] \in [turn : Turn \cup {NoTurn}, open : BOOLEAN]
        OBVIOUS
      <4> QED BY <1>0, <4>1, <4>2 DEF RestTyped
    <3>3. pc' \in [Turn -> PCs]
      BY <1>0, <3>1 DEF RestTyped, PCs, Starting
    <3> QED BY <1>0, <1>6, <3>2, <3>3 DEF Acquire, RestTyped
  <2>2. InHand'
    BY <1>0, <1>6 DEF Acquire, InHand, RestTyped
  <2> QED BY <1>2, <1>6, <2>1, <2>2 DEF Acquire
(* A failed write changes no row and is recorded.                          *)
<1>61. ASSUME GiveBackFails(t)
       PROVE  UNCHANGED rows /\ abandoned' \subseteq Turn /\ RowsTyped'
  BY <1>0, <1>61 DEF GiveBackFails, RestTyped, RowsTyped
<1>62. CASE FailWorkflowMode(t)
  <2>1. RestTyped'
    BY <1>0, <1>61, <1>62 DEF FailWorkflowMode, RestTyped, PCs
  <2>2. InHand'
    BY <1>3, <1>61, <1>62 DEF FailWorkflowMode
  <2> QED BY <1>1, <1>61, <1>62, <2>1, <2>2 DEF FailWorkflowMode
<1>7. CASE ReleaseDispatch(t)
  <2>1. RestTyped'
    <3>1. abandoned' \subseteq Turn
      BY <1>0, <1>7, <1>61 DEF ReleaseDispatch, RestTyped
    <3> QED BY <1>0, <1>7, <3>1 DEF ReleaseDispatch, RestTyped, PCs, Ending
  <2>2. RowsTyped' /\ persisted' = persisted
    <3>1. CASE UNCHANGED rows
      BY <1>0, <3>1 DEF RowsTyped
    <3>2. CASE from[t] \in Bound(t, {"dispatching"}) /\ SetRow(from[t], "queued", NoTurn)
      BY <1>0, <3>2, SetRowEffect DEF Bound, Editable
    <3> QED BY <1>7, <3>1, <3>2 DEF ReleaseDispatch, GiveBackFails
  <2>3. InHand'
    BY <1>0, <1>7, <2>2 DEF ReleaseDispatch, InHand, RestTyped
  <2> QED BY <1>1, <2>1, <2>2, <2>3
<1>8. CASE BlockPrompt(t)
  <2>1. RestTyped'
    <3>1. abandoned' \subseteq Turn
      BY <1>0, <1>8, <1>61 DEF BlockPrompt, RestTyped
    <3> QED BY <1>0, <1>8, <3>1 DEF BlockPrompt, RestTyped, PCs, Ending
  <2>2. RowsTyped' /\ persisted' = persisted
    <3>1. CASE DeleteRows({from[t]} \cap Msg)
      BY <1>0, <3>1, DeleteEffect
    <3> QED BY <1>8, <1>61, <3>1 DEF BlockPrompt
  <2>3. InHand'
    BY <1>0, <1>8, <2>2 DEF BlockPrompt, InHand, RestTyped
  <2> QED BY <1>1, <2>1, <2>2, <2>3
<1>9. CASE PassPrompt(t)
  <2>1. RestTyped'
    BY <1>0, <1>9 DEF PassPrompt, RestTyped, PCs, Starting
  <2>2. InHand'
    BY <1>0, <1>9 DEF PassPrompt, InHand, RestTyped
  <2> QED BY <1>2, <1>9, <2>1, <2>2 DEF PassPrompt
<1>10. CASE AppendUser(t)
  <2>1. RestTyped'
    BY <1>0, <1>10 DEF AppendUser, RestTyped, PCs, Starting
  <2>2. RowsTyped' /\ persisted \subseteq persisted'
    BY <1>0, <1>10 DEF AppendUser, RowsTyped
  <2>3. InHand'
    BY <1>0, <1>10, <2>2 DEF AppendUser, InHand, RestTyped, RowsTyped
  <2> QED BY <1>1, <2>1, <2>2, <2>3
<1>11. CASE CreateTurn(t)
  <2>1. RestTyped'
    BY <1>0, <1>11 DEF CreateTurn, RestTyped, PCs, Starting, Ending
  <2>2. InHand'
    <3>1. PICK l \in {"start", "consume", "drop", "reconcile"} :
            /\ pc' = [pc EXCEPT ![t] = l]
            /\ l \in {"consume", "reconcile"} => from[t] # NoMsg
      BY <1>11 DEF CreateTurn
    <3>2. pc[t] = "create" /\ UNCHANGED <<from, held, persisted>>
      BY <1>11 DEF CreateTurn
    <3> QED BY <1>3, <3>1, <3>2
  <2> QED BY <1>2, <1>11, <2>1, <2>2 DEF CreateTurn
<1>12. CASE ConsumeDispatched(t)
  <2>1. RestTyped'
    BY <1>0, <1>12 DEF ConsumeDispatched, RestTyped, PCs, Starting
  <2>2. RowsTyped' /\ persisted' = persisted
    <3>1. CASE DeleteRows(Bound(t, {"dispatching"}) \cap {from[t]})
      BY <1>0, <3>1, DeleteEffect
    <3>2. CASE UNCHANGED rows
      BY <1>0, <3>2 DEF RowsTyped
    <3> QED BY <1>12, <3>1, <3>2 DEF ConsumeDispatched
  <2>3. InHand'
    BY <1>0, <1>12, <2>2 DEF ConsumeDispatched, InHand, RestTyped
  <2> QED BY <1>1, <2>1, <2>2, <2>3
<1>13. CASE Reconcile(t)
  <2>1. RestTyped'
    <3>1. abandoned' \subseteq Turn
      BY <1>0, <1>13, <1>61 DEF Reconcile, RestTyped
    <3> QED BY <1>0, <1>13, <3>1 DEF Reconcile, RestTyped, PCs, Ending
  <2>2. RowsTyped' /\ persisted' = persisted
    <3>1. CASE DeleteRows({from[t]})
      BY <1>0, <3>1, DeleteEffect
    <3>2. CASE from[t] \in Bound(t, {"dispatching"}) /\ SetRow(from[t], "queued", NoTurn)
      BY <1>0, <3>2, SetRowEffect DEF Bound, Editable
    <3>3. CASE UNCHANGED rows
      BY <1>0, <3>3 DEF RowsTyped
    <3> QED BY <1>13, <3>1, <3>2, <3>3 DEF Reconcile, GiveBackFails
  <2>3. InHand'
    BY <1>0, <1>13, <2>2 DEF Reconcile, InHand, RestTyped
  <2> QED BY <1>1, <2>1, <2>2, <2>3
<1>14. CASE BeginEngine(t)
  <2>1. RestTyped'
    BY <1>0, <1>14 DEF BeginEngine, RestTyped, PCs, Running
  <2> QED BY <1>2, <1>3, <1>14, <2>1 DEF BeginEngine
<1>15. CASE FailEarly(t)
  <2>1. RestTyped'
    BY <1>0, <1>15 DEF FailEarly, RestTyped, PCs, Ending
  <2> QED BY <1>2, <1>3, <1>15, <2>1 DEF FailEarly
<1>16. CASE DropGuard(t)
  <2>1. RestTyped'
    BY <1>0, <1>16 DEF DropGuard, RestTyped, PCs, NoEntry
  <2> QED BY <1>2, <1>3, <1>16, <2>1 DEF DropGuard
<1> QED BY <1>4, <1>5, <1>6, <1>62, <1>7, <1>8, <1>9, <1>10, <1>11, <1>12, <1>13,
        <1>14, <1>15, <1>16 DEF Command

(* The engine of a turn, and what cuts across.                             *)
LEMMA TypedEngine ==
  ASSUME Typed, NEW t \in Turn, Engine(t)
  PROVE  Typed'
<1>0. RowsTyped /\ RestTyped /\ InHand /\ t # NoTurn
  BY TypedSplit, TurnQueueAssumption DEF Typed, TurnQueueAssumption
<1> USE DEF rows, threads, history, Goto
<1>1. ASSUME RowsTyped', RestTyped', InHand' PROVE Typed'
  BY <1>1, TypedSplitNext DEF Typed
<1>2. ASSUME UNCHANGED rows, RestTyped', InHand' PROVE Typed'
  <2>1. RowsTyped'
    BY <1>0, <1>2 DEF RowsTyped
  <2> QED BY <1>1, <1>2, <2>1
<1>3. ASSUME NEW l, pc' = [pc EXCEPT ![t] = l], UNCHANGED <<from, held, persisted>>,
             pc[t] \notin {"insert", "hook", "consumeInserted"},
             l \in {"engine", "tools", "clear", "fallback", "drop"}
      PROVE  InHand'
  BY <1>0, <1>3 DEF InHand, RestTyped
(* The head of the claimed rows, and what is left behind it.               *)
<1>4. ASSUME pc[t] \in {"hook", "consumeInserted"}
      PROVE  /\ held[t].list \in Seq(Msg) /\ IsInjective(held[t].list)
             /\ Head(held[t].list) \in Msg
             /\ Tail(held[t].list) \in Seq(Msg) /\ IsInjective(Tail(held[t].list))
  BY <1>0, <1>4, TailOf DEF InHand, RestTyped
<1>5. ASSUME InsertDone(t), pc[t] \in {"hook", "consumeInserted"},
             UNCHANGED from, persisted' = persisted
      PROVE  /\ InHand' /\ pc' \in [Turn -> PCs]
             /\ held' \in [Turn -> [list : Seq(Msg), of : Turn \cup {NoTurn}]]
  <2>1. /\ held' = [held EXCEPT ![t].list = Tail(@)]
        /\ pc' = [pc EXCEPT ![t] = "insert"]
    BY <1>5 DEF InsertDone
  <2>2. held' \in [Turn -> [list : Seq(Msg), of : Turn \cup {NoTurn}]]
        /\ held'[t].list = Tail(held[t].list)
        /\ \A u \in Turn \ {t} : held'[u] = held[u]
    BY <1>0, <1>4, <1>5, <2>1 DEF RestTyped
  <2>3. pc' \in [Turn -> PCs]
    BY <1>0, <2>1 DEF RestTyped, PCs, Running
  <2>4. InHand'
    BY <1>0, <1>4, <1>5, <2>1, <2>2 DEF InHand, RestTyped
  <2> QED BY <2>2, <2>3, <2>4
<1>6. CASE StartTools(t)
  <2>1. RestTyped'
    BY <1>0, <1>6 DEF StartTools, RestTyped, PCs, Running
  <2> QED BY <1>2, <1>3, <1>6, <2>1 DEF StartTools
<1>7. CASE Drain(t)
  <2> DEFINE u == reg.turn
             ms == IF u = NoTurn THEN {} ELSE Bound(u, {"waiting"})
  <2>1. pc[t] = "tools" /\ UNCHANGED <<turn, reg, cancelled, from, watch, history>>
    BY <1>7 DEF Drain
  <2>2. CASE pc' = [pc EXCEPT ![t] = "engine"] /\ UNCHANGED <<rows, held>>
    <3>1. RestTyped'
      BY <1>0, <2>1, <2>2 DEF RestTyped, PCs, Running
    <3> QED BY <1>2, <1>3, <2>1, <2>2, <3>1
  <2>3. CASE ~(pc' = [pc EXCEPT ![t] = "engine"] /\ UNCHANGED <<rows, held>>)
    <3>1. /\ st' = [m \in Msg |-> IF m \in ms THEN "inserting" ELSE st[m]]
          /\ held' = [held EXCEPT ![t] = [list |-> Keep(queue, ms), of |-> u]]
          /\ pc' = [pc EXCEPT ![t] = "insert"]
          /\ UNCHANGED <<queue, owner, persisted>>
      BY <1>7, <2>3 DEF Drain
    <3>2. Keep(queue, ms) \in Seq(Msg) /\ IsInjective(Keep(queue, ms))
      <4> HIDE DEF ms
      <4> QED BY <1>0, KeepSpec DEF RowsTyped
    <3>3. u \in Turn \cup {NoTurn}
      BY <1>0 DEF RestTyped
    <3>4. ms \subseteq Msg /\ \A m \in ms : st[m] # "none"
      BY DEF Bound
    <3> HIDE DEF ms, u
    <3>5. RowsTyped'
      BY <1>0, <3>1, <3>4, MarkEffect DEF RowsTyped
    <3>6. RestTyped'
      BY <1>0, <2>1, <3>1, <3>2, <3>3 DEF RestTyped, PCs, Running
    <3>7. held'[t].list = Keep(queue, ms) /\ \A v \in Turn \ {t} : held'[v] = held[v]
      BY <1>0, <3>1 DEF RestTyped
    <3>8. InHand'
      BY <1>0, <2>1, <3>1, <3>2, <3>7 DEF InHand, RestTyped
    <3> QED BY <1>1, <3>5, <3>6, <3>8
  <2> QED BY <2>2, <2>3
<1>8. CASE NextInsert(t)
  <2>1. CASE held[t].list = <<>> \/ held[t].of \in cancelled
    <3>1. /\ pc' = [pc EXCEPT ![t] = "engine"]
          /\ held' = [held EXCEPT ![t] = NothingHeld]
          /\ UNCHANGED <<rows, turn, reg, cancelled, from, watch, history>>
      BY <1>8, <2>1 DEF NextInsert
    <3>2. NothingHeld \in [list : Seq(Msg), of : Turn \cup {NoTurn}]
          /\ NothingHeld.list = <<>> /\ IsInjective(<<>>)
      BY DEF NothingHeld, IsInjective
    <3>3. RestTyped'
      <4> HIDE DEF NothingHeld
      <4> QED BY <1>0, <3>1, <3>2 DEF RestTyped, PCs, Running
    <3>4. InHand'
      BY <1>0, <3>1, <3>2 DEF InHand, RestTyped
    <3> QED BY <1>2, <3>1, <3>3, <3>4
  <2>2. CASE ~(held[t].list = <<>> \/ held[t].of \in cancelled)
    <3>1. /\ pc' = [pc EXCEPT ![t] = "hook"]
          /\ UNCHANGED <<rows, held, turn, reg, cancelled, from, watch, history>>
      BY <1>8, <2>2 DEF NextInsert
    <3>2. RestTyped'
      BY <1>0, <3>1 DEF RestTyped, PCs, Running
    <3>3. InHand'
      BY <1>0, <2>2, <3>1 DEF InHand, RestTyped
    <3> QED BY <1>2, <3>1, <3>2, <3>3
  <2> QED BY <2>1, <2>2
<1>9. CASE InsertRejected(t)
  <2> DEFINE m == Head(held[t].list)
  <2>1. /\ pc[t] = "hook"
        /\ DeleteRows({m}) \/ UNCHANGED rows
        /\ gone' = gone \cup ({m} \ persisted)
        /\ InsertDone(t)
        /\ UNCHANGED <<turn, reg, cancelled, from, watch, handed, sent, stale,
                       began, abandoned, forced, booted>>
    BY <1>9 DEF InsertRejected
  <2>2. m \in Msg
    BY <1>4, <2>1
  <2> HIDE DEF m
  <2>3. RowsTyped' /\ persisted' = persisted
    <3>1. CASE DeleteRows({m})
      BY <1>0, <3>1, DeleteEffect
    <3>2. CASE UNCHANGED rows
      BY <1>0, <3>2 DEF RowsTyped
    <3> QED BY <2>1, <3>1, <3>2
  <2>4. RestTyped' /\ InHand'
    BY <1>0, <1>5, <2>1, <2>2, <2>3 DEF RestTyped
  <2> QED BY <1>1, <2>3, <2>4
<1>10. CASE InsertAppend(t)
  <2> DEFINE m == Head(held[t].list)
  <2>1. /\ pc[t] = "hook" /\ persisted' = persisted \cup {m}
        /\ handed' = [handed EXCEPT ![m] = @ + 1]
        /\ pc' = [pc EXCEPT ![t] = "consumeInserted"]
        /\ UNCHANGED <<queue, st, owner, turn, reg, cancelled, from, held, watch,
                       sent, gone, stale, began, abandoned, forced, booted>>
    BY <1>10 DEF InsertAppend
  <2>2. m \in Msg
    BY <1>4, <2>1
  <2>3. InHand'
    BY <1>0, <2>1 DEF InHand, RestTyped
  <2> HIDE DEF m
  <2>4. RowsTyped'
    BY <1>0, <2>1, <2>2 DEF RowsTyped
  <2>5. RestTyped'
    BY <1>0, <2>1, <2>2 DEF RestTyped, PCs, Running
  <2> QED BY <1>1, <2>3, <2>4, <2>5
<1>11. CASE InsertConsume(t)
  <2>1. /\ pc[t] = "consumeInserted" /\ InsertDone(t)
        /\ UNCHANGED <<turn, reg, cancelled, from, watch, handed, sent, gone,
                       stale, began, abandoned, forced, booted>>
    BY <1>11 DEF InsertConsume
  <2>2. RowsTyped' /\ persisted' = persisted
    <3>1. CASE DeleteRows({Head(held[t].list)})
      BY <1>0, <3>1, DeleteEffect
    <3>2. CASE UNCHANGED rows
      BY <1>0, <3>2 DEF RowsTyped
    <3> QED BY <1>11, <3>1, <3>2 DEF InsertConsume
  <2>3. RestTyped' /\ InHand'
    BY <1>0, <1>5, <2>1, <2>2 DEF RestTyped
  <2> QED BY <1>1, <2>2, <2>3
<1>12. CASE FinishTurn(t)
  <2>1. RestTyped'
    BY <1>0, <1>12 DEF FinishTurn, RestTyped, PCs, Ending
  <2> QED BY <1>2, <1>3, <1>12, <2>1 DEF FinishTurn
<1>13. CASE CloseGate(t)
  <2>1. /\ pc[t] = "clear" /\ pc' = [pc EXCEPT ![t] = "fallback"]
        /\ reg' = [reg EXCEPT !.open = @ /\ reg.turn # t]
        /\ UNCHANGED <<rows, turn, cancelled, from, held, watch, history>>
    BY <1>13 DEF CloseGate
  <2>2. reg' \in [turn : Turn \cup {NoTurn}, open : BOOLEAN]
    BY <1>0, <2>1 DEF RestTyped
  <2>3. RestTyped'
    BY <1>0, <2>1, <2>2 DEF RestTyped, PCs, Ending
  <2> QED BY <1>2, <1>3, <2>1, <2>3
<1>14. CASE FallBack(t)
  <2> DEFINE ms == Bound(t, {"waiting", "inserting"})
  <2>1. /\ pc[t] = "fallback" /\ pc' = [pc EXCEPT ![t] = "drop"]
        /\ UNCHANGED <<queue, persisted, turn, reg, cancelled, from, held, watch,
                       handed, sent, gone, stale, began, forced, booted>>
        /\ abandoned' \in {abandoned, abandoned \cup {t}}
        /\ \/ UNCHANGED rows
           \/ /\ st' = [m \in Msg |-> IF m \in ms THEN "fallback" ELSE st[m]]
              /\ owner' = [m \in Msg |-> IF m \in ms THEN NoTurn ELSE owner[m]]
    BY <1>14 DEF FallBack, GiveBackFails
  <2>2. ms \subseteq Msg /\ \A m \in ms : st[m] # "none"
    BY DEF Bound
  <2> HIDE DEF ms
  <2>3. RowsTyped'
    <3>1. CASE UNCHANGED rows
      BY <1>0, <3>1 DEF RowsTyped
    <3>2. CASE ~UNCHANGED rows
      BY <1>0, <2>1, <2>2, <3>2, MarkEffect DEF RowsTyped, Editable
    <3> QED BY <3>1, <3>2
  <2>4. RestTyped'
    BY <1>0, <2>1 DEF RestTyped, PCs, Ending
  <2> QED BY <1>1, <1>3, <2>1, <2>3, <2>4
<1> QED BY <1>6, <1>7, <1>8, <1>9, <1>10, <1>11, <1>12, <1>13, <1>14 DEF Engine

(* So do the watchdog, a client that leaves and a restart.                 *)
LEMMA TypedRest ==
  ASSUME Typed,
         \/ \E t \in Turn : WatchdogCloses(t) \/ WatchdogReleases(t) \/ Disconnect(t)
         \/ Restart \/ UNCHANGED vars
  PROVE  Typed'
<1>0. RowsTyped /\ RestTyped /\ InHand
  BY TypedSplit DEF Typed
<1> USE DEF rows, threads, history, Goto
<1>1. ASSUME RowsTyped', RestTyped', InHand' PROVE Typed'
  BY <1>1, TypedSplitNext DEF Typed
<1>2. ASSUME UNCHANGED rows, RestTyped', InHand' PROVE Typed'
  <2>1. RowsTyped'
    BY <1>0, <1>2 DEF RowsTyped
  <2> QED BY <1>1, <1>2, <2>1
<1>3. ASSUME UNCHANGED <<rows, threads>>, RestTyped' PROVE Typed'
  BY <1>0, <1>2, <1>3 DEF InHand
<1>4. ASSUME NEW t \in Turn, WatchdogCloses(t) PROVE Typed'
  <2>1. RestTyped'
    BY <1>0, <1>4 DEF WatchdogCloses, RestTyped
  <2> QED BY <1>3, <1>4, <2>1 DEF WatchdogCloses
<1>5. ASSUME NEW t \in Turn, WatchdogReleases(t) PROVE Typed'
  <2>1. RestTyped'
    <3>1. /\ reg' \in {reg, NoEntry} /\ forced' \in {forced, forced \cup {t}}
          /\ watch' = [watch EXCEPT ![t] = "none"]
          /\ UNCHANGED <<rows, turn, cancelled, threads, handed, sent, gone,
                         stale, began, abandoned, booted>>
      BY <1>5 DEF WatchdogReleases
    <3>2. NoEntry \in [turn : Turn \cup {NoTurn}, open : BOOLEAN]
      BY DEF NoEntry
    <3> HIDE DEF NoEntry
    <3> QED BY <1>0, <3>1, <3>2 DEF RestTyped
  <2> QED BY <1>3, <1>5, <2>1 DEF WatchdogReleases
<1>6. NothingHeld \in [list : Seq(Msg), of : Turn \cup {NoTurn}]
      /\ NothingHeld.list = <<>> /\ IsInjective(<<>>)
  BY DEF NothingHeld, IsInjective
<1>7. ASSUME NEW t \in Turn, Disconnect(t) PROVE Typed'
  <2>1. /\ \E l \in {"drop", "clear"} : pc' = [pc EXCEPT ![t] = l]
        /\ turn' = [turn EXCEPT ![t] = IF @ = "running" THEN "over" ELSE @]
        /\ held' = [held EXCEPT ![t] = NothingHeld]
        /\ abandoned' \in {abandoned, abandoned \cup {t}}
        /\ UNCHANGED <<rows, reg, cancelled, from, watch, handed, sent, gone,
                       stale, began, forced, booted>>
    BY <1>7 DEF Disconnect
  <2>2. RestTyped'
    <3> HIDE DEF NothingHeld
    <3> QED BY <1>0, <1>6, <2>1 DEF RestTyped, PCs, Ending
  <2>3. InHand'
    BY <1>0, <1>6, <2>1 DEF InHand, RestTyped
  <2> QED BY <1>2, <2>1, <2>2, <2>3
<1>8. CASE Restart
  <2> DEFINE kept == ToSet(queue) \ persisted
  <2>1. /\ booted' = TRUE
        /\ turn' = [t \in Turn |-> IF turn[t] = "running" THEN "over" ELSE turn[t]]
        /\ reg' = NoEntry /\ cancelled' = {}
        /\ pc' = [t \in Turn |-> IF pc[t] = "new" THEN "new" ELSE "over"]
        /\ held' = [t \in Turn |-> NothingHeld]
        /\ watch' = [t \in Turn |-> "none"]
        /\ abandoned' = {}
        /\ UNCHANGED <<from, persisted, handed, sent, gone, stale, began, forced>>
    BY <1>8 DEF Restart, Boot
  <2>2. /\ queue' = Keep(queue, kept)
        /\ st' = [m \in Msg |->
             IF m \notin kept THEN "none"
             ELSE CASE st[m] \in {"waiting", "inserting"} -> "fallback"
                    [] st[m] = "dispatching" -> "queued"
                    [] OTHER -> st[m]]
        /\ owner' = [m \in Msg |-> NoTurn]
    BY <1>8 DEF Restart
  <2>3. /\ queue' \in Seq(Msg) /\ IsInjective(queue')
        /\ ToSet(queue') = ToSet(queue) \cap kept
    <3> HIDE DEF kept
    <3> QED BY <1>0, <2>2, KeepSpec DEF RowsTyped
  <2>4. RowsTyped'
    BY <1>0, <2>1, <2>2, <2>3 DEF RowsTyped, Editable
  <2>5. RestTyped'
    <3>1. reg' \in [turn : Turn \cup {NoTurn}, open : BOOLEAN]
      BY <2>1 DEF NoEntry
    <3>2. held' \in [Turn -> [list : Seq(Msg), of : Turn \cup {NoTurn}]]
      <4> HIDE DEF NothingHeld
      <4> QED BY <1>6, <2>1
    <3> QED BY <1>0, <2>1, <3>1, <3>2 DEF RestTyped, PCs
  <2>6. InHand'
    <3> HIDE DEF NothingHeld
    <3> QED BY <1>0, <1>6, <2>1 DEF InHand, RestTyped
  <2> QED BY <1>1, <2>4, <2>5, <2>6
<1>9. CASE UNCHANGED vars
  BY <1>0, <1>3, <1>9 DEF vars, RestTyped
<1> QED BY <1>4, <1>5, <1>7, <1>8, <1>9

(* Every step keeps the types.                                             *)
LEMMA TypedStep == Typed /\ [Next]_vars => Typed'
BY TypedUser, TypedCommand, TypedEngine, TypedRest DEF Next

-----------------------------------------------------------------------------
(* A message goes to a model at most once.                                 *)
LEMMA OneCommitStep ==
  ASSUME Typed, OneCommit, [Next]_vars
  PROVE  OneCommit'
<1>0. /\ pc \in [Turn -> PCs] /\ from \in [Turn -> Msg \cup {NoMsg}]
      /\ handed \in [Msg -> Nat] /\ persisted \subseteq Msg /\ NoMsg \notin Msg
  BY TypedSplit, TurnQueueAssumption
     DEF Typed, RestTyped, RowsTyped, TurnQueueAssumption
<1> USE DEF rows, threads, history, Goto
(* The step of a turn that is not about to hand its message over.          *)
<1>1. ASSUME UNCHANGED <<from, handed, persisted>>,
             \A t \in Turn : pc'[t] \in Committed => pc[t] \in Committed \/ from[t] = NoMsg
      PROVE  OneCommit'
  BY <1>0, <1>1 DEF OneCommit
<1>2. ASSUME NEW t \in Turn, UNCHANGED <<from, handed, persisted>>,
             NEW l, pc' = [pc EXCEPT ![t] = l],
             l \in Committed => pc[t] \in Committed \/ from[t] = NoMsg
      PROVE  OneCommit'
  <2>1. \A u \in Turn : pc'[u] \in Committed => pc[u] \in Committed \/ from[u] = NoMsg
    BY <1>0, <1>2
  <2> QED BY <1>1, <1>2, <2>1
<1>3. ASSUME UNCHANGED <<pc, from, handed, persisted>> PROVE OneCommit'
  BY <1>1, <1>3
<1>4. CASE User
  <2>1. ASSUME NEW m \in Msg, Enqueue(m) \/ Edit(m) \/ Delete(m) \/ CancelInsertion(m)
        PROVE  OneCommit'
    <3>1. persisted' = persisted
      BY <2>1 DEF Enqueue, Edit, Delete, CancelInsertion, DeleteRows, SetRow
    <3> QED BY <1>3, <2>1, <3>1 DEF Enqueue, Edit, Delete, CancelInsertion
  <2>2. ASSUME NEW m \in Msg, NEW t \in Turn, RequestInsertion(m, t) PROVE OneCommit'
    BY <1>3, <2>2 DEF RequestInsertion, SetRow
  <2>3. ASSUME NEW t \in Turn, Stop(t) PROVE OneCommit'
    BY <1>3, <2>3 DEF Stop
  <2> QED BY <1>4, <2>1, <2>2, <2>3 DEF User
<1>5. ASSUME NEW t \in Turn, Command(t) PROVE OneCommit'
  <2>1. CASE SendNew(t)
    BY <1>2, <2>1 DEF SendNew, Committed
  <2>2. ASSUME NEW m \in Msg, ClaimForDispatch(t, m) PROVE OneCommit'
    <3>1. /\ pc' = [pc EXCEPT ![t] = "acquire"] /\ from' = [from EXCEPT ![t] = m]
          /\ UNCHANGED <<handed, persisted>>
      BY <2>2 DEF ClaimForDispatch, SetRow
    <3> QED BY <1>0, <3>1 DEF OneCommit, Committed
  <2>3. CASE Acquire(t)
    <3>1. UNCHANGED <<from, handed, persisted>>
          /\ \E l \in {"preflight", "over", "release"} : pc' = [pc EXCEPT ![t] = l]
      BY <2>3 DEF Acquire
    <3> QED BY <1>2, <3>1 DEF Committed
  <2>31. CASE FailWorkflowMode(t)
    BY <1>2, <2>31 DEF FailWorkflowMode, GiveBackFails, Committed
  <2>4. CASE ReleaseDispatch(t)
    BY <1>2, <2>4 DEF ReleaseDispatch, SetRow, GiveBackFails, Committed
  <2>5. CASE BlockPrompt(t)
    BY <1>2, <2>5 DEF BlockPrompt, DeleteRows, GiveBackFails, Committed
  <2>6. CASE PassPrompt(t)
    BY <1>2, <2>6 DEF PassPrompt, Committed
  <2>7. CASE AppendUser(t)
    <3>1. UNCHANGED <<from, handed>>
      BY <2>7 DEF AppendUser
    <3>2. CASE UNCHANGED persisted /\ pc' = [pc EXCEPT ![t] = "reconcile"]
      BY <1>2, <3>1, <3>2 DEF Committed
    <3>3. CASE /\ from[t] \notin persisted
               /\ persisted' = persisted \cup ({from[t]} \cap Msg)
               /\ pc' = [pc EXCEPT ![t] = "create"]
      <4>1. ASSUME NEW u \in Turn \ {t}, pc'[u] \in Committed, from[u] # NoMsg
            PROVE  from[u] # from[t]
        BY <1>0, <3>3, <4>1 DEF OneCommit
      <4> QED BY <1>0, <3>1, <3>3, <4>1 DEF OneCommit
    <3> QED BY <2>7, <3>2, <3>3 DEF AppendUser
  <2>8. CASE CreateTurn(t)
    <3>1. /\ UNCHANGED <<from, handed, persisted>> /\ pc[t] = "create"
          /\ \E l : pc' = [pc EXCEPT ![t] = l]
      BY <2>8 DEF CreateTurn
    <3> QED BY <1>2, <3>1 DEF Committed
  <2>9. CASE ConsumeDispatched(t)
    <3>1. /\ UNCHANGED <<from, handed, persisted>> /\ pc[t] = "consume"
          /\ \E l : pc' = [pc EXCEPT ![t] = l]
      BY <2>9 DEF ConsumeDispatched, DeleteRows
    <3> QED BY <1>2, <3>1 DEF Committed
  <2>10. CASE Reconcile(t)
    BY <1>2, <2>10 DEF Reconcile, DeleteRows, SetRow, GiveBackFails, Committed
  <2>11. CASE BeginEngine(t)
    <3>1. /\ pc[t] = "start" /\ pc' = [pc EXCEPT ![t] = "engine"]
          /\ handed' = [m \in Msg |-> handed[m] + (IF m = from[t] THEN 1 ELSE 0)]
          /\ UNCHANGED <<from, persisted>>
      BY <2>11 DEF BeginEngine
    <3>2. \A m \in Msg : IF m = from[t] THEN handed'[m] = 1 /\ m \in persisted
                                        ELSE handed'[m] = handed[m]
      BY <1>0, <3>1 DEF OneCommit, Committed
    <3>3. \A u \in Turn : pc'[u] \in Committed /\ from[u] # NoMsg =>
            u # t /\ pc[u] \in Committed /\ from[u] # from[t]
      BY <1>0, <3>1 DEF OneCommit, Committed
    <3> QED BY <1>0, <3>1, <3>2, <3>3 DEF OneCommit
  <2>12. CASE FailEarly(t)
    BY <1>2, <2>12 DEF FailEarly, Committed
  <2>13. CASE DropGuard(t)
    BY <1>2, <2>13 DEF DropGuard, Committed
  <2> QED BY <1>5, <2>1, <2>2, <2>3, <2>31, <2>4, <2>5, <2>6, <2>7, <2>8, <2>9,
          <2>10, <2>11, <2>12, <2>13 DEF Command
<1>6. ASSUME NEW t \in Turn, Engine(t) PROVE OneCommit'
  <2>1. CASE StartTools(t) \/ FinishTurn(t) \/ CloseGate(t) \/ FallBack(t)
    <3>1. UNCHANGED <<from, handed, persisted>>
          /\ \E l \in {"tools", "clear", "fallback", "drop"} : pc' = [pc EXCEPT ![t] = l]
      BY <2>1 DEF StartTools, FinishTurn, CloseGate, FallBack, GiveBackFails
    <3> QED BY <1>2, <3>1 DEF Committed
  <2>2. CASE Drain(t)
    <3>1. UNCHANGED <<from, handed, persisted>>
          /\ \E l \in {"engine", "insert"} : pc' = [pc EXCEPT ![t] = l]
      BY <2>2 DEF Drain
    <3> QED BY <1>2, <3>1 DEF Committed
  <2>3. CASE NextInsert(t)
    <3>1. UNCHANGED <<from, handed, persisted>>
          /\ \E l \in {"engine", "hook"} : pc' = [pc EXCEPT ![t] = l]
      BY <2>3 DEF NextInsert
    <3> QED BY <1>2, <3>1 DEF Committed
  <2>4. CASE InsertRejected(t)
    BY <1>2, <2>4 DEF InsertRejected, InsertDone, DeleteRows, Committed
  <2>5. CASE InsertConsume(t)
    BY <1>2, <2>5 DEF InsertConsume, InsertDone, DeleteRows, Committed
  <2>6. CASE InsertAppend(t)
    <3> DEFINE m == Head(held[t].list)
    <3>1. /\ pc[t] = "hook" /\ m \notin persisted /\ persisted' = persisted \cup {m}
          /\ handed' = [handed EXCEPT ![m] = @ + 1]
          /\ pc' = [pc EXCEPT ![t] = "consumeInserted"] /\ UNCHANGED from
      BY <2>6 DEF InsertAppend
    <3>2. m \in Msg
      BY <3>1, TailOf, TypedSplit DEF Typed, RestTyped, InHand
    <3> HIDE DEF m
    <3>3. handed[m] = 0
      BY <1>0, <3>1, <3>2 DEF OneCommit
    <3>4. \A u \in Turn : pc'[u] \in Committed =>
            pc[u] \in Committed /\ (from[u] # NoMsg => from[u] # m)
      BY <1>0, <3>1 DEF OneCommit, Committed
    <3> QED BY <1>0, <3>1, <3>2, <3>3, <3>4 DEF OneCommit
  <2> QED BY <1>6, <2>1, <2>2, <2>3, <2>4, <2>5, <2>6 DEF Engine
<1>7. ASSUME NEW t \in Turn,
             WatchdogCloses(t) \/ WatchdogReleases(t) \/ Disconnect(t)
      PROVE  OneCommit'
  <2>1. CASE WatchdogCloses(t) \/ WatchdogReleases(t)
    BY <1>3, <2>1 DEF WatchdogCloses, WatchdogReleases
  <2>2. CASE Disconnect(t)
    <3>1. UNCHANGED <<from, handed, persisted>>
          /\ \E l \in {"drop", "clear"} : pc' = [pc EXCEPT ![t] = l]
      BY <2>2 DEF Disconnect
    <3> QED BY <1>2, <3>1 DEF Committed
  <2> QED BY <1>7, <2>1, <2>2
<1>8. CASE Restart
  <2>1. /\ UNCHANGED <<from, handed, persisted>>
        /\ pc' = [t \in Turn |-> IF pc[t] = "new" THEN "new" ELSE "over"]
    BY <1>8 DEF Restart, Boot
  <2> QED BY <1>1, <2>1 DEF Committed
<1>9. CASE UNCHANGED vars
  BY <1>3, <1>9 DEF vars
<1> QED BY <1>4, <1>5, <1>6, <1>7, <1>8, <1>9 DEF Next

-----------------------------------------------------------------------------
(* What was accepted stays in the queue, in the transcript, or was shown   *)
(* to the user.                                                            *)
LEMMA NothingLostStep ==
  ASSUME Typed, OneCommit, NothingLost, [Next]_vars
  PROVE  NothingLost'
<1>0. RowsTyped /\ RestTyped /\ InHand /\ NoMsg \notin Msg
  BY TypedSplit, TurnQueueAssumption DEF Typed, TurnQueueAssumption
<1> USE DEF rows, threads, history
<1>1. ASSUME UNCHANGED sent, persisted \subseteq persisted', gone \subseteq gone',
             ToSet(queue) \subseteq ToSet(queue') \cup persisted' \cup gone'
      PROVE  NothingLost'
  BY <1>1 DEF NothingLost
<1>2. ASSUME UNCHANGED <<sent, queue>>, persisted \subseteq persisted',
             gone \subseteq gone'
      PROVE  NothingLost'
  BY <1>1, <1>2 DEF ToSet
<1>3. ASSUME NEW ms, DeleteRows(ms), UNCHANGED sent, gone \subseteq gone',
             ms \cap ToSet(queue) \subseteq persisted \cup gone'
      PROVE  NothingLost'
  BY <1>0, <1>1, <1>3, DeleteEffect
<1>4. CASE User
  <2>1. ASSUME NEW m \in Msg, Enqueue(m) PROVE NothingLost'
    <3>1. sent' = [sent EXCEPT ![m] = @ + 1] /\ UNCHANGED <<gone, persisted>>
      BY <2>1 DEF Enqueue
    <3>2. ToSet(queue') = ToSet(queue) \cup {m}
      <4>1. CASE st[m] = "none"
        <5>1. queue \in Seq(Msg) /\ queue' = Append(queue, m)
          BY <1>0, <2>1, <4>1 DEF Enqueue, RowsTyped
        <5> QED BY <5>1, Pushed
      <4>2. CASE st[m] # "none"
        BY <1>0, <2>1, <4>2 DEF Enqueue, RowsTyped
      <4> QED BY <4>1, <4>2
    <3> QED BY <1>0, <3>1, <3>2 DEF NothingLost, RestTyped
  <2>2. ASSUME NEW m \in Msg, Edit(m) \/ CancelInsertion(m) PROVE NothingLost'
    BY <1>2, <2>2 DEF Edit, CancelInsertion, SetRow
  <2>3. ASSUME NEW m \in Msg, Delete(m) PROVE NothingLost'
    BY <1>3, <2>3 DEF Delete
  <2>4. ASSUME NEW m \in Msg, NEW t \in Turn, RequestInsertion(m, t) PROVE NothingLost'
    BY <1>2, <2>4 DEF RequestInsertion, SetRow
  <2>5. ASSUME NEW t \in Turn, Stop(t) PROVE NothingLost'
    BY <1>2, <2>5 DEF Stop
  <2> QED BY <1>4, <2>1, <2>2, <2>3, <2>4, <2>5 DEF User
<1>5. ASSUME NEW t \in Turn, Command(t) PROVE NothingLost'
  <2>1. CASE \/ SendNew(t) \/ Acquire(t) \/ PassPrompt(t) \/ CreateTurn(t)
             \/ BeginEngine(t) \/ FailEarly(t) \/ DropGuard(t)
             \/ FailWorkflowMode(t)
    BY <1>2, <2>1 DEF SendNew, Acquire, PassPrompt, CreateTurn, BeginEngine,
                      FailEarly, DropGuard, FailWorkflowMode, GiveBackFails
  <2>2. ASSUME NEW m \in Msg, ClaimForDispatch(t, m) PROVE NothingLost'
    BY <1>2, <2>2 DEF ClaimForDispatch, SetRow
  <2>3. CASE ReleaseDispatch(t)
    <3>1. UNCHANGED <<queue, persisted, sent, gone>>
      BY <2>3 DEF ReleaseDispatch, SetRow, GiveBackFails
    <3> QED BY <1>2, <3>1
  <2>4. CASE BlockPrompt(t)
    <3>1. CASE DeleteRows({from[t]} \cap Msg)
      BY <1>3, <2>4, <3>1 DEF BlockPrompt
    <3>2. CASE UNCHANGED rows
      BY <1>2, <2>4, <3>2 DEF BlockPrompt
    <3> QED BY <2>4, <3>1, <3>2 DEF BlockPrompt, GiveBackFails
  <2>5. CASE AppendUser(t)
    BY <1>2, <2>5 DEF AppendUser
  <2>6. CASE ConsumeDispatched(t)
    <3>1. from[t] \in persisted
      BY <1>0, <2>6 DEF ConsumeDispatched, InHand, OneCommit, Committed
    <3>2. CASE DeleteRows(Bound(t, {"dispatching"}) \cap {from[t]})
      BY <1>3, <2>6, <3>1, <3>2 DEF ConsumeDispatched
    <3>3. CASE UNCHANGED rows
      BY <1>2, <2>6, <3>3 DEF ConsumeDispatched
    <3> QED BY <2>6, <3>2, <3>3 DEF ConsumeDispatched
  <2>7. CASE Reconcile(t)
    <3>1. CASE from[t] \in persisted /\ DeleteRows({from[t]})
      BY <1>3, <2>7, <3>1 DEF Reconcile
    <3>2. CASE ~(from[t] \in persisted /\ DeleteRows({from[t]}))
      <4>1. UNCHANGED <<queue, persisted, sent, gone>>
        BY <2>7, <3>2 DEF Reconcile, SetRow, GiveBackFails
      <4> QED BY <1>2, <4>1
    <3> QED BY <3>1, <3>2
  <2> QED BY <1>5, <2>1, <2>2, <2>3, <2>4, <2>5, <2>6, <2>7 DEF Command
<1>6. ASSUME NEW t \in Turn, Engine(t) PROVE NothingLost'
  <2>1. CASE \/ StartTools(t) \/ NextInsert(t) \/ InsertAppend(t) \/ FinishTurn(t)
             \/ CloseGate(t) \/ FallBack(t)
    BY <1>2, <2>1 DEF StartTools, NextInsert, InsertAppend, FinishTurn, CloseGate,
                      FallBack, GiveBackFails
  <2>2. CASE Drain(t)
    <3>1. UNCHANGED <<queue, persisted, sent, gone>>
      BY <2>2 DEF Drain
    <3> QED BY <1>2, <3>1
  <2>3. CASE InsertRejected(t)
    <3>1. CASE DeleteRows({Head(held[t].list)})
      BY <1>3, <2>3, <3>1 DEF InsertRejected
    <3>2. CASE UNCHANGED rows
      BY <1>2, <2>3, <3>2 DEF InsertRejected
    <3> QED BY <2>3, <3>1, <3>2 DEF InsertRejected
  <2>4. CASE InsertConsume(t)
    <3>1. Head(held[t].list) \in persisted
      BY <1>0, <2>4 DEF InsertConsume, InHand
    <3>2. CASE DeleteRows({Head(held[t].list)})
      BY <1>3, <2>4, <3>1, <3>2 DEF InsertConsume
    <3>3. CASE UNCHANGED rows
      BY <1>2, <2>4, <3>3 DEF InsertConsume
    <3> QED BY <2>4, <3>2, <3>3 DEF InsertConsume
  <2> QED BY <1>6, <2>1, <2>2, <2>3, <2>4 DEF Engine
<1>7. ASSUME NEW t \in Turn,
             WatchdogCloses(t) \/ WatchdogReleases(t) \/ Disconnect(t)
      PROVE  NothingLost'
  BY <1>2, <1>7 DEF WatchdogCloses, WatchdogReleases, Disconnect
<1>8. CASE Restart
  <2>1. ToSet(queue') = ToSet(queue) \ persisted
    BY <1>0, <1>8, KeepSpec DEF Restart, RowsTyped
  <2> QED BY <1>1, <1>8, <2>1 DEF Restart, Boot
<1>9. CASE UNCHANGED vars
  BY <1>2, <1>9 DEF vars
<1> QED BY <1>4, <1>5, <1>6, <1>7, <1>8, <1>9 DEF Next

-----------------------------------------------------------------------------
(* Rows become bound to a turn in two ways only: by a request to insert    *)
(* them, and by the claim of the message the turn will send.               *)
InsertBound == {"waiting", "inserting"}

BoundKept ==
  \A t \in Turn : /\ Bound(t, InsertBound)' \subseteq Bound(t, InsertBound)
                  /\ Bound(t, {"dispatching"})' \subseteq Bound(t, {"dispatching"})

(* Rows come to be bound to a turn only by a request for insertion or by a *)
(* claim.                                                                  *)
LEMMA BoundChanges ==
  ASSUME Typed, [Next]_vars
  PROVE  \/ BoundKept
         \/ \E m \in Msg, t \in Turn : RequestInsertion(m, t)
         \/ \E m \in Msg, t \in Turn : ClaimForDispatch(t, m)
<1>0. RowsTyped /\ NoTurn \notin Turn
  BY TypedSplit, TurnQueueAssumption DEF Typed, TurnQueueAssumption
<1> USE DEF rows, threads, history
<1>1. ASSUME UNCHANGED <<st, owner>> PROVE BoundKept
  BY <1>1 DEF BoundKept, Bound
<1>2. ASSUME NEW ms, DeleteRows(ms) PROVE BoundKept
  BY <1>0, <1>2, DeleteEffect DEF BoundKept, Bound, InsertBound
<1>3. ASSUME NEW m \in Msg, SetRow(m, "queued", NoTurn) PROVE BoundKept
  BY <1>0, <1>3 DEF SetRow, BoundKept, Bound, RowsTyped
<1>4. ASSUME User, ~ \E m \in Msg, t \in Turn : RequestInsertion(m, t)
      PROVE  BoundKept
  <2>1. ASSUME NEW m \in Msg, Enqueue(m) PROVE BoundKept
    <3>1. CASE UNCHANGED rows
      BY <1>1, <3>1
    <3>2. CASE st' = [st EXCEPT ![m] = "queued"] /\ UNCHANGED owner
      BY <1>0, <3>2 DEF BoundKept, Bound, RowsTyped, InsertBound
    <3> QED BY <2>1, <3>1, <3>2 DEF Enqueue
  <2>2. ASSUME NEW m \in Msg, Edit(m) \/ Delete(m) \/ CancelInsertion(m)
        PROVE  BoundKept
    BY <1>1, <1>2, <1>3, <2>2 DEF Edit, Delete, CancelInsertion
  <2>3. ASSUME NEW t \in Turn, Stop(t) PROVE BoundKept
    BY <1>1, <2>3 DEF Stop
  <2> QED BY <1>4, <2>1, <2>2, <2>3 DEF User
<1>5. ASSUME NEW t \in Turn, Command(t), ~ \E m \in Msg : ClaimForDispatch(t, m)
      PROVE  BoundKept
  <2>1. CASE \/ SendNew(t) \/ Acquire(t) \/ PassPrompt(t) \/ CreateTurn(t)
             \/ AppendUser(t) \/ BeginEngine(t) \/ FailEarly(t) \/ DropGuard(t)
             \/ FailWorkflowMode(t)
    BY <1>1, <2>1 DEF SendNew, Acquire, PassPrompt, CreateTurn, AppendUser,
                      BeginEngine, FailEarly, DropGuard, FailWorkflowMode, GiveBackFails
  <2>2. CASE ReleaseDispatch(t) \/ Reconcile(t)
    <3>1. \/ SetRow(from[t], "queued", NoTurn) /\ from[t] \in Msg
          \/ DeleteRows({from[t]}) \/ UNCHANGED rows
      BY <2>2 DEF ReleaseDispatch, Reconcile, Bound, GiveBackFails
    <3> QED BY <1>1, <1>2, <1>3, <3>1
  <2>3. CASE BlockPrompt(t) \/ ConsumeDispatched(t)
    <3>1. (\E ms : DeleteRows(ms)) \/ UNCHANGED rows
      BY <2>3 DEF BlockPrompt, ConsumeDispatched, GiveBackFails
    <3> QED BY <1>1, <1>2, <3>1
  <2> QED BY <1>5, <2>1, <2>2, <2>3 DEF Command
<1>6. ASSUME NEW t \in Turn, Engine(t) PROVE BoundKept
  <2>1. CASE \/ StartTools(t) \/ NextInsert(t) \/ InsertAppend(t) \/ FinishTurn(t)
             \/ CloseGate(t)
    BY <1>1, <2>1 DEF StartTools, NextInsert, InsertAppend, FinishTurn, CloseGate
  <2>2. CASE Drain(t)
    <3>1. UNCHANGED owner
          /\ \A m \in Msg : st'[m] = st[m] \/ (st[m] = "waiting" /\ st'[m] = "inserting")
      BY <2>2 DEF Drain, Bound
    <3> QED BY <3>1 DEF BoundKept, Bound, InsertBound
  <2>3. CASE InsertRejected(t) \/ InsertConsume(t)
    <3>1. (\E ms : DeleteRows(ms)) \/ UNCHANGED rows
      BY <2>3 DEF InsertRejected, InsertConsume
    <3> QED BY <1>1, <1>2, <3>1
  <2>4. CASE FallBack(t)
    <3>1. CASE UNCHANGED rows
      BY <1>1, <3>1
    <3>2. CASE ~UNCHANGED rows
      BY <1>0, <2>4, <3>2 DEF FallBack, GiveBackFails, BoundKept, Bound, InsertBound
    <3> QED BY <3>1, <3>2
  <2> QED BY <1>6, <2>1, <2>2, <2>3, <2>4 DEF Engine
<1>7. ASSUME NEW t \in Turn,
             WatchdogCloses(t) \/ WatchdogReleases(t) \/ Disconnect(t)
      PROVE  BoundKept
  BY <1>1, <1>7 DEF WatchdogCloses, WatchdogReleases, Disconnect
<1>8. CASE Restart
  BY <1>0, <1>8 DEF Restart, BoundKept, Bound
<1>9. CASE UNCHANGED vars
  BY <1>1, <1>9 DEF vars
<1> QED BY <1>4, <1>5, <1>6, <1>7, <1>8, <1>9 DEF Next

-----------------------------------------------------------------------------
(* The gate of a turn that began is open only while its clean-up is ahead. *)
LEMMA GateGuardsStep ==
  ASSUME Typed, GateGuards, [Next]_vars
  PROVE  GateGuards'
<1>0. /\ pc \in [Turn -> PCs] /\ began \subseteq Turn /\ NoTurn \notin Turn
      /\ reg \in [turn : Turn \cup {NoTurn}, open : BOOLEAN]
      /\ from \in [Turn -> Msg \cup {NoMsg}]
  BY TypedSplit, TurnQueueAssumption DEF Typed, RestTyped, TurnQueueAssumption
<1> USE DEF rows, threads, history, Goto
<1>1. ASSUME UNCHANGED <<pc, began>>, reg' \in {reg, NoEntry} PROVE GateGuards'
  BY <1>0, <1>1 DEF GateGuards, NoEntry
(* A turn that has not begun may do what it likes.                         *)
<1>2. ASSUME NEW t \in Turn, began' = began, NEW l, pc' = [pc EXCEPT ![t] = l],
             pc[t] \in {"new", "start"} \cup Starting,
             reg' \in {reg, [turn |-> t, open |-> TRUE]}
      PROVE  GateGuards'
  <2>1. t \notin began
    BY <1>2 DEF GateGuards, Starting, Running, Ending
  <2>2. \A u \in began : pc'[u] = pc[u] /\ (reg'.turn = u /\ reg'.open => reg.turn = u /\ reg.open)
    BY <1>0, <1>2, <2>1
  <2> QED BY <1>2, <2>2 DEF GateGuards
(* A turn whose engine runs and goes on running, or goes to its clean-up.  *)
<1>3. ASSUME NEW t \in Turn, began' = began, reg' = reg,
             NEW l \in Running \cup {"clear"}, pc' = [pc EXCEPT ![t] = l]
      PROVE  GateGuards'
  BY <1>0, <1>3 DEF GateGuards, Ending
<1>4. CASE User
  <2>1. UNCHANGED <<pc, began, reg>>
    BY <1>4 DEF User, Enqueue, Edit, Delete, CancelInsertion, RequestInsertion, Stop
  <2> QED BY <1>1, <2>1
<1>5. ASSUME NEW t \in Turn, Command(t) PROVE GateGuards'
  <2>1. ASSUME NEW m \in Msg, ClaimForDispatch(t, m) PROVE GateGuards'
    BY <1>2, <2>1 DEF ClaimForDispatch
  <2>2. CASE SendNew(t)
    BY <1>2, <2>2 DEF SendNew
  <2>3. CASE Acquire(t)
    <3>1. /\ reg' \in {reg, [turn |-> t, open |-> TRUE]} /\ began' = began
          /\ pc[t] = "acquire" /\ \E l : pc' = [pc EXCEPT ![t] = l]
      BY <2>3 DEF Acquire
    <3> QED BY <1>2, <3>1 DEF Starting
  <2>4. CASE \/ ReleaseDispatch(t) \/ BlockPrompt(t) \/ Reconcile(t) \/ FailEarly(t)
             \/ FailWorkflowMode(t)
    BY <1>2, <2>4 DEF ReleaseDispatch, BlockPrompt, Reconcile, FailEarly,
                      FailWorkflowMode, Starting
  <2>5. CASE PassPrompt(t) \/ AppendUser(t) \/ CreateTurn(t) \/ ConsumeDispatched(t)
    <3>1. /\ reg' = reg /\ began' = began /\ pc[t] \in Starting
          /\ \E l : pc' = [pc EXCEPT ![t] = l]
      BY <2>5 DEF PassPrompt, AppendUser, CreateTurn, ConsumeDispatched, Starting
    <3> QED BY <1>2, <3>1
  <2>6. CASE BeginEngine(t)
    BY <1>0, <2>6 DEF BeginEngine, GateGuards, Running
  <2>7. CASE DropGuard(t)
    <3>1. /\ pc[t] = "drop" /\ pc' = [pc EXCEPT ![t] = "over"] /\ began' = began
          /\ reg' \in {reg, NoEntry}
      BY <2>7 DEF DropGuard
    <3> QED BY <1>0, <3>1 DEF GateGuards, NoEntry, Running
  <2> QED BY <1>5, <2>1, <2>2, <2>3, <2>4, <2>5, <2>6, <2>7 DEF Command
<1>6. ASSUME NEW t \in Turn, Engine(t) PROVE GateGuards'
  <2>1. CASE StartTools(t) \/ InsertRejected(t) \/ InsertAppend(t)
             \/ InsertConsume(t) \/ FinishTurn(t)
    <3>1. /\ reg' = reg /\ began' = began
          /\ \E l \in Running \cup {"clear"} : pc' = [pc EXCEPT ![t] = l]
      BY <2>1 DEF StartTools, InsertRejected, InsertAppend, InsertConsume,
                  InsertDone, FinishTurn, Running
    <3> QED BY <1>3, <3>1
  <2>2. CASE Drain(t)
    <3>1. reg' = reg /\ began' = began
          /\ \E l \in Running : pc' = [pc EXCEPT ![t] = l]
      BY <2>2 DEF Drain, Running
    <3> QED BY <1>3, <3>1
  <2>3. CASE NextInsert(t)
    <3>1. reg' = reg /\ began' = began
          /\ \E l \in Running : pc' = [pc EXCEPT ![t] = l]
      BY <2>3 DEF NextInsert, Running
    <3> QED BY <1>3, <3>1
  <2>4. CASE CloseGate(t)
    <3>1. /\ pc' = [pc EXCEPT ![t] = "fallback"] /\ began' = began
          /\ reg'.turn = reg.turn /\ reg'.open = (reg.open /\ reg.turn # t)
      BY <1>0, <2>4 DEF CloseGate
    <3> QED BY <1>0, <3>1 DEF GateGuards, Ending
  <2>5. CASE FallBack(t)
    <3>1. /\ pc[t] = "fallback" /\ pc' = [pc EXCEPT ![t] = "drop"]
          /\ began' = began /\ reg' = reg
      BY <2>5 DEF FallBack
    <3> QED BY <1>0, <3>1 DEF GateGuards, Ending, Running
  <2> QED BY <1>6, <2>1, <2>2, <2>3, <2>4, <2>5 DEF Engine
<1>7. ASSUME NEW t \in Turn, WatchdogCloses(t) \/ WatchdogReleases(t)
      PROVE  GateGuards'
  <2>1. UNCHANGED <<pc, began>> /\ reg' \in {reg, NoEntry}
    <3>1. CASE WatchdogCloses(t)
      BY <3>1 DEF WatchdogCloses
    <3>2. CASE WatchdogReleases(t)
      BY <3>2 DEF WatchdogReleases
    <3> QED BY <1>7, <3>1, <3>2
  <2> QED BY <1>1, <2>1
<1>8. ASSUME NEW t \in Turn, Disconnect(t) PROVE GateGuards'
  <2>1. CASE pc[t] \in {"acquire", "preflight", "release", "reconcile", "start"}
    BY <1>2, <1>8, <2>1 DEF Disconnect, Starting
  <2>2. CASE pc[t] \in {"engine", "tools", "hook"}
    BY <1>3, <1>8, <2>2 DEF Disconnect
  <2> QED BY <1>8, <2>1, <2>2 DEF Disconnect
<1>9. CASE Restart
  <2>1. /\ pc' = [t \in Turn |-> IF pc[t] = "new" THEN "new" ELSE "over"]
        /\ reg' = NoEntry /\ began' = began
    BY <1>9 DEF Restart, Boot
  <2> QED BY <1>0, <2>1 DEF GateGuards, NoEntry, Starting, Running, Ending
<1>10. CASE UNCHANGED vars
  BY <1>1, <1>10 DEF vars
<1> QED BY <1>4, <1>5, <1>6, <1>7, <1>8, <1>9, <1>10 DEF Next

(* Only the start of its engine makes a turn one that began.               *)
LEMMA BeganBy ==
  ASSUME [Next]_vars, NEW t \in began', t \notin began
  PROVE  BeginEngine(t)
<1> USE DEF history
<1>1. CASE User
  BY <1>1 DEF User, Enqueue, Edit, Delete, CancelInsertion, RequestInsertion, Stop
<1>2. ASSUME NEW u \in Turn, Command(u) PROVE BeginEngine(t)
  <2>1. CASE BeginEngine(u)
    BY <2>1 DEF BeginEngine
  <2>2. CASE ~BeginEngine(u)
    <3>1. CASE \E m \in Msg : ClaimForDispatch(u, m)
      BY <3>1 DEF ClaimForDispatch
    <3> QED BY <1>2, <2>2, <3>1 DEF Command, SendNew, FailWorkflowMode, Acquire,
          ReleaseDispatch, BlockPrompt, PassPrompt, AppendUser, CreateTurn,
          ConsumeDispatched, Reconcile, FailEarly, DropGuard
  <2> QED BY <2>1, <2>2
<1>3. ASSUME NEW u \in Turn, Engine(u) PROVE FALSE
  BY <1>3 DEF Engine, StartTools, Drain, NextInsert, InsertRejected, InsertAppend,
              InsertConsume, FinishTurn, CloseGate, FallBack
<1>4. ASSUME NEW u \in Turn,
             WatchdogCloses(u) \/ WatchdogReleases(u) \/ Disconnect(u)
      PROVE  FALSE
  BY <1>4 DEF WatchdogCloses, WatchdogReleases, Disconnect
<1>5. CASE Restart
  BY <1>5 DEF Restart, Boot
<1>6. CASE UNCHANGED vars
  BY <1>6 DEF vars
<1> QED BY <1>1, <1>2, <1>3, <1>4, <1>5, <1>6 DEF Next

(* A turn that did not give back what it took stays one until the program  *)
(* starts again.                                                           *)
LEMMA AbandonedGrows == [Next]_vars => abandoned \subseteq abandoned' \/ Restart
<1> SUFFICES ASSUME [Next]_vars, ~Restart PROVE abandoned \subseteq abandoned'
  OBVIOUS
<1> USE DEF history
<1>1. CASE User
  BY <1>1 DEF User, Enqueue, Edit, Delete, CancelInsertion, RequestInsertion, Stop
<1>2. ASSUME NEW t \in Turn, Command(t) PROVE abandoned \subseteq abandoned'
  <2>1. CASE \E m \in Msg : ClaimForDispatch(t, m)
    BY <2>1 DEF ClaimForDispatch
  <2> QED BY <1>2, <2>1 DEF Command, GiveBackFails, SendNew, FailWorkflowMode, Acquire,
        ReleaseDispatch, BlockPrompt, PassPrompt, AppendUser, CreateTurn,
        ConsumeDispatched, Reconcile, BeginEngine, FailEarly, DropGuard
<1>3. ASSUME NEW t \in Turn, Engine(t) PROVE abandoned \subseteq abandoned'
  BY <1>3 DEF Engine, GiveBackFails, StartTools, Drain, NextInsert, InsertRejected,
              InsertAppend, InsertConsume, FinishTurn, CloseGate, FallBack
<1>4. ASSUME NEW t \in Turn,
             WatchdogCloses(t) \/ WatchdogReleases(t) \/ Disconnect(t)
      PROVE  abandoned \subseteq abandoned'
  BY <1>4 DEF WatchdogCloses, WatchdogReleases, Disconnect
<1>5. CASE UNCHANGED vars
  BY <1>5 DEF vars
<1> QED BY <1>1, <1>2, <1>3, <1>4, <1>5 DEF Next

(* A row bound to a turn that began has that turn's clean-up ahead of it,  *)
(* unless the clean-up failed.                                             *)
LEMMA BoundRowsStep ==
  ASSUME Typed, GateGuards, BoundRowsFallBack, [Next]_vars
  PROVE  BoundRowsFallBack'
<1>0. /\ RowsTyped /\ pc \in [Turn -> PCs] /\ began \subseteq Turn
      /\ NoTurn \notin Turn
  BY TypedSplit, TurnQueueAssumption DEF Typed, RestTyped, TurnQueueAssumption
<1> DEFINE Ahead == Running \cup {"clear", "fallback"}
<1>1. ASSUME NEW t \in Turn, pc[t] \in Ahead, pc'[t] \notin Ahead
      PROVE  Bound(t, InsertBound)' = {} \/ t \in abandoned'
  <2> USE DEF rows, threads, history, Goto
  <2>1. ASSUME NEW u \in Turn, NEW l, pc' = [pc EXCEPT ![u] = l],
               pc[u] \notin Ahead \/ l \in Ahead
        PROVE  FALSE
    BY <1>0, <1>1, <2>1
  <2>2. CASE User
    BY <1>1, <2>2 DEF User, Enqueue, Edit, Delete, CancelInsertion,
                      RequestInsertion, Stop
  <2>3. ASSUME NEW u \in Turn, Command(u) PROVE FALSE
    <3>1. pc[u] \notin Ahead /\ \E l : pc' = [pc EXCEPT ![u] = l]
      <4>1. CASE \E m \in Msg : ClaimForDispatch(u, m)
        BY <4>1 DEF ClaimForDispatch, Running
      <4>2. CASE Acquire(u)
        BY <4>2 DEF Acquire, Running
      <4>3. CASE CreateTurn(u)
        BY <4>3 DEF CreateTurn, Running
      <4>4. CASE SendNew(u) \/ ReleaseDispatch(u) \/ BlockPrompt(u) \/ PassPrompt(u)
                 \/ AppendUser(u) \/ FailWorkflowMode(u)
        BY <4>4 DEF SendNew, ReleaseDispatch, BlockPrompt, PassPrompt, AppendUser,
                    FailWorkflowMode, Running
      <4>5. CASE ConsumeDispatched(u) \/ Reconcile(u) \/ BeginEngine(u)
                 \/ FailEarly(u) \/ DropGuard(u)
        BY <4>5 DEF ConsumeDispatched, Reconcile, BeginEngine, FailEarly, DropGuard,
                    Running
      <4> QED BY <2>3, <4>1, <4>2, <4>3, <4>4, <4>5 DEF Command
    <3> QED BY <2>1, <3>1
  <2>4. ASSUME NEW u \in Turn, Engine(u)
        PROVE  Bound(t, InsertBound)' = {} \/ t \in abandoned'
    <3>1. CASE ~FallBack(u)
      <4>1. \E l \in Ahead : pc' = [pc EXCEPT ![u] = l]
        <5>1. CASE Drain(u)
          BY <5>1 DEF Drain, Running
        <5>2. CASE NextInsert(u)
          BY <5>2 DEF NextInsert, Running
        <5>3. CASE StartTools(u) \/ InsertRejected(u) \/ InsertAppend(u)
                   \/ InsertConsume(u) \/ FinishTurn(u) \/ CloseGate(u)
          BY <5>3 DEF StartTools, InsertRejected, InsertAppend, InsertConsume,
                      InsertDone, FinishTurn, CloseGate, Running
        <5> QED BY <2>4, <3>1, <5>1, <5>2, <5>3 DEF Engine
      <4> QED BY <2>1, <4>1
    <3>2. CASE FallBack(u)
      <4>1. u = t
        BY <1>0, <1>1, <3>2 DEF FallBack
      <4> QED BY <1>0, <3>2, <4>1 DEF FallBack, GiveBackFails, Bound, InsertBound
    <3> QED BY <3>1, <3>2
  <2>5. ASSUME NEW u \in Turn,
               WatchdogCloses(u) \/ WatchdogReleases(u) \/ Disconnect(u)
        PROVE  FALSE
    <3>1. CASE WatchdogCloses(u) \/ WatchdogReleases(u)
      BY <1>1, <3>1 DEF WatchdogCloses, WatchdogReleases
    <3>2. CASE Disconnect(u)
      BY <2>1, <3>2 DEF Disconnect, Running
    <3> QED BY <2>5, <3>1, <3>2
  <2>6. CASE Restart
    BY <1>0, <2>6 DEF Restart, Bound
  <2>7. CASE UNCHANGED vars
    BY <1>1, <2>7 DEF vars
  <2> QED BY <2>2, <2>3, <2>4, <2>5, <2>6, <2>7 DEF Next
<1>2. ASSUME NEW t \in began', Bound(t, InsertBound)' # {}
      PROVE  pc'[t] \in Ahead \/ t \in abandoned'
  <2>0. began' \subseteq Turn
    BY TypedStep, TypedSplitNext DEF Typed, RestTyped
  <2>1. CASE t \notin began
    <3>1. BeginEngine(t)
      BY <1>2, <2>1, BeganBy
    <3> QED BY <1>0, <2>0, <3>1 DEF BeginEngine, Goto, Running
  <2>2. CASE t \in began /\ Bound(t, InsertBound) # {}
    <3>1. ~Restart
      BY <1>0, <1>2, <2>0 DEF Restart, Bound
    <3>2. pc[t] \in Ahead \/ t \in abandoned
      BY <2>2 DEF BoundRowsFallBack, InsertBound
    <3> QED BY <1>0, <1>1, <1>2, <2>2, <3>1, <3>2, AbandonedGrows
  <2>3. CASE t \in began /\ Bound(t, InsertBound) = {}
    <3>1. ~BoundKept
      BY <1>2, <2>0, <2>3 DEF BoundKept
    <3>2. CASE \E m \in Msg, u \in Turn : ClaimForDispatch(u, m)
      <4>1. PICK m \in Msg, u \in Turn : ClaimForDispatch(u, m)
        BY <3>2
      <4>2. Bound(t, InsertBound)' \subseteq Bound(t, InsertBound)
        BY <1>0, <4>1 DEF ClaimForDispatch, SetRow, Bound, InsertBound, RowsTyped
      <4> QED BY <1>2, <2>3, <4>2
    <3>3. CASE \E m \in Msg, u \in Turn : RequestInsertion(m, u)
      <4>1. PICK m \in Msg, u \in Turn : RequestInsertion(m, u)
        BY <3>3
      <4>2. u # t => Bound(t, InsertBound)' \subseteq Bound(t, InsertBound)
        BY <1>0, <4>1 DEF RequestInsertion, SetRow, Bound, RowsTyped
      <4>3. u = t
        BY <1>2, <2>3, <4>2
      <4> QED BY <1>0, <2>3, <4>1, <4>3 DEF RequestInsertion, GateGuards, threads
    <3> QED BY <3>1, <3>2, <3>3, BoundChanges
  <2> QED BY <2>1, <2>2, <2>3
<1> QED BY <1>2 DEF BoundRowsFallBack, InsertBound

(* A row claimed for dispatch is the one its turn was started from, and    *)
(* the command that claimed it will consume it or give it back.            *)
LEMMA DispatchStep ==
  ASSUME Typed, DispatchIsFrom, DispatchDriven, [Next]_vars
  PROVE  DispatchIsFrom' /\ DispatchDriven'
<1>0. /\ RowsTyped /\ RestTyped /\ InHand /\ NoTurn \notin Turn /\ NoMsg \notin Msg
  BY TypedSplit, TurnQueueAssumption DEF Typed, TurnQueueAssumption
<1>00. RowsTyped' /\ RestTyped'
  BY TypedStep, TypedSplitNext DEF Typed
<1> DEFINE D(t) == Bound(t, {"dispatching"})
           Driven(t) == pc[t] \in Starting \/ t \in abandoned
<1> USE DEF rows, threads, history, Goto
<1>1. \A t \in Turn : /\ D(t) \subseteq {from[t]} /\ D(t) \subseteq Msg
                      /\ D(t) # {} => Driven(t)
  BY DEF DispatchIsFrom, DispatchDriven, Bound
<1>2. ASSUME \A t \in Turn : /\ D(t)' \subseteq {from'[t]}
                             /\ D(t)' # {} => Driven(t)'
      PROVE  DispatchIsFrom' /\ DispatchDriven'
  BY <1>2 DEF DispatchIsFrom, DispatchDriven
(* A step of turn t that leaves its command driven, or without a row.      *)
<1>3. ASSUME NEW t \in Turn, \A u \in Turn : D(u)' \subseteq D(u), from' = from,
             abandoned \subseteq abandoned', NEW l, pc' = [pc EXCEPT ![t] = l],
             \/ l \in Starting \/ pc[t] \notin Starting \/ t \in abandoned'
             \/ D(t)' = {}
      PROVE  DispatchIsFrom' /\ DispatchDriven'
  BY <1>0, <1>1, <1>2, <1>3 DEF RestTyped
<1>4. ASSUME \A u \in Turn : D(u)' \subseteq D(u), from' = from, pc' = pc,
             abandoned \subseteq abandoned'
      PROVE  DispatchIsFrom' /\ DispatchDriven'
  BY <1>1, <1>2, <1>4
<1>5. ASSUME UNCHANGED <<st, owner>> PROVE \A u \in Turn : D(u)' \subseteq D(u)
  BY <1>5 DEF Bound
<1>6. (~ \E m \in Msg, t \in Turn : RequestInsertion(m, t) \/ ClaimForDispatch(t, m))
        => \A u \in Turn : D(u)' \subseteq D(u)
  BY BoundChanges DEF BoundKept
<1> HIDE DEF D
<1>7. CASE User
  <2>1. from' = from /\ pc' = pc /\ abandoned' = abandoned
    BY <1>7 DEF User, Enqueue, Edit, Delete, CancelInsertion, RequestInsertion, Stop
  <2>2. CASE \E m \in Msg, t \in Turn : RequestInsertion(m, t)
    <3>1. PICK m \in Msg, t \in Turn : RequestInsertion(m, t)
      BY <2>2
    <3>2. \A u \in Turn : D(u)' \subseteq D(u)
      BY <1>0, <3>1 DEF RequestInsertion, SetRow, D, Bound, RowsTyped
    <3> QED BY <1>4, <2>1, <3>2
  <2>3. CASE ~ \E m \in Msg, t \in Turn : RequestInsertion(m, t)
    <3>1. \/ \E m \in Msg : Enqueue(m) \/ Edit(m) \/ Delete(m) \/ CancelInsertion(m)
          \/ \E t \in Turn : Stop(t)
      BY <1>7, <2>3 DEF User
    <3>2. CASE \E m \in Msg, t \in Turn : ClaimForDispatch(t, m)
      <4>1. PICK m \in Msg, t \in Turn : ClaimForDispatch(t, m)
        BY <3>2
      <4>2. pc' # pc
        BY <1>0, <4>1 DEF ClaimForDispatch, RestTyped
      <4> QED BY <2>1, <4>2
    <3> QED BY <1>4, <1>6, <2>1, <2>3, <3>2
  <2> QED BY <2>2, <2>3
<1>8. ASSUME NEW t \in Turn, NEW m \in Msg, ClaimForDispatch(t, m)
      PROVE  DispatchIsFrom' /\ DispatchDriven'
  <2>1. /\ pc[t] = "new" /\ pc' = [pc EXCEPT ![t] = "acquire"]
        /\ from' = [from EXCEPT ![t] = m] /\ abandoned' = abandoned
        /\ st' = [st EXCEPT ![m] = "dispatching"] /\ owner' = [owner EXCEPT ![m] = t]
    BY <1>8 DEF ClaimForDispatch, SetRow
  <2>2. D(t) = {}
    BY <1>0, <1>1, <2>1 DEF InHand
  <2>3. D(t)' \subseteq {m} /\ \A u \in Turn \ {t} : D(u)' \subseteq D(u)
    BY <1>0, <2>1, <2>2 DEF D, Bound, RowsTyped
  <2> QED BY <1>0, <1>1, <1>2, <2>1, <2>3 DEF RestTyped, Starting
<1>9. ASSUME NEW t \in Turn, Command(t), ~ \E m \in Msg : ClaimForDispatch(t, m)
      PROVE  DispatchIsFrom' /\ DispatchDriven'
  <2>1. CASE SendNew(t)
    BY <1>3, <1>5, <2>1 DEF SendNew, Starting
  <2>2. CASE Acquire(t)
    <3>1. /\ UNCHANGED <<st, owner, from, abandoned>>
          /\ \/ \E l \in {"preflight", "release"} : pc' = [pc EXCEPT ![t] = l]
             \/ from[t] = NoMsg /\ pc' = [pc EXCEPT ![t] = "over"]
      BY <2>2 DEF Acquire
    <3>2. from[t] = NoMsg => D(t) = {}
      BY <1>0, <1>1
    <3>3. \A u \in Turn : D(u)' \subseteq D(u)
      BY <1>5, <3>1
    <3> QED BY <1>3, <3>1, <3>2, <3>3 DEF Starting
  <2>21. ASSUME GiveBackFails(t), from' = from, NEW l, pc' = [pc EXCEPT ![t] = l]
         PROVE  DispatchIsFrom' /\ DispatchDriven'
    BY <1>3, <1>5, <2>21 DEF GiveBackFails
  <2>22. CASE FailWorkflowMode(t)
    BY <2>21, <2>22 DEF FailWorkflowMode
  <2>3. CASE ReleaseDispatch(t) /\ ~GiveBackFails(t)
    <3>1. /\ pc' = [pc EXCEPT ![t] = "drop"] /\ from' = from /\ abandoned' = abandoned
          /\ IF from[t] \in D(t)
             THEN st' = [st EXCEPT ![from[t]] = "queued"]
                  /\ owner' = [owner EXCEPT ![from[t]] = NoTurn]
             ELSE UNCHANGED <<st, owner>>
      BY <2>3 DEF ReleaseDispatch, SetRow, D
    <3>2. /\ \A u \in Turn : D(u)' \subseteq D(u)
          /\ D(t)' = {}
      <4>1. CASE from[t] \in D(t)
        <5>1. /\ from[t] \in Msg /\ st'[from[t]] = "queued"
              /\ \A m \in Msg \ {from[t]} : st'[m] = st[m] /\ owner'[m] = owner[m]
          BY <1>0, <1>1, <3>1, <4>1 DEF RowsTyped
        <5>2. \A u \in Turn : D(u)' \subseteq D(u) \ {from[t]}
          BY <5>1 DEF D, Bound
        <5> QED BY <1>1, <5>2
      <4>2. CASE from[t] \notin D(t)
        <5>1. D(t) = {}
          BY <1>1, <4>2
        <5>2. \A u \in Turn : D(u)' = D(u)
          BY <3>1, <4>2 DEF D, Bound
        <5> QED BY <5>1, <5>2
      <4> QED BY <4>1, <4>2
    <3> QED BY <1>3, <3>1, <3>2
  <2>31. CASE ReleaseDispatch(t) /\ GiveBackFails(t)
    BY <2>21, <2>31 DEF ReleaseDispatch
  <2>4. CASE BlockPrompt(t) /\ ~GiveBackFails(t)
    <3>1. /\ pc' = [pc EXCEPT ![t] = "drop"] /\ from' = from /\ abandoned' = abandoned
          /\ DeleteRows({from[t]} \cap Msg)
      BY <2>4 DEF BlockPrompt
    <3>2. \A u \in Turn : D(u)' \subseteq D(u) \ {from[t]}
      BY <1>0, <3>1, DeleteEffect DEF D, Bound
    <3>3. D(t)' = {}
      BY <1>1, <3>2
    <3> QED BY <1>3, <3>1, <3>2, <3>3
  <2>41. CASE BlockPrompt(t) /\ GiveBackFails(t)
    BY <2>21, <2>41 DEF BlockPrompt
  <2>5. CASE PassPrompt(t)
    <3>1. \E l \in {"append", "release"} : pc' = [pc EXCEPT ![t] = l]
      BY <2>5 DEF PassPrompt
    <3> QED BY <1>3, <1>5, <2>5, <3>1 DEF PassPrompt, Starting
  <2>6. CASE AppendUser(t)
    <3>1. \E l \in {"create", "reconcile"} : pc' = [pc EXCEPT ![t] = l]
      BY <2>6 DEF AppendUser
    <3> QED BY <1>3, <1>5, <2>6, <3>1 DEF AppendUser, Starting
  <2>7. CASE CreateTurn(t)
    <3>1. /\ UNCHANGED <<st, owner, from, abandoned>>
          /\ \/ \E l \in {"consume", "reconcile"} : pc' = [pc EXCEPT ![t] = l]
             \/ from[t] = NoMsg /\ \E l : pc' = [pc EXCEPT ![t] = l]
      BY <2>7 DEF CreateTurn
    <3>2. from[t] = NoMsg => D(t) = {}
      BY <1>0, <1>1
    <3>3. \A u \in Turn : D(u)' \subseteq D(u)
      BY <1>5, <3>1
    <3> QED BY <1>3, <3>1, <3>2, <3>3 DEF Starting
  <2>8. CASE ConsumeDispatched(t)
    <3>1. from' = from /\ abandoned' = abandoned
      BY <2>8 DEF ConsumeDispatched
    <3>2. CASE UNCHANGED rows /\ pc' = [pc EXCEPT ![t] = "reconcile"]
      BY <1>3, <1>5, <3>1, <3>2 DEF Starting
    <3>3. CASE /\ DeleteRows(D(t) \cap {from[t]})
               /\ pc' = [pc EXCEPT ![t] = "start"]
      <4>1. D(t) \cap {from[t]} = D(t)
        BY <1>1
      <4>2. (\A u \in Turn : D(u)' \subseteq D(u)) /\ D(t)' = {}
        BY <1>0, <3>3, <4>1, DeleteEffect DEF D, Bound
      <4> QED BY <1>3, <3>1, <3>3, <4>2
    <3> QED BY <2>8, <3>2, <3>3 DEF ConsumeDispatched, D
  <2>81. CASE Reconcile(t) /\ GiveBackFails(t)
    BY <2>21, <2>81 DEF Reconcile
  <2>9. CASE Reconcile(t) /\ ~GiveBackFails(t)
    <3>1. pc' = [pc EXCEPT ![t] = "drop"] /\ from' = from /\ abandoned' = abandoned
      BY <2>9 DEF Reconcile
    <3>2. CASE DeleteRows({from[t]})
      <4>1. \A u \in Turn : D(u)' \subseteq D(u) \ {from[t]}
        BY <1>0, <3>2, DeleteEffect DEF D, Bound
      <4>2. D(t)' = {}
        BY <1>1, <4>1
      <4> QED BY <1>3, <3>1, <4>1, <4>2
    <3>3. CASE from[t] \in D(t) /\ SetRow(from[t], "queued", NoTurn)
      <4>1. \A u \in Turn : D(u)' \subseteq D(u) \ {from[t]}
        BY <1>0, <3>3 DEF SetRow, D, Bound, RowsTyped
      <4>2. D(t)' = {}
        BY <1>1, <4>1
      <4> QED BY <1>3, <3>1, <4>1, <4>2
    <3>4. CASE from[t] \notin D(t) /\ UNCHANGED rows
      <4>1. (\A u \in Turn : D(u)' \subseteq D(u)) /\ D(t) = {}
        BY <1>1, <1>5, <3>4
      <4> QED BY <1>3, <3>1, <4>1
    <3> QED BY <2>9, <3>2, <3>3, <3>4 DEF Reconcile, D
  <2>10. CASE BeginEngine(t) \/ FailEarly(t) \/ DropGuard(t)
    <3>1. /\ UNCHANGED <<st, owner, from, abandoned>>
          /\ \E l : pc' = [pc EXCEPT ![t] = l]
          /\ pc[t] \notin Starting
      BY <2>10 DEF BeginEngine, FailEarly, DropGuard, Starting
    <3> QED BY <1>3, <1>5, <3>1
  <2> QED BY <1>9, <2>1, <2>2, <2>22, <2>3, <2>31, <2>4, <2>41, <2>5, <2>6, <2>7,
          <2>8, <2>81, <2>9, <2>10
          DEF Command
<1>10. ASSUME NEW t \in Turn, Engine(t) PROVE DispatchIsFrom' /\ DispatchDriven'
  <2>1. /\ from' = from /\ abandoned \subseteq abandoned' /\ pc[t] \notin Starting
        /\ \E l : pc' = [pc EXCEPT ![t] = l]
    <3>1. CASE Drain(t)
      BY <3>1 DEF Drain, Starting
    <3>2. CASE NextInsert(t)
      BY <3>2 DEF NextInsert, Starting
    <3>3. CASE StartTools(t) \/ InsertRejected(t) \/ InsertAppend(t)
               \/ InsertConsume(t) \/ FinishTurn(t) \/ CloseGate(t) \/ FallBack(t)
      BY <3>3 DEF StartTools, InsertRejected, InsertAppend, InsertConsume,
                  InsertDone, FinishTurn, CloseGate, FallBack, GiveBackFails, Starting
    <3> QED BY <1>10, <3>1, <3>2, <3>3 DEF Engine
  <2>2. \A u \in Turn : D(u)' \subseteq D(u)
    <3>1. CASE \/ StartTools(t) \/ NextInsert(t) \/ InsertAppend(t) \/ FinishTurn(t)
               \/ CloseGate(t)
      BY <1>5, <3>1 DEF StartTools, NextInsert, InsertAppend, FinishTurn, CloseGate
    <3>2. CASE Drain(t)
      <4>1. UNCHANGED owner
            /\ \A m \in Msg : st'[m] = st[m] \/ st'[m] = "inserting"
        BY <3>2 DEF Drain
      <4> QED BY <4>1 DEF D, Bound
    <3>3. CASE InsertRejected(t) \/ InsertConsume(t)
      <4>1. (\E ms : DeleteRows(ms)) \/ UNCHANGED rows
        BY <3>3 DEF InsertRejected, InsertConsume
      <4>2. ASSUME NEW ms, DeleteRows(ms) PROVE \A u \in Turn : D(u)' \subseteq D(u)
        BY <1>0, <4>2, DeleteEffect DEF D, Bound
      <4> QED BY <1>5, <4>1, <4>2
    <3>4. CASE FallBack(t)
      <4>1. CASE UNCHANGED rows
        BY <1>5, <4>1
      <4>2. CASE ~UNCHANGED rows
        BY <1>0, <3>4, <4>2 DEF FallBack, GiveBackFails, D, Bound
      <4> QED BY <4>1, <4>2
    <3> QED BY <1>10, <3>1, <3>2, <3>3, <3>4 DEF Engine
  <2> QED BY <1>3, <2>1, <2>2
<1>11. ASSUME NEW t \in Turn, WatchdogCloses(t) \/ WatchdogReleases(t)
       PROVE  DispatchIsFrom' /\ DispatchDriven'
  BY <1>4, <1>5, <1>11 DEF WatchdogCloses, WatchdogReleases
<1>12. ASSUME NEW t \in Turn, Disconnect(t)
       PROVE  DispatchIsFrom' /\ DispatchDriven'
  <2>1. UNCHANGED <<st, owner, from>>
    BY <1>12 DEF Disconnect
  <2>2. CASE abandoned' = abandoned \cup {t} /\ \E l : pc' = [pc EXCEPT ![t] = l]
    BY <1>3, <1>5, <2>1, <2>2
  <2>3. CASE /\ pc[t] \in {"engine", "tools", "hook"} /\ abandoned' = abandoned
             /\ \E l : pc' = [pc EXCEPT ![t] = l]
    BY <1>3, <1>5, <2>1, <2>3 DEF Starting
  <2> QED BY <1>12, <2>2, <2>3 DEF Disconnect
<1>13. CASE Restart
  <2>1. \A u \in Turn : D(u)' = {}
    BY <1>0, <1>13 DEF Restart, D, Bound
  <2> QED BY <1>2, <2>1
<1>14. CASE UNCHANGED vars
  BY <1>4, <1>5, <1>14 DEF vars
<1> QED BY <1>7, <1>8, <1>9, <1>10, <1>11, <1>12, <1>13, <1>14 DEF Next

-----------------------------------------------------------------------------
(* A turn has the session from the moment it takes it until its clean-up   *)
(* is over, unless the watchdog takes it away.                             *)
LEMMA SessionHeldStep ==
  ASSUME Typed, SessionHeld, [Next]_vars
  PROVE  SessionHeld'
<1>0. /\ pc \in [Turn -> PCs] /\ forced \subseteq Turn /\ NoTurn \notin Turn
      /\ reg \in [turn : Turn \cup {NoTurn}, open : BOOLEAN]
  BY TypedSplit, TurnQueueAssumption DEF Typed, RestTyped, TurnQueueAssumption
<1> USE DEF rows, threads, history, Goto
<1>1. ASSUME NEW t \in Turn, NEW l, pc' = [pc EXCEPT ![t] = l],
             forced' = forced, reg'.turn = reg.turn,
             l \in Owning => pc[t] \in Owning
      PROVE  SessionHeld'
  BY <1>0, <1>1 DEF SessionHeld
<1>2. ASSUME UNCHANGED <<pc, forced, reg>> PROVE SessionHeld'
  BY <1>2 DEF SessionHeld
<1>3. CASE User
  BY <1>2, <1>3 DEF User, Enqueue, Edit, Delete, CancelInsertion, RequestInsertion,
                    Stop
<1>4. ASSUME NEW t \in Turn, Command(t) PROVE SessionHeld'
  <2>1. ASSUME NEW m \in Msg, ClaimForDispatch(t, m) PROVE SessionHeld'
    BY <1>1, <2>1 DEF ClaimForDispatch, Owning, Starting, Running
  <2>2. CASE SendNew(t)
    BY <1>1, <2>2 DEF SendNew, Owning, Starting, Running
  <2>3. CASE Acquire(t)
    <3>1. CASE reg.turn = NoTurn
      <4>1. /\ pc' = [pc EXCEPT ![t] = "preflight"] /\ forced' = forced
            /\ reg' = [turn |-> t, open |-> TRUE]
        BY <2>3, <3>1 DEF Acquire
      <4>2. \A u \in Turn \ {t} : u \notin forced => pc[u] \notin Owning
        BY <1>0, <3>1 DEF SessionHeld
      <4> QED BY <1>0, <4>1, <4>2 DEF SessionHeld
    <3>2. CASE reg.turn # NoTurn
      <4>1. /\ UNCHANGED <<reg, forced>>
            /\ \E l \in {"over", "release"} : pc' = [pc EXCEPT ![t] = l]
        BY <2>3, <3>2 DEF Acquire
      <4> QED BY <1>1, <4>1 DEF Owning, Starting, Running
    <3> QED BY <3>1, <3>2
  <2>4. CASE \/ ReleaseDispatch(t) \/ BlockPrompt(t) \/ Reconcile(t) \/ FailEarly(t)
             \/ FailWorkflowMode(t)
    <3>1. UNCHANGED <<reg, forced>> /\ \E l \in {"drop", "over"} : pc' = [pc EXCEPT ![t] = l]
      BY <2>4 DEF ReleaseDispatch, BlockPrompt, Reconcile, FailEarly, FailWorkflowMode
    <3> QED BY <1>1, <3>1 DEF Owning, Starting, Running
  <2>5. CASE PassPrompt(t) \/ AppendUser(t) \/ ConsumeDispatched(t) \/ BeginEngine(t)
    <3>1. /\ UNCHANGED <<reg, forced>> /\ \E l : pc' = [pc EXCEPT ![t] = l]
          /\ pc[t] \in {"preflight", "append", "consume", "start"}
      BY <2>5 DEF PassPrompt, AppendUser, ConsumeDispatched, BeginEngine
    <3> QED BY <1>1, <3>1 DEF Owning, Starting
  <2>6. CASE CreateTurn(t)
    <3>1. /\ UNCHANGED <<reg, forced>> /\ \E l : pc' = [pc EXCEPT ![t] = l]
          /\ pc[t] = "create"
      BY <2>6 DEF CreateTurn
    <3> QED BY <1>1, <3>1 DEF Owning, Starting
  <2>7. CASE DropGuard(t)
    <3>1. /\ pc[t] = "drop" /\ pc' = [pc EXCEPT ![t] = "over"] /\ forced' = forced
          /\ reg' = IF reg.turn = t THEN NoEntry ELSE reg
      BY <2>7 DEF DropGuard
    <3>2. \A u \in Turn \ forced : pc'[u] \in Owning => u # t /\ reg.turn = u
      BY <1>0, <3>1 DEF SessionHeld, Owning, Starting, Running
    <3> QED BY <3>1, <3>2 DEF SessionHeld
  <2> QED BY <1>4, <2>1, <2>2, <2>3, <2>4, <2>5, <2>6, <2>7 DEF Command
<1>5. ASSUME NEW t \in Turn, Engine(t) PROVE SessionHeld'
  <2>1. CASE StartTools(t) \/ InsertRejected(t) \/ InsertAppend(t)
             \/ InsertConsume(t) \/ FinishTurn(t) \/ FallBack(t)
    <3>1. /\ UNCHANGED <<reg, forced>> /\ \E l : pc' = [pc EXCEPT ![t] = l]
          /\ pc[t] \in Running \cup {"fallback"}
      BY <2>1 DEF StartTools, InsertRejected, InsertAppend, InsertConsume,
                  InsertDone, FinishTurn, FallBack, Running
    <3> QED BY <1>1, <3>1 DEF Owning
  <2>2. CASE Drain(t)
    <3>1. /\ UNCHANGED <<reg, forced>> /\ \E l : pc' = [pc EXCEPT ![t] = l]
          /\ pc[t] = "tools"
      BY <2>2 DEF Drain
    <3> QED BY <1>1, <3>1 DEF Owning, Running
  <2>3. CASE NextInsert(t)
    <3>1. /\ UNCHANGED <<reg, forced>> /\ \E l : pc' = [pc EXCEPT ![t] = l]
          /\ pc[t] = "insert"
      BY <2>3 DEF NextInsert
    <3> QED BY <1>1, <3>1 DEF Owning, Running
  <2>4. CASE CloseGate(t)
    <3>1. /\ pc[t] = "clear" /\ pc' = [pc EXCEPT ![t] = "fallback"]
          /\ reg'.turn = reg.turn /\ forced' = forced
      BY <1>0, <2>4 DEF CloseGate
    <3> QED BY <1>1, <3>1 DEF Owning
  <2> QED BY <1>5, <2>1, <2>2, <2>3, <2>4 DEF Engine
<1>6. ASSUME NEW t \in Turn, WatchdogCloses(t) PROVE SessionHeld'
  BY <1>2, <1>6 DEF WatchdogCloses
<1>7. ASSUME NEW t \in Turn, WatchdogReleases(t) PROVE SessionHeld'
  <2>1. CASE reg.turn = t
    <3>1. pc' = pc /\ reg' = NoEntry /\ forced' = forced \cup {t}
      BY <1>7, <2>1 DEF WatchdogReleases
    <3>2. \A u \in Turn \ forced' : pc'[u] \notin Owning
      BY <2>1, <3>1 DEF SessionHeld
    <3> QED BY <3>2 DEF SessionHeld
  <2>2. CASE reg.turn # t
    BY <1>2, <1>7, <2>2 DEF WatchdogReleases
  <2> QED BY <2>1, <2>2
<1>8. ASSUME NEW t \in Turn, Disconnect(t) PROVE SessionHeld'
  <2>1. UNCHANGED <<reg, forced>>
    BY <1>8 DEF Disconnect
  <2>2. CASE pc' = [pc EXCEPT ![t] = "drop"]
    BY <1>1, <2>1, <2>2 DEF Owning, Starting, Running
  <2>3. CASE pc' = [pc EXCEPT ![t] = "clear"] /\ pc[t] \in {"engine", "tools", "hook"}
    BY <1>1, <2>1, <2>3 DEF Owning, Running
  <2> QED BY <1>8, <2>2, <2>3 DEF Disconnect
<1>9. CASE Restart
  <2>1. pc' = [t \in Turn |-> IF pc[t] = "new" THEN "new" ELSE "over"]
    BY <1>9 DEF Restart, Boot
  <2> QED BY <2>1 DEF SessionHeld, Owning, Starting, Running
<1>10. CASE UNCHANGED vars
  BY <1>2, <1>10 DEF vars
<1> QED BY <1>3, <1>4, <1>5, <1>6, <1>7, <1>8, <1>9, <1>10 DEF Next

-----------------------------------------------------------------------------
(* The watchdog's releases are never taken back.                           *)
LEMMA ForcedGrows == [Next]_vars => forced \subseteq forced'
<1> SUFFICES ASSUME [Next]_vars PROVE forced \subseteq forced'
  OBVIOUS
<1> USE DEF history
<1>1. CASE User
  BY <1>1 DEF User, Enqueue, Edit, Delete, CancelInsertion, RequestInsertion, Stop
<1>2. ASSUME NEW t \in Turn, Command(t) PROVE forced' = forced
  <2>1. CASE \E m \in Msg : ClaimForDispatch(t, m)
    BY <2>1 DEF ClaimForDispatch
  <2> QED BY <1>2, <2>1 DEF Command, SendNew, FailWorkflowMode, Acquire,
        ReleaseDispatch, BlockPrompt, PassPrompt, AppendUser, CreateTurn,
        ConsumeDispatched, Reconcile, BeginEngine, FailEarly, DropGuard
<1>3. ASSUME NEW t \in Turn, Engine(t) PROVE forced' = forced
  BY <1>3 DEF Engine, StartTools, Drain, NextInsert, InsertRejected, InsertAppend,
              InsertConsume, FinishTurn, CloseGate, FallBack
<1>4. ASSUME NEW t \in Turn, WatchdogReleases(t) PROVE forced \subseteq forced'
  BY <1>4 DEF WatchdogReleases
<1>5. ASSUME NEW t \in Turn, WatchdogCloses(t) \/ Disconnect(t)
      PROVE  forced' = forced
  BY <1>5 DEF WatchdogCloses, Disconnect
<1>6. CASE Restart
  BY <1>6 DEF Restart, Boot
<1>7. CASE UNCHANGED vars
  BY <1>7 DEF vars
<1> QED BY <1>1, <1>2, <1>3, <1>4, <1>5, <1>6, <1>7 DEF Next

(* Rows a thread has a copy of stay claimed for it: whoever changes a      *)
(* claimed row is its own turn's thread, which gives up its copy with it,  *)
(* or stores it.                                                           *)
LEMMA CopiesClaimedStep ==
  ASSUME Typed, SessionHeld, CopiesClaimed, [Next]_vars
  PROVE  CopiesClaimed'
<1> SUFFICES ASSUME forced' = {} PROVE CopiesClaimed'
  BY DEF CopiesClaimed
<1> DEFINE A(t) == pc[t] \in Starting /\ from[t] # NoMsg =>
                     st[from[t]] = "dispatching" /\ owner[from[t]] = t
           B(t) == \A m \in ToSet(held[t].list) : st[m] = "inserting" /\ owner[m] = t
           Same(m) == st'[m] = st[m] /\ owner'[m] = owner[m]
           Claimed == {m \in Msg : st[m] \in {"dispatching", "inserting"}}
<1>0. /\ RowsTyped /\ RestTyped /\ InHand /\ NoTurn \notin Turn /\ NoMsg \notin Msg
      /\ forced = {}
  BY TypedSplit, TurnQueueAssumption, ForcedGrows DEF Typed, TurnQueueAssumption
<1>1. /\ stale = {} /\ (\A t \in Turn : A(t) /\ B(t))
      /\ \A t \in Turn : pc[t] \in Owning => reg.turn = t
  BY <1>0 DEF CopiesClaimed, SessionHeld
<1>2. ASSUME stale' = {}, \A t \in Turn : A(t)' /\ B(t)' PROVE CopiesClaimed'
  BY <1>2 DEF CopiesClaimed
<1>3. \A t \in Turn : ToSet(held[t].list) \subseteq Msg
  BY <1>0 DEF RestTyped, ToSet
<1>4. ASSUME NEW t \in Turn,
             \A m \in Claimed : owner[m] # t => Same(m),
             UNCHANGED <<from, stale>>,
             \A u \in Turn \ {t} : pc'[u] = pc[u] /\ held'[u] = held[u],
             A(t)', B(t)'
      PROVE  CopiesClaimed'
  <2>1. ASSUME NEW u \in Turn \ {t} PROVE A(u)' /\ B(u)'
    <3>1. from[u] \in Msg \cup {NoMsg}
      BY <1>0 DEF RestTyped
    <3>2. A(u)'
      BY <1>1, <1>4, <3>1 DEF Same, Claimed
    <3>3. B(u)'
      BY <1>1, <1>3, <1>4 DEF Same, Claimed
    <3> QED BY <3>2, <3>3
  <2> QED BY <1>1, <1>2, <1>4, <2>1
<1>5. ASSUME \A m \in Claimed : Same(m), UNCHANGED <<pc, from, held, stale>>
      PROVE  CopiesClaimed'
  <2>1. ASSUME NEW u \in Turn PROVE A(u)' /\ B(u)'
    <3>1. from[u] \in Msg \cup {NoMsg}
      BY <1>0 DEF RestTyped
    <3>2. A(u)'
      BY <1>1, <1>5, <3>1 DEF Same, Claimed
    <3>3. B(u)'
      BY <1>1, <1>3, <1>5 DEF Same, Claimed
    <3> QED BY <3>2, <3>3
  <2> QED BY <1>1, <1>2, <1>5, <2>1
(* Thread t goes on without touching the rows.                             *)
<1>6. ASSUME NEW t \in Turn, UNCHANGED <<st, owner, from, stale>>,
             NEW l, pc' = [pc EXCEPT ![t] = l],
             l \in Starting => pc[t] \in Starting \/ from[t] = NoMsg,
             held' \in {held, [held EXCEPT ![t] = NothingHeld]}
      PROVE  CopiesClaimed'
  <2>1. \A m \in Claimed : Same(m)
    BY <1>6 DEF Same
  <2>2. \A u \in Turn \ {t} : pc'[u] = pc[u] /\ held'[u] = held[u]
    BY <1>0, <1>6 DEF RestTyped
  <2>3. A(t)'
    BY <1>0, <1>1, <1>6 DEF RestTyped
  <2>4. held'[t] \in {held[t], NothingHeld}
    BY <1>0, <1>6 DEF RestTyped
  <2>5. B(t)'
    BY <1>1, <1>6, <2>4 DEF NothingHeld, ToSet
  <2> QED BY <1>4, <1>6, <2>1, <2>2, <2>3, <2>5
(* The command of turn t gives the row of its message up.                  *)
<1>7. ASSUME NEW t \in Turn, UNCHANGED <<from, stale, held>>,
             pc[t] \in Starting,
             NEW l, pc' = [pc EXCEPT ![t] = l], l \notin Starting,
             \A m \in Msg : m # from[t] => Same(m)
      PROVE  CopiesClaimed'
  <2>1. \A m \in Claimed : owner[m] # t => Same(m)
    BY <1>1, <1>7, <1>0 DEF Claimed
  <2>2. \A u \in Turn \ {t} : pc'[u] = pc[u] /\ held'[u] = held[u]
    BY <1>0, <1>7 DEF RestTyped
  <2>3. A(t)'
    BY <1>0, <1>7 DEF RestTyped
  <2>4. held'[t].list = <<>>
    BY <1>0, <1>7 DEF InHand, Starting
  <2>5. B(t)'
    BY <2>4 DEF ToSet
  <2> QED BY <1>4, <1>7, <2>1, <2>2, <2>3, <2>5
<1> USE DEF rows, threads, history, Goto
<1> HIDE DEF A, B
<1>8. CASE User
  <2>1. ASSUME NEW m \in Msg, Enqueue(m) PROVE CopiesClaimed'
    <3>1. \A x \in Claimed : Same(x)
      BY <1>0, <2>1 DEF Enqueue, Same, Claimed, RowsTyped
    <3> QED BY <1>5, <2>1, <3>1 DEF Enqueue
  <2>2. ASSUME NEW m \in Msg, Edit(m) PROVE CopiesClaimed'
    <3>1. PICK t \in Turn : m \in Copies(t)
      BY <2>2 DEF Edit
    <3>2. st[m] \in {"dispatching", "inserting"}
      BY <1>1, <3>1 DEF Copies, A, B, Starting
    <3> QED BY <2>2, <3>2 DEF Edit, Editable
  <2>3. ASSUME NEW m \in Msg, Delete(m) PROVE CopiesClaimed'
    <3>1. \A x \in Claimed : Same(x)
      BY <1>0, <2>3, DeleteEffect DEF Delete, Same, Claimed, Editable
    <3> QED BY <1>5, <2>3, <3>1 DEF Delete
  <2>4. ASSUME NEW m \in Msg, CancelInsertion(m) PROVE CopiesClaimed'
    <3>1. \A x \in Claimed : Same(x)
      BY <1>0, <2>4 DEF CancelInsertion, SetRow, Same, Claimed, RowsTyped
    <3> QED BY <1>5, <2>4, <3>1 DEF CancelInsertion
  <2>5. ASSUME NEW m \in Msg, NEW t \in Turn, RequestInsertion(m, t)
        PROVE  CopiesClaimed'
    <3>1. \A x \in Claimed : Same(x)
      BY <1>0, <2>5 DEF RequestInsertion, SetRow, Same, Claimed, RowsTyped, Sendable
    <3> QED BY <1>5, <2>5, <3>1 DEF RequestInsertion
  <2>6. ASSUME NEW t \in Turn, Stop(t) PROVE CopiesClaimed'
    <3>1. UNCHANGED <<st, owner, pc, from, held, stale>>
      BY <2>6 DEF Stop
    <3> QED BY <1>5, <3>1 DEF Same
  <2> QED BY <1>8, <2>1, <2>2, <2>3, <2>4, <2>5, <2>6 DEF User
<1>9. ASSUME NEW t \in Turn, Command(t) PROVE CopiesClaimed'
  <2>1. CASE SendNew(t)
    BY <1>0, <1>6, <2>1 DEF SendNew, InHand
  <2>2. ASSUME NEW m \in Msg, ClaimForDispatch(t, m) PROVE CopiesClaimed'
    <3>1. /\ pc[t] = "new" /\ pc' = [pc EXCEPT ![t] = "acquire"]
          /\ from' = [from EXCEPT ![t] = m] /\ UNCHANGED <<held, stale>>
          /\ st[m] \in Sendable
          /\ st' = [st EXCEPT ![m] = "dispatching"] /\ owner' = [owner EXCEPT ![m] = t]
      BY <2>2 DEF ClaimForDispatch, SetRow
    <3>2. \A x \in Claimed : Same(x)
      BY <1>0, <3>1 DEF Same, Claimed, RowsTyped, Sendable
    <3>3. ASSUME NEW u \in Turn PROVE A(u)' /\ B(u)'
      <4>1. from[u] \in Msg \cup {NoMsg}
        BY <1>0 DEF RestTyped
      <4>2. B(u)'
        BY <1>1, <1>3, <3>1, <3>2 DEF B, Same, Claimed
      <4>3. CASE u = t
        <5>1. from'[t] = m /\ st'[m] = "dispatching" /\ owner'[m] = t
          BY <1>0, <3>1 DEF RestTyped, RowsTyped
        <5> QED BY <4>2, <4>3, <5>1 DEF A
      <4>4. CASE u # t
        <5>1. pc'[u] = pc[u] /\ from'[u] = from[u]
          BY <1>0, <3>1, <4>4 DEF RestTyped
        <5> QED BY <1>1, <3>2, <4>1, <4>2, <5>1 DEF A, Same, Claimed
      <4> QED BY <4>3, <4>4
    <3> QED BY <1>1, <1>2, <3>1, <3>3
  <2>3. CASE Acquire(t)
    <3>1. /\ UNCHANGED <<st, owner, from, stale, held>> /\ pc[t] = "acquire"
          /\ \E l : pc' = [pc EXCEPT ![t] = l]
      BY <2>3 DEF Acquire
    <3> QED BY <1>6, <3>1 DEF Starting
  <2>4. CASE PassPrompt(t) \/ AppendUser(t) \/ CreateTurn(t)
    <3>1. UNCHANGED <<st, owner, from, stale, held>> /\ pc[t] \in Starting
      BY <2>4 DEF PassPrompt, AppendUser, CreateTurn, Starting
    <3>2. \E l : pc' = [pc EXCEPT ![t] = l]
      BY <2>4 DEF PassPrompt, AppendUser, CreateTurn
    <3> QED BY <1>6, <3>1, <3>2
  <2>5. CASE ReleaseDispatch(t)
    <3>1. /\ pc[t] = "release" /\ pc' = [pc EXCEPT ![t] = "drop"]
          /\ UNCHANGED <<from, stale, held>>
          /\ SetRow(from[t], "queued", NoTurn) \/ UNCHANGED rows
      BY <2>5 DEF ReleaseDispatch, GiveBackFails
    <3>2. \A m \in Msg : m # from[t] => Same(m)
      BY <1>0, <3>1 DEF SetRow, Same, RowsTyped
    <3> QED BY <1>7, <3>1, <3>2 DEF Starting
  <2>6. CASE BlockPrompt(t)
    <3>1. /\ pc[t] = "preflight" /\ pc' = [pc EXCEPT ![t] = "drop"]
          /\ UNCHANGED <<from, stale, held>>
          /\ DeleteRows({from[t]} \cap Msg) \/ UNCHANGED rows
      BY <2>6 DEF BlockPrompt, GiveBackFails
    <3>2. \A m \in Msg : m # from[t] => Same(m)
      <4>1. CASE DeleteRows({from[t]} \cap Msg)
        BY <1>0, <4>1, DeleteEffect DEF Same
      <4>2. CASE UNCHANGED rows
        BY <4>2 DEF Same
      <4> QED BY <3>1, <4>1, <4>2
    <3> QED BY <1>7, <3>1, <3>2 DEF Starting
  <2>7. CASE ConsumeDispatched(t)
    <3>1. pc[t] = "consume" /\ UNCHANGED <<from, stale, held>>
      BY <2>7 DEF ConsumeDispatched
    <3>2. CASE UNCHANGED rows /\ pc' = [pc EXCEPT ![t] = "reconcile"]
      BY <1>6, <3>1, <3>2 DEF Starting
    <3>3. CASE /\ DeleteRows(Bound(t, {"dispatching"}) \cap {from[t]})
               /\ pc' = [pc EXCEPT ![t] = "start"]
      <4>1. \A m \in Msg : m # from[t] => Same(m)
        BY <1>0, <3>3, DeleteEffect DEF Same
      <4> QED BY <1>7, <3>1, <3>3, <4>1 DEF Starting
    <3> QED BY <2>7, <3>2, <3>3 DEF ConsumeDispatched
  <2>8. CASE Reconcile(t)
    <3>1. /\ pc[t] = "reconcile" /\ pc' = [pc EXCEPT ![t] = "drop"]
          /\ UNCHANGED <<from, stale, held>>
          /\ DeleteRows({from[t]}) \/ SetRow(from[t], "queued", NoTurn)
               \/ UNCHANGED rows
      BY <2>8 DEF Reconcile, GiveBackFails
    <3>2. \A m \in Msg : m # from[t] => Same(m)
      <4>1. CASE DeleteRows({from[t]})
        BY <1>0, <4>1, DeleteEffect DEF Same
      <4>2. CASE SetRow(from[t], "queued", NoTurn) \/ UNCHANGED rows
        BY <1>0, <4>2 DEF SetRow, Same, RowsTyped
      <4> QED BY <3>1, <4>1, <4>2
    <3> QED BY <1>7, <3>1, <3>2 DEF Starting
  <2>9. CASE BeginEngine(t) \/ FailEarly(t) \/ DropGuard(t) \/ FailWorkflowMode(t)
    <3>1. /\ UNCHANGED <<st, owner, from, stale, held>>
          /\ \E l \in {"engine", "drop", "over"} : pc' = [pc EXCEPT ![t] = l]
      BY <2>9 DEF BeginEngine, FailEarly, DropGuard, FailWorkflowMode, GiveBackFails
    <3> QED BY <1>6, <3>1 DEF Starting
  <2> QED BY <1>9, <2>1, <2>2, <2>3, <2>4, <2>5, <2>6, <2>7, <2>8, <2>9 DEF Command
<1>10. ASSUME NEW t \in Turn, Engine(t) PROVE CopiesClaimed'
  <2>1. CASE StartTools(t) \/ FinishTurn(t) \/ CloseGate(t) \/ InsertAppend(t)
    <3>1. /\ UNCHANGED <<st, owner, from, stale, held>>
          /\ \E l \in {"tools", "clear", "fallback", "consumeInserted"} :
               pc' = [pc EXCEPT ![t] = l]
      BY <2>1 DEF StartTools, FinishTurn, CloseGate, InsertAppend
    <3> QED BY <1>6, <3>1 DEF Starting
  <2>2. CASE NextInsert(t)
    <3>1. /\ UNCHANGED <<st, owner, from, stale>>
          /\ \E l \in {"engine", "hook"} : pc' = [pc EXCEPT ![t] = l]
          /\ held' \in {held, [held EXCEPT ![t] = NothingHeld]}
      BY <2>2 DEF NextInsert
    <3> QED BY <1>6, <3>1 DEF Starting
  <2>3. CASE Drain(t)
    <3>1. pc[t] = "tools" /\ reg.turn = t /\ UNCHANGED <<from, stale>>
      BY <1>1, <2>3 DEF Drain, Owning, Running
    <3> DEFINE ms == Bound(t, {"waiting"})
    <3>2. \/ pc' = [pc EXCEPT ![t] = "engine"] /\ UNCHANGED <<rows, held>>
          \/ /\ st' = [m \in Msg |-> IF m \in ms THEN "inserting" ELSE st[m]]
             /\ held' = [held EXCEPT ![t] = [list |-> Keep(queue, ms), of |-> t]]
             /\ pc' = [pc EXCEPT ![t] = "insert"] /\ owner' = owner
      BY <1>0, <2>3, <3>1 DEF Drain
    <3>3. CASE pc' = [pc EXCEPT ![t] = "engine"] /\ UNCHANGED <<rows, held>>
      BY <1>6, <3>1, <3>3 DEF Starting
    <3>4. CASE /\ st' = [m \in Msg |-> IF m \in ms THEN "inserting" ELSE st[m]]
               /\ held' = [held EXCEPT ![t] = [list |-> Keep(queue, ms), of |-> t]]
               /\ pc' = [pc EXCEPT ![t] = "insert"] /\ owner' = owner
      <4>1. \A m \in Claimed : Same(m)
        BY <3>4 DEF Same, Claimed, Bound
      <4>2. /\ \A u \in Turn \ {t} : pc'[u] = pc[u] /\ held'[u] = held[u]
            /\ pc'[t] = "insert" /\ held'[t].list = Keep(queue, ms)
        BY <1>0, <3>4 DEF RestTyped
      <4>3. A(t)'
        BY <4>2 DEF A, Starting
      <4>4. ToSet(Keep(queue, ms)) = ToSet(queue) \cap ms
        <5> HIDE DEF ms
        <5> QED BY <1>0, KeepSpec DEF RowsTyped
      <4>5. \A m \in ms : m \in Msg /\ st'[m] = "inserting" /\ owner'[m] = t
        BY <3>4 DEF Bound
      <4>6. B(t)'
        BY <4>2, <4>4, <4>5 DEF B
      <4> QED BY <1>4, <3>1, <4>1, <4>2, <4>3, <4>6
    <3> QED BY <3>2, <3>3, <3>4
  <2>4. CASE InsertRejected(t) \/ InsertConsume(t)
    <3> DEFINE q == held[t].list
    <3>1. /\ pc[t] \in {"hook", "consumeInserted"} /\ UNCHANGED <<from, stale>>
          /\ held' = [held EXCEPT ![t].list = Tail(@)]
          /\ pc' = [pc EXCEPT ![t] = "insert"]
          /\ DeleteRows({Head(q)}) \/ UNCHANGED rows
      BY <2>4 DEF InsertRejected, InsertConsume, InsertDone
    <3>2. /\ Head(q) \in ToSet(q) /\ ToSet(Tail(q)) = ToSet(q) \ {Head(q)}
      BY <1>0, <3>1, TailOf DEF InHand, RestTyped
    <3>3. \A m \in Msg : m # Head(q) => Same(m)
      <4>1. CASE DeleteRows({Head(q)})
        BY <1>0, <4>1, DeleteEffect DEF Same
      <4>2. CASE UNCHANGED rows
        BY <4>2 DEF Same
      <4> QED BY <3>1, <4>1, <4>2
    <3>4. owner[Head(q)] = t
      BY <1>1, <3>2 DEF B
    <3>5. /\ \A u \in Turn \ {t} : pc'[u] = pc[u] /\ held'[u] = held[u]
          /\ pc'[t] = "insert" /\ held'[t].list = Tail(q)
      BY <1>0, <3>1 DEF RestTyped
    <3>6. A(t)'
      BY <3>5 DEF A, Starting
    <3>7. B(t)'
      BY <1>1, <1>3, <3>2, <3>3, <3>5 DEF B, Same
    <3>8. \A m \in Claimed : owner[m] # t => Same(m)
      BY <3>3, <3>4 DEF Claimed
    <3> QED BY <1>4, <3>1, <3>5, <3>6, <3>7, <3>8
  <2>5. CASE FallBack(t)
    <3>1. /\ pc[t] = "fallback" /\ pc' = [pc EXCEPT ![t] = "drop"]
          /\ UNCHANGED <<from, held, stale>>
      BY <2>5 DEF FallBack
    <3>2. \A m \in Claimed : owner[m] # t => Same(m)
      BY <1>0, <2>5 DEF FallBack, GiveBackFails, Bound, Same, Claimed
    <3>3. /\ \A u \in Turn \ {t} : pc'[u] = pc[u] /\ held'[u] = held[u]
          /\ pc'[t] = "drop" /\ held'[t].list = <<>>
      BY <1>0, <3>1 DEF RestTyped, InHand
    <3>4. A(t)' /\ B(t)'
      BY <3>3 DEF A, B, ToSet, Starting
    <3> QED BY <1>4, <3>1, <3>2, <3>3, <3>4
  <2> QED BY <1>10, <2>1, <2>2, <2>3, <2>4, <2>5 DEF Engine
<1>11. ASSUME NEW t \in Turn, WatchdogCloses(t) \/ WatchdogReleases(t)
       PROVE  CopiesClaimed'
  <2>1. UNCHANGED <<st, owner, pc, from, held, stale>>
    BY <1>11 DEF WatchdogCloses, WatchdogReleases
  <2> QED BY <1>5, <2>1 DEF Same
<1>12. ASSUME NEW t \in Turn, Disconnect(t) PROVE CopiesClaimed'
  <2>1. /\ UNCHANGED <<st, owner, from, stale>>
        /\ held' = [held EXCEPT ![t] = NothingHeld]
        /\ \E l \in {"drop", "clear"} : pc' = [pc EXCEPT ![t] = l]
    BY <1>12 DEF Disconnect
  <2> QED BY <1>6, <2>1 DEF Starting
<1>13. CASE Restart
  <2>1. /\ pc' = [t \in Turn |-> IF pc[t] = "new" THEN "new" ELSE "over"]
        /\ held' = [t \in Turn |-> NothingHeld] /\ stale' = stale
    BY <1>13 DEF Restart, Boot
  <2>2. \A t \in Turn : A(t)' /\ B(t)'
    BY <2>1 DEF A, B, NothingHeld, ToSet, Starting
  <2> QED BY <1>1, <1>2, <2>1, <2>2
<1>14. CASE UNCHANGED vars
  <2>1. UNCHANGED <<st, owner, pc, from, held, stale>>
    BY <1>14 DEF vars
  <2> QED BY <1>5, <2>1 DEF Same
<1> QED BY <1>8, <1>9, <1>10, <1>11, <1>12, <1>13, <1>14 DEF Next

-----------------------------------------------------------------------------
(* The parts hold together in every reachable state, for any messages and  *)
(* turns (turn_queue.rs, turns.rs, chat_engine).                           *)
THEOREM QueueIsInductive == Spec => []QueueInv
<1>1. Init => QueueInv
  <2> SUFFICES ASSUME Init PROVE QueueInv
    OBVIOUS
  <2>1. Typed
    BY TypedInit
  <2>2. OneCommit /\ NothingLost /\ GateGuards /\ BoundRowsFallBack
    BY DEF Init, OneCommit, NothingLost, GateGuards, BoundRowsFallBack, Committed
  <2>3. DispatchIsFrom /\ DispatchDriven /\ SessionHeld
    BY DEF Init, DispatchIsFrom, DispatchDriven, Bound, SessionHeld, Owning,
           Starting, Running
  <2>4. CopiesClaimed
    BY DEF Init, CopiesClaimed, NothingHeld, Starting, ToSet
  <2> QED BY <2>1, <2>2, <2>3, <2>4 DEF QueueInv
<1>2. QueueInv /\ [Next]_vars => QueueInv'
  BY TypedStep, OneCommitStep, NothingLostStep, GateGuardsStep, BoundRowsStep,
     DispatchStep, SessionHeldStep, CopiesClaimedStep
     DEF QueueInv
<1> QED BY <1>1, <1>2, PTL DEF Spec

(* However often an enqueue is retried, a dispatch fails, the watchdog     *)
(* releases a turn or the program restarts, a message goes to a model at   *)
(* most once.                                                              *)
THEOREM HandedAtMostOnce == Spec => []AtMostOnce
<1>1. QueueInv => AtMostOnce
  BY DEF QueueInv, OneCommit, AtMostOnce
<1> QED BY <1>1, QueueIsInductive, PTL

(* An accepted message is in the queue, in the transcript, or was deleted  *)
(* or rejected before the user's eyes.                                     *)
THEOREM NothingAcceptedIsLost == Spec => []NothingLost
<1>1. QueueInv => NothingLost
  BY DEF QueueInv
<1> QED BY <1>1, QueueIsInductive, PTL

(* A row taken for a turn has ahead of it the step that consumes it or     *)
(* makes it sendable again, as long as the client stays.                   *)
THEOREM TakenRowsAlwaysComeBack == Spec => []TakenRowsComeBack
<1>1. QueueInv => TakenRowsComeBack
  BY DEF QueueInv, Typed, TakenRowsComeBack
<1> QED BY <1>1, QueueIsInductive, PTL

(* What a thread is about to store is what the user last wrote, unless the *)
(* watchdog released a turn under its running engine.                      *)
THEOREM CopiesStayFresh == Spec => []CopiesAreFresh
<1>1. QueueInv => CopiesAreFresh
  BY DEF QueueInv, CopiesClaimed, CopiesAreFresh
<1> QED BY <1>1, QueueIsInductive, PTL

(* Two turns are past the acquisition of their session only if the         *)
(* watchdog released one of them.                                          *)
THEOREM TurnsAreAlone == Spec => []OneTurnAtATime
<1>1. QueueInv => OneTurnAtATime
  BY DEF QueueInv, SessionHeld, OneTurnAtATime, Owning, Starting
<1> QED BY <1>1, QueueIsInductive, PTL
=============================================================================

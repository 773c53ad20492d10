------------------------- MODULE ParentInjectionProofs -------------------------
(***************************************************************************)
(* The injection of results into their parent sessions, for any sets of    *)
(* injections, sessions and chats: injections of a session are serial,     *)
(* none that is put off is without somebody bound to flush it, a result is *)
(* answered at most once, and what looks delivered was handled.            *)
(***************************************************************************)
EXTENDS ParentInjection, SeqFilterProofs, FiniteSetTheorems

-----------------------------------------------------------------------------
(* Type correctness, and the queue: what is in PENDING_INJECTIONS is what  *)
(* was put off, each once.                                                 *)
QueueIsQueued == ToSet(pending) = {i \in Inj : pc[i] = "queued"}

Typed == TypeOK /\ QueueIsQueued

(* The initial state is typed.                                             *)
LEMMA TypedInit == Init => Typed
BY DEF Init, Typed, TypeOK, QueueIsQueued, PC, ToSet, IsInjective

(* An attempt that goes on, without a look at the queue.                   *)
LEMMA TypedGoesOn ==
  ASSUME Typed, NEW i \in Inj,
         \/ Dispatch(i) \/ SkipAtEntry(i) \/ PassEntry(i) \/ TakeSession(i)
         \/ SeeIdle(i) \/ AbortRead(i) \/ PassCheck(i) \/ RegisterCancel(i)
         \/ GiveUp(i) \/ Abandon(i) \/ StartTurn(i) \/ TurnSucceeds(i)
         \/ TurnFails(i)
  PROVE  Typed'
<1> USE InjectionAssumption
    DEF InjectionAssumption, Typed, TypeOK, QueueIsQueued, PC, Goto, Unwind,
        chatVars, readVars, mapVars
<1>1. CASE Dispatch(i)
  BY <1>1 DEF Dispatch
<1>2. CASE SkipAtEntry(i)
  BY <1>2 DEF SkipAtEntry
<1>3. CASE PassEntry(i)
  BY <1>3 DEF PassEntry
<1>4. CASE TakeSession(i)
  BY <1>4 DEF TakeSession
<1>5. CASE SeeIdle(i)
  BY <1>5 DEF SeeIdle
<1>6. CASE AbortRead(i)
  BY <1>6 DEF AbortRead
<1>7. CASE PassCheck(i)
  BY <1>7 DEF PassCheck
<1>8. CASE RegisterCancel(i)
  BY <1>8 DEF RegisterCancel
<1>9. CASE GiveUp(i)
  BY <1>9 DEF GiveUp
<1>10. CASE Abandon(i)
  BY <1>10 DEF Abandon
<1>11. CASE StartTurn(i)
  BY <1>11 DEF StartTurn
<1>12. CASE TurnSucceeds(i)
  BY <1>12 DEF TurnSucceeds
<1>13. CASE TurnFails(i)
  BY <1>13 DEF TurnFails
<1> QED BY <1>1, <1>2, <1>3, <1>4, <1>5, <1>6, <1>7,
        <1>8, <1>9, <1>10, <1>11, <1>12, <1>13

(* An attempt that is put off was not in the queue.                        *)
LEMMA TypedPutOff ==
  ASSUME Typed, NEW i \in Inj, QueueBehind(i) \/ IdleTimeout(i) \/ TurnCancelled(i)
  PROVE  Typed'
<1> USE InjectionAssumption
    DEF InjectionAssumption, Typed, TypeOK, QueueIsQueued, PC, Goto, Unwind,
        chatVars, readVars, mapVars
<1>1. pc[i] # "queued"
  BY DEF QueueBehind, IdleTimeout, TurnCancelled
<1>2. /\ Append(pending, i) \in Seq(Inj)
      /\ ToSet(Append(pending, i)) = ToSet(pending) \cup {i}
      /\ IsInjective(Append(pending, i))
  BY <1>1, Pushed
<1>3. CASE QueueBehind(i)
  BY <1>2, <1>3 DEF QueueBehind
<1>4. CASE IdleTimeout(i)
  BY <1>2, <1>4 DEF IdleTimeout
<1>5. CASE TurnCancelled(i)
  <2>1. /\ tail' = [tail EXCEPT ![InjSession[i]] = "cancels"]
        /\ UNCHANGED <<chat, alive, injecting, cancels, cancel, fetched, marking,
                       early, flushes, turns>>
    BY <1>5 DEF TurnCancelled
  <2>2. CASE i \in fetched
    <3>1. /\ closed' = closed \cup {i} /\ pc' = [pc EXCEPT ![i] = "done"]
          /\ UNCHANGED pending
      BY <1>5, <2>2 DEF TurnCancelled
    <3> QED BY <1>1, <2>1, <3>1
  <2>3. CASE i \notin fetched
    <3>1. /\ pending' = Append(pending, i) /\ pc' = [pc EXCEPT ![i] = "queued"]
          /\ UNCHANGED closed
      BY <1>5, <2>3 DEF TurnCancelled
    <3> QED BY <1>2, <2>1, <3>1
  <2> QED BY <2>2, <2>3
<1> QED BY <1>3, <1>4, <1>5

(* What a flush does: of the injections put off in the session, at most    *)
(* one starts again, some were read and are done, the others are lost; all *)
(* other attempts stay where they are.                                     *)
LEMMA FlushEffect ==
  ASSUME Typed, NEW s \in Session, FlushPending(s)
  PROVE  /\ pending' \in Seq(Inj) /\ IsInjective(pending')
         /\ ToSet(pending') = {i \in Inj : pc[i] = "queued" /\ InjSession[i] # s}
         /\ flushes[s] > 0 /\ flushes' = [flushes EXCEPT ![s] = @ - 1]
         /\ pc' \in [Inj -> PC]
         /\ fetched' \subseteq fetched
         /\ \A i \in Inj :
              IF pc[i] = "queued" /\ InjSession[i] = s
              THEN \/ pc'[i] = "entry" /\ i \notin fetched
                   \/ pc'[i] = "done" /\ i \in fetched
                   \/ pc'[i] = "lost" /\ (i \in fetched => i \in fetched')
              ELSE pc'[i] = pc[i] /\ (i \in fetched => i \in fetched')
         /\ UNCHANGED <<chatVars, mapVars, marking, early, closed, turns>>
<1> DEFINE mine  == Keep(pending, OfSession(s))
           fresh == Without(mine, fetched)
           tasks == ToSet(mine)
           nxt   == IF fresh = <<>> THEN {} ELSE {Head(fresh)}
           read  == {i \in tasks \cap fetched :
                       nxt = {} \/ \E m, n \in DOMAIN mine :
                                     m < n /\ mine[m] = i /\ mine[n] \in nxt}
<1>1. pending \in Seq(Inj) /\ IsInjective(pending)
      /\ ToSet(pending) = {i \in Inj : pc[i] = "queued"}
      /\ pc \in [Inj -> PC] /\ flushes \in [Session -> Nat]
  BY DEF Typed, TypeOK, QueueIsQueued
<1>2. /\ mine \in Seq(Inj)
      /\ tasks = {i \in Inj : pc[i] = "queued" /\ InjSession[i] = s}
  BY <1>1, KeepSpec DEF OfSession
<1>3. /\ pending' = Without(pending, OfSession(s))
      /\ flushes[s] > 0 /\ flushes' = [flushes EXCEPT ![s] = @ - 1]
      /\ fetched' = fetched \ read
      /\ pc' = [i \in Inj |-> IF i \in nxt THEN "entry"
                              ELSE IF i \in read THEN "done"
                              ELSE IF i \in tasks THEN "lost" ELSE pc[i]]
      /\ UNCHANGED <<chatVars, mapVars, marking, early, closed, turns>>
  BY DEF FlushPending
<1>4. /\ pending' \in Seq(Inj) /\ IsInjective(pending')
      /\ ToSet(pending') = {i \in Inj : pc[i] = "queued" /\ InjSession[i] # s}
  BY <1>1, <1>3, WithoutSpec DEF OfSession
<1>5. nxt \subseteq tasks \ fetched
  <2>1. fresh \in Seq(Inj) /\ ToSet(fresh) = tasks \ fetched
    <3> HIDE DEF mine
    <3> QED BY <1>2, WithoutSpec
  <2>2. fresh # <<>> => Head(fresh) \in ToSet(fresh)
    <3> HIDE DEF fresh
    <3> QED BY <2>1, LenProperties DEF ToSet
  <2> HIDE DEF fresh, tasks
  <2> QED BY <2>1, <2>2
<1>6. read \subseteq tasks \cap fetched
  OBVIOUS
<1> HIDE DEF mine, fresh, tasks, nxt, read
<1>7. pc' \in [Inj -> PC]
  BY <1>1, <1>3 DEF PC
<1>8. ASSUME NEW i \in Inj
      PROVE IF pc[i] = "queued" /\ InjSession[i] = s
            THEN \/ pc'[i] = "entry" /\ i \notin fetched
                 \/ pc'[i] = "done" /\ i \in fetched
                 \/ pc'[i] = "lost" /\ (i \in fetched => i \in fetched')
            ELSE pc'[i] = pc[i] /\ (i \in fetched => i \in fetched')
  BY <1>2, <1>3, <1>5, <1>6
<1> QED BY <1>3, <1>4, <1>7, <1>8

(* Steps of guards being dropped, flushes, chats, reads and deletions keep *)
(* the types.                                                              *)
LEMMA TypedRest ==
  ASSUME Typed, [Next]_vars,
         ~ \E i \in Inj : Dispatch(i) \/ ThreadStep(i)
  PROVE  Typed'
<1> USE InjectionAssumption
    DEF InjectionAssumption, Typed, TypeOK, QueueIsQueued, PC,
        chatVars, readVars, mapVars
<1>1. CASE UNCHANGED vars
  BY <1>1 DEF vars
<1>2. ASSUME NEW i \in Inj, MarkFetched(i) \/ MarkCancels(i) PROVE Typed'
  <2>1. CASE MarkFetched(i)
    BY <2>1 DEF MarkFetched
  <2>2. CASE MarkCancels(i)
    BY <2>2 DEF MarkCancels
  <2> QED BY <1>2, <2>1, <2>2
<1>3. ASSUME NEW s \in Session, TailStep(s) PROVE Typed'
  <2>1. CASE DropCancels(s)
    BY <2>1 DEF DropCancels
  <2>2. CASE DropSession(s)
    BY <2>2 DEF DropSession
  <2> QED BY <1>3, <2>1, <2>2 DEF TailStep
<1>4. ASSUME NEW s \in Session, DeleteSession(s) PROVE Typed'
  BY <1>4 DEF DeleteSession
<1>5. ASSUME NEW s \in Session, FlushPending(s) PROVE Typed'
  <2>1. /\ pending' \in Seq(Inj) /\ IsInjective(pending')
        /\ ToSet(pending') = {i \in Inj : pc[i] = "queued" /\ InjSession[i] # s}
        /\ flushes[s] > 0 /\ flushes' = [flushes EXCEPT ![s] = @ - 1]
        /\ pc' \in [Inj -> PC] /\ fetched' \subseteq fetched
        /\ UNCHANGED <<chatVars, mapVars, marking, early, closed, turns>>
    BY <1>5, FlushEffect
  <2>2. \A i \in Inj : pc'[i] = "queued" <=> pc[i] = "queued" /\ InjSession[i] # s
    BY <1>5, FlushEffect
  <2> QED BY <2>1, <2>2
<1>6. ASSUME NEW c \in Chat, ChatCounts(c) \/ ChatStep(c) PROVE Typed'
  <2>1. CASE ChatCounts(c)
    BY <2>1 DEF ChatCounts
  <2>2. CASE ChatCancels(c)
    BY <2>2 DEF ChatCancels
  <2>3. CASE ChatEnds(c)
    BY <2>3 DEF ChatEnds
  <2> QED BY <1>6, <2>1, <2>2, <2>3 DEF ChatStep
<1> QED BY <1>1, <1>2, <1>3, <1>4, <1>5, <1>6 DEF Next

(* Every step keeps the types, and the queue is who was put off.           *)
LEMMA TypedStep == Typed /\ [Next]_vars => Typed'
BY TypedGoesOn, TypedPutOff, TypedRest DEF ThreadStep

-----------------------------------------------------------------------------
(* One injection at a time holds a session, until its thread has dropped   *)
(* its guards; the cancel entry of the session is its own.                 *)
HoldersExclude ==
  /\ \A i, j \in Inj :
       Holding(i) /\ Holding(j) /\ InjSession[i] = InjSession[j] => i = j
  /\ \A i \in Inj :
       Holding(i) => InjSession[i] \in injecting /\ tail[InjSession[i]] = "none"

HeldBySomebody ==
  \A s \in Session :
    /\ s \in injecting =>
         tail[s] # "none" \/ \E i \in Inj : InjSession[i] = s /\ Holding(i)
    /\ tail[s] # "none" => s \in injecting

EntryIsHolders ==
  /\ \A i \in Inj : pc[i] \in {"prepare", "turn"} => cancels[InjSession[i]] = i
  /\ \A s \in Session : cancels[s] # NoInj =>
       /\ InjSession[cancels[s]] = s
       /\ tail[s] = "cancels" \/ pc[cancels[s]] \in {"prepare", "turn"}

(* Who put an injection off is succeeded by somebody who flushes.          *)
SomebodyFlushes ==
  \A i \in Inj :
    LET s == InjSession[i] IN
    pc[i] = "queued" => s \in injecting \/ Busy(s) \/ flushes[s] > 0

(* What was read, answered and closed, by where the injection is.          *)
Answered ==
  \A i \in Inj : turns[i] <= 1 /\ (turns[i] = 1 => pc[i] = "done")

ReadEarly ==
  /\ \A i \in early : /\ pc[i] \notin {"register", "prepare", "turn"}
                      /\ i \in fetched \/ pc[i] = "done"
  /\ \A i \in fetched \ early :
       pc[i] \in {"register", "prepare", "turn", "done", "failed", "abandoned"}

SerialInv == HoldersExclude /\ HeldBySomebody /\ EntryIsHolders

ResultInv == Answered /\ ReadEarly /\ ClosedIsHandled

(* At first nobody holds a session.                                        *)
LEMMA SerialInit == Init => SerialInv
BY DEF Init, SerialInv, HoldersExclude, HeldBySomebody, EntryIsHolders, Holding

(* A step that moves one injection along, and touches nothing else that    *)
(* SerialInv reads.                                                        *)
LEMMA SerialGoesOn ==
  ASSUME Typed, SerialInv, NEW i \in Inj, NEW l \in PC, Goto(i, l),
         Holding(i)' <=> Holding(i),
         l \in {"prepare", "turn"} <=> pc[i] \in {"prepare", "turn"},
         UNCHANGED <<injecting, tail, cancels>>
  PROVE  SerialInv'
<1>1. /\ \A j \in Inj : Holding(j)' <=> Holding(j)
      /\ \A j \in Inj : pc'[j] \in {"prepare", "turn"}
                          <=> pc[j] \in {"prepare", "turn"}
      /\ cancels \in [Session -> Inj \cup {NoInj}]
  BY DEF Goto, Typed, TypeOK, Holding
<1>2. HoldersExclude' /\ HeldBySomebody'
  BY <1>1 DEF SerialInv, HoldersExclude, HeldBySomebody
<1>3. EntryIsHolders'
  <2>1. \A t \in Session : cancels[t] # NoInj => cancels[t] \in Inj
    BY <1>1
  <2> QED BY <1>1, <2>1 DEF SerialInv, EntryIsHolders
<1> QED BY <1>2, <1>3 DEF SerialInv

(* A step that ends an attempt: the holder is gone, its guards are left.   *)
LEMMA SerialUnwinds ==
  ASSUME Typed, SerialInv, NEW i \in Inj, Holding(i),
         NEW l \in PC, Goto(i, l), l \notin {"waiting", "check", "register",
                                            "prepare", "turn"},
         NEW guard \in {"cancels", "session"}, Unwind(i, guard),
         guard = "cancels" <=> pc[i] \in {"prepare", "turn"},
         UNCHANGED <<injecting, cancels>>
  PROVE  SerialInv'
<1> DEFINE s == InjSession[i]
<1> USE DEF SerialInv
<1>0. s \in Session /\ InjSession \in [Inj -> Session] /\ NoInj \notin Inj
  BY InjectionAssumption DEF InjectionAssumption
<1>1. /\ tail' = [tail EXCEPT ![s] = guard] /\ tail \in [Session -> {"none", "cancels", "session"}]
      /\ cancels \in [Session -> Inj \cup {NoInj}]
  BY DEF Typed, TypeOK, Unwind
<1>2. /\ ~Holding(i)' /\ pc'[i] \notin {"prepare", "turn"}
      /\ \A j \in Inj \ {i} : pc'[j] = pc[j] /\ (Holding(j)' <=> Holding(j))
  BY DEF Goto, Typed, TypeOK, Holding
<1>3. s \in injecting /\ tail[s] = "none"
  BY DEF HoldersExclude
<1>4. HoldersExclude'
  <2>1. \A j \in Inj : Holding(j)' => InjSession[j] # s
    BY <1>2 DEF HoldersExclude
  <2> QED BY <1>0, <1>1, <1>2, <2>1 DEF HoldersExclude
<1>5. HeldBySomebody'
  <2>1. ASSUME NEW t \in Session PROVE t = s \/ \A j \in Inj : InjSession[j] = t => (Holding(j)' <=> Holding(j))
    BY <1>2
  <2> QED BY <1>0, <1>1, <1>2, <1>3 DEF HeldBySomebody
<1>6. EntryIsHolders'
  <2>1. \A j \in Inj : pc'[j] \in {"prepare", "turn"} => cancels'[InjSession[j]] = j
    BY <1>2 DEF EntryIsHolders
  <2>2. ASSUME NEW t \in Session, cancels[t] # NoInj
        PROVE  /\ InjSession[cancels[t]] = t
               /\ tail'[t] = "cancels" \/ pc'[cancels[t]] \in {"prepare", "turn"}
    <3>0. cancels[t] \in Inj /\ InjSession[cancels[t]] = t
      BY <1>1, <2>2 DEF EntryIsHolders
    <3>1. CASE t # s
      BY <1>1, <1>2, <2>2, <3>0, <3>1 DEF EntryIsHolders
    <3>2. CASE t = s
      <4>1. pc[cancels[s]] \in {"prepare", "turn"}
        BY <1>3, <2>2, <3>2 DEF EntryIsHolders
      <4>2. cancels[s] = i
        BY <3>0, <3>2, <4>1 DEF HoldersExclude, Holding
      <4> QED BY <1>0, <1>1, <3>0, <3>2, <4>1, <4>2
    <3> QED BY <3>1, <3>2
  <2> QED BY <2>1, <2>2 DEF EntryIsHolders
<1> QED BY <1>4, <1>5, <1>6

(* A step of an injection keeps its session serial.                        *)
LEMMA SerialThread ==
  ASSUME Typed, SerialInv, NEW i \in Inj, Dispatch(i) \/ ThreadStep(i)
  PROVE  SerialInv'
<1> USE DEF Typed, TypeOK, PC, mapVars
<1>0. InjSession[i] \in Session /\ InjSession \in [Inj -> Session] /\ NoInj \notin Inj
  BY InjectionAssumption DEF InjectionAssumption
<1>1. CASE Dispatch(i) \/ SkipAtEntry(i) \/ PassEntry(i) \/ QueueBehind(i)
  <2>1. PICK l \in {"entry", "done", "guard", "queued"} :
          Goto(i, l) /\ pc[i] \in {"new", "entry", "guard"}
    BY <1>1 DEF Dispatch, SkipAtEntry, PassEntry, QueueBehind
  <2>2. UNCHANGED <<injecting, tail, cancels>>
    BY <1>1 DEF Dispatch, SkipAtEntry, PassEntry, QueueBehind
  <2>3. ~Holding(i)' /\ ~Holding(i)
    BY <2>1 DEF Goto, Holding
  <2> QED BY <2>1, <2>2, <2>3, SerialGoesOn
<1>2. CASE SeeIdle(i) \/ PassCheck(i) \/ StartTurn(i)
  <2>1. PICK l \in {"check", "register", "turn"} :
          /\ Goto(i, l) /\ pc[i] \in {"waiting", "check", "prepare"}
          /\ l = "turn" <=> pc[i] = "prepare"
    BY <1>2 DEF SeeIdle, PassCheck, StartTurn
  <2>2. UNCHANGED <<injecting, tail, cancels>>
    BY <1>2 DEF SeeIdle, PassCheck, StartTurn
  <2>3. Holding(i)' /\ Holding(i)
    BY <2>1 DEF Goto, Holding
  <2> QED BY <2>1, <2>2, <2>3, SerialGoesOn
<1>3. CASE TakeSession(i)
  <2> DEFINE s == InjSession[i]
  <2>1. /\ s \notin injecting /\ injecting' = injecting \cup {s}
        /\ UNCHANGED <<tail, cancels>>
    BY <1>3 DEF TakeSession
  <2>2. /\ Holding(i)' /\ pc'[i] \notin {"prepare", "turn"}
        /\ pc[i] \notin {"prepare", "turn"}
        /\ \A j \in Inj \ {i} : pc'[j] = pc[j] /\ (Holding(j)' <=> Holding(j))
    BY <1>3 DEF TakeSession, Goto, Holding
  <2>3. tail[s] = "none" /\ \A j \in Inj : Holding(j) => InjSession[j] # s
    BY <1>0, <2>1 DEF SerialInv, HoldersExclude, HeldBySomebody
  <2>4. HoldersExclude'
    BY <1>0, <2>1, <2>2, <2>3 DEF SerialInv, HoldersExclude
  <2>5. HeldBySomebody'
    BY <1>0, <2>1, <2>2, <2>3 DEF SerialInv, HeldBySomebody
  <2>6. EntryIsHolders'
    <3>1. \A t \in Session : cancels[t] # NoInj => cancels[t] \in Inj
      OBVIOUS
    <3>2. \A j \in Inj : pc'[j] \in {"prepare", "turn"}
                          <=> pc[j] \in {"prepare", "turn"}
      BY <2>2
    <3> QED BY <2>1, <3>1, <3>2 DEF SerialInv, EntryIsHolders
  <2> QED BY <2>4, <2>5, <2>6 DEF SerialInv
<1>4. CASE RegisterCancel(i)
  <2> DEFINE s == InjSession[i]
  <2>1. /\ cancels' = [cancels EXCEPT ![s] = i] /\ UNCHANGED <<tail, injecting>>
    BY <1>4 DEF RegisterCancel
  <2>2. /\ Holding(i) /\ pc'[i] = "prepare"
        /\ \A j \in Inj \ {i} : pc'[j] = pc[j]
        /\ \A j \in Inj : Holding(j)' <=> Holding(j)
    BY <1>4 DEF RegisterCancel, Goto, Holding
  <2>3. \A j \in Inj \ {i} : pc[j] \in {"prepare", "turn"} => InjSession[j] # s
    BY <2>2 DEF SerialInv, HoldersExclude, Holding
  <2>4. HoldersExclude' /\ HeldBySomebody'
    BY <2>1, <2>2 DEF SerialInv, HoldersExclude, HeldBySomebody
  <2>5. EntryIsHolders'
    <3>1. \A j \in Inj : pc'[j] \in {"prepare", "turn"}
                          => cancels'[InjSession[j]] = j
      BY <1>0, <2>1, <2>2, <2>3 DEF SerialInv, EntryIsHolders
    <3>2. ASSUME NEW t \in Session \ {s}, cancels[t] # NoInj
          PROVE  /\ InjSession[cancels[t]] = t
                 /\ tail[t] = "cancels" \/ pc'[cancels[t]] \in {"prepare", "turn"}
      <4>1. cancels[t] \in Inj \ {i} /\ InjSession[cancels[t]] = t
        BY <3>2 DEF SerialInv, EntryIsHolders
      <4> QED BY <2>2, <3>2, <4>1 DEF SerialInv, EntryIsHolders
    <3> QED BY <1>0, <2>1, <2>2, <3>1, <3>2 DEF EntryIsHolders
  <2> QED BY <2>4, <2>5 DEF SerialInv
<1>5. CASE IdleTimeout(i) \/ AbortRead(i)
  <2>1. /\ pc[i] \in {"waiting", "check"} /\ Unwind(i, "session")
        /\ Goto(i, "queued") \/ Goto(i, "done")
        /\ UNCHANGED <<injecting, cancels>>
    BY <1>5 DEF IdleTimeout, AbortRead
  <2>2. Holding(i)
    BY <2>1 DEF Holding
  <2> QED BY <2>1, <2>2, SerialUnwinds
<1>6. CASE GiveUp(i) \/ Abandon(i) \/ TurnSucceeds(i) \/ TurnFails(i)
             \/ TurnCancelled(i)
  <2>1. /\ pc[i] \in {"prepare", "turn"} /\ Unwind(i, "cancels")
        /\ \E l \in {"failed", "abandoned", "done", "queued"} : Goto(i, l)
        /\ UNCHANGED <<injecting, cancels>>
    <3>1. CASE TurnCancelled(i)
      BY <3>1 DEF TurnCancelled
    <3> QED BY <1>6, <3>1 DEF GiveUp, Abandon, TurnSucceeds, TurnFails
  <2>2. Holding(i)
    BY <2>1 DEF Holding
  <2> QED BY <2>1, <2>2, SerialUnwinds
<1> QED BY <1>1, <1>2, <1>3, <1>4, <1>5, <1>6 DEF ThreadStep

(* So does a step of anybody else.                                         *)
LEMMA SerialRest ==
  ASSUME Typed, SerialInv, [Next]_vars,
         ~ \E i \in Inj : Dispatch(i) \/ ThreadStep(i)
  PROVE  SerialInv'
<1> USE DEF mapVars
<1>0. InjSession \in [Inj -> Session] /\ NoInj \notin Inj
      /\ tail \in [Session -> {"none", "cancels", "session"}]
      /\ cancels \in [Session -> Inj \cup {NoInj}]
  BY InjectionAssumption DEF InjectionAssumption, Typed, TypeOK
<1>1. ASSUME UNCHANGED <<injecting, tail, cancels>>,
             \A i \in Inj : Holding(i)' <=> Holding(i),
             \A i \in Inj : pc'[i] \in {"prepare", "turn"}
                               <=> pc[i] \in {"prepare", "turn"}
      PROVE  SerialInv'
  BY <1>0, <1>1 DEF SerialInv, HoldersExclude, HeldBySomebody, EntryIsHolders
<1>2. CASE UNCHANGED <<pc, injecting, tail, cancels>>
  BY <1>1, <1>2 DEF Holding
<1>3. ASSUME NEW s \in Session, FlushPending(s) PROVE SerialInv'
  <2>1. \A i \in Inj : pc'[i] = pc[i] \/ (pc[i] = "queued"
                          /\ pc'[i] \in {"entry", "done", "lost"})
    BY <1>3, FlushEffect
  <2>2. UNCHANGED <<injecting, tail, cancels>>
    BY <1>3 DEF FlushPending
  <2> QED BY <1>1, <2>1, <2>2 DEF Holding
<1>4. ASSUME NEW s \in Session, DropCancels(s) PROVE SerialInv'
  <2>1. /\ tail[s] = "cancels" /\ cancels' = [cancels EXCEPT ![s] = NoInj]
        /\ tail' = [tail EXCEPT ![s] = "session"] /\ UNCHANGED <<pc, injecting>>
    BY <1>4 DEF DropCancels
  <2>2. \A i \in Inj : Holding(i) => InjSession[i] # s
    BY <2>1 DEF SerialInv, HoldersExclude
  <2>3. HoldersExclude' /\ HeldBySomebody'
    BY <1>0, <2>1, <2>2 DEF SerialInv, HoldersExclude, HeldBySomebody, Holding
  <2>4. EntryIsHolders'
    BY <1>0, <2>1, <2>2 DEF SerialInv, EntryIsHolders, Holding
  <2> QED BY <2>3, <2>4 DEF SerialInv
<1>5. ASSUME NEW s \in Session, DropSession(s) PROVE SerialInv'
  <2>1. /\ tail[s] = "session" /\ injecting' = injecting \ {s}
        /\ tail' = [tail EXCEPT ![s] = "none"] /\ UNCHANGED <<pc, cancels>>
    BY <1>5 DEF DropSession
  <2>2. \A i \in Inj : Holding(i) => InjSession[i] # s
    BY <2>1 DEF SerialInv, HoldersExclude
  <2>3. HoldersExclude' /\ HeldBySomebody'
    BY <1>0, <2>1, <2>2 DEF SerialInv, HoldersExclude, HeldBySomebody, Holding
  <2>4. cancels[s] = NoInj
    BY <1>0, <2>1, <2>2 DEF SerialInv, EntryIsHolders, Holding
  <2>5. EntryIsHolders'
    BY <1>0, <2>1, <2>4 DEF SerialInv, EntryIsHolders
  <2> QED BY <2>3, <2>5 DEF SerialInv
<1>6. ASSUME NEW c \in Chat, ChatCounts(c) \/ ChatStep(c) PROVE SerialInv'
  BY <1>2, <1>6 DEF ChatCounts, ChatStep, ChatCancels, ChatEnds
<1>7. ASSUME NEW i \in Inj, MarkFetched(i) \/ MarkCancels(i) PROVE SerialInv'
  BY <1>2, <1>7 DEF MarkFetched, MarkCancels
<1>8. ASSUME NEW s \in Session, DeleteSession(s) PROVE SerialInv'
  BY <1>2, <1>8 DEF DeleteSession
<1> QED BY <1>2, <1>3, <1>4, <1>5, <1>6, <1>7, <1>8 DEF Next, TailStep, vars

(* Injections of a session stay serial.                                    *)
LEMMA SerialStep == Typed /\ SerialInv /\ [Next]_vars => SerialInv'
BY SerialThread, SerialRest

(* At most one injection holds a session, so they can be counted.          *)
LEMMA SerialCounts == Typed /\ SerialInv => Serial
<1> SUFFICES ASSUME Typed, SerialInv PROVE Serial
  OBVIOUS
<1> SUFFICES ASSUME NEW s \in Session
             PROVE  Cardinality(Holders(s)) + (IF tail[s] = "none" THEN 0 ELSE 1)
                      = (IF s \in injecting THEN 1 ELSE 0)
  BY DEF Serial, SerialInv, EntryIsHolders
<1> USE DEF SerialInv, HoldersExclude, HeldBySomebody, Holders
<1>1. CASE Holders(s) = {}
  <2>1. Cardinality(Holders(s)) = 0
    BY <1>1, FS_EmptySet
  <2> QED BY <1>1, <2>1
<1>2. CASE Holders(s) # {}
  <2>1. PICK i \in Holders(s) : TRUE
    BY <1>2
  <2>2. Holders(s) = {i}
    BY <2>1
  <2>3. Cardinality(Holders(s)) = 1
    BY <2>2, FS_Singleton
  <2>4. s \in injecting /\ tail[s] = "none"
    BY <2>1
  <2> QED BY <2>3, <2>4
<1> QED BY <1>1, <1>2

-----------------------------------------------------------------------------
(* Nobody who was put off is forgotten.                                    *)
Watched(s) == s \in injecting \/ Busy(s) \/ flushes[s] > 0

(* A step of an injection leaves nobody in the queue without a flush to    *)
(* come.                                                                   *)
LEMMA FlushersThread ==
  ASSUME Typed, SerialInv, SomebodyFlushes, NEW i \in Inj,
         Dispatch(i) \/ ThreadStep(i)
  PROVE  SomebodyFlushes'
<1>0. pc \in [Inj -> PC]
  BY DEF Typed, TypeOK
<1>1. UNCHANGED <<chat, flushes>> /\ injecting \subseteq injecting'
  <2>1. CASE Dispatch(i) \/ SkipAtEntry(i) \/ PassEntry(i) \/ QueueBehind(i)
               \/ TakeSession(i) \/ SeeIdle(i) \/ PassCheck(i) \/ RegisterCancel(i)
               \/ StartTurn(i)
    BY <2>1 DEF Dispatch, SkipAtEntry, PassEntry, QueueBehind, TakeSession,
                SeeIdle, PassCheck, RegisterCancel, StartTurn, chatVars, mapVars
  <2>2. CASE IdleTimeout(i) \/ AbortRead(i) \/ GiveUp(i) \/ Abandon(i)
               \/ TurnSucceeds(i) \/ TurnFails(i)
    BY <2>2 DEF IdleTimeout, AbortRead, GiveUp, Abandon, TurnSucceeds, TurnFails,
                chatVars
  <2>3. CASE TurnCancelled(i)
    BY <2>3 DEF TurnCancelled, chatVars
  <2> QED BY <2>1, <2>2, <2>3 DEF ThreadStep
<1>2. PICK l : Goto(i, l) /\ (l = "queued" => QueueBehind(i) \/ IdleTimeout(i)
                                               \/ TurnCancelled(i))
  <2>1. CASE TurnCancelled(i)
    BY <2>1 DEF TurnCancelled
  <2>2. CASE QueueBehind(i) \/ IdleTimeout(i)
    BY <2>2 DEF QueueBehind, IdleTimeout
  <2>3. CASE Dispatch(i) \/ SkipAtEntry(i) \/ PassEntry(i) \/ TakeSession(i)
               \/ SeeIdle(i) \/ AbortRead(i)
    BY <2>3 DEF Dispatch, SkipAtEntry, PassEntry, TakeSession, SeeIdle, AbortRead
  <2>4. CASE PassCheck(i) \/ RegisterCancel(i) \/ GiveUp(i) \/ Abandon(i)
               \/ StartTurn(i) \/ TurnSucceeds(i) \/ TurnFails(i)
    BY <2>4 DEF PassCheck, RegisterCancel, GiveUp, Abandon, StartTurn,
                TurnSucceeds, TurnFails
  <2> QED BY <2>1, <2>2, <2>3, <2>4 DEF ThreadStep
<1>3. l = "queued" => InjSession[i] \in injecting
  <2>1. CASE QueueBehind(i)
    BY <2>1 DEF QueueBehind
  <2>2. CASE IdleTimeout(i)
    BY <2>2 DEF IdleTimeout, SerialInv, HoldersExclude, Holding
  <2>3. CASE TurnCancelled(i)
    <3>1. pc[i] \in {"prepare", "turn"}
      BY <2>3 DEF TurnCancelled
    <3> QED BY <3>1 DEF SerialInv, HoldersExclude, Holding
  <2> QED BY <1>2, <2>1, <2>2, <2>3
<1>4. \A s \in Session : Watched(s) => Watched(s)'
  BY <1>1 DEF Watched, Busy, Chats
<1>5. \A j \in Inj : pc'[j] = "queued" =>
        pc[j] = "queued" \/ InjSession[j] \in injecting
  BY <1>0, <1>2, <1>3 DEF Goto
<1>6. InjSession \in [Inj -> Session]
  BY InjectionAssumption DEF InjectionAssumption
<1> QED BY <1>1, <1>4, <1>5, <1>6 DEF SomebodyFlushes, Watched

(* The holder of a session that lets it go flushes, and so does the last   *)
(* chat; a flush leaves nobody queued in its session.                      *)
LEMMA FlushersRest ==
  ASSUME Typed, SomebodyFlushes, [Next]_vars,
         ~ \E i \in Inj : Dispatch(i) \/ ThreadStep(i)
  PROVE  SomebodyFlushes'
<1>0. /\ InjSession \in [Inj -> Session] /\ ChatSession \in [Chat -> Session]
      /\ pc \in [Inj -> PC] /\ flushes \in [Session -> Nat]
      /\ chat \in [Chat -> {"new", "counted", "active", "done"}]
  BY InjectionAssumption DEF InjectionAssumption, Typed, TypeOK
<1>1. ASSUME pc' = pc, \A s \in Session : Watched(s) => Watched(s)'
      PROVE  SomebodyFlushes'
  BY <1>0, <1>1 DEF SomebodyFlushes, Watched
<1>2. ASSUME UNCHANGED <<pc, injecting, chat, flushes>> PROVE SomebodyFlushes'
  BY <1>1, <1>2 DEF Watched, Busy, Chats
<1>3. ASSUME NEW s \in Session, DropCancels(s) \/ DeleteSession(s)
      PROVE  SomebodyFlushes'
  BY <1>2, <1>3 DEF DropCancels, DeleteSession, chatVars, mapVars
<1>4. ASSUME NEW s \in Session, DropSession(s) PROVE SomebodyFlushes'
  <2>1. \A t \in Session : Watched(t) => Watched(t)'
    BY <1>0, <1>4 DEF DropSession, Watched, Busy, Chats, chatVars
  <2> QED BY <1>1, <1>4, <2>1 DEF DropSession
<1>5. ASSUME NEW s \in Session, FlushPending(s) PROVE SomebodyFlushes'
  <2>1. /\ flushes' = [flushes EXCEPT ![s] = @ - 1]
        /\ UNCHANGED <<chat, injecting>>
    BY <1>5 DEF FlushPending, chatVars, mapVars
  <2>2. \A i \in Inj : pc'[i] = "queued" => pc[i] = "queued" /\ InjSession[i] # s
    BY <1>5, FlushEffect
  <2>3. \A t \in Session \ {s} : Watched(t) => Watched(t)'
    BY <1>0, <2>1 DEF Watched, Busy, Chats
  <2> QED BY <1>0, <2>2, <2>3 DEF SomebodyFlushes, Watched
<1>6. ASSUME NEW c \in Chat, ChatCounts(c) \/ ChatCancels(c) PROVE SomebodyFlushes'
  <2>1. UNCHANGED <<pc, injecting, flushes>>
        /\ \A d \in Chat : chat[d] \in {"counted", "active"}
                              => chat'[d] \in {"counted", "active"}
    BY <1>0, <1>6 DEF ChatCounts, ChatCancels, mapVars
  <2>2. \A t \in Session : Watched(t) => Watched(t)'
    BY <2>1 DEF Watched, Busy, Chats
  <2> QED BY <1>1, <2>1, <2>2
<1>7. ASSUME NEW c \in Chat, ChatEnds(c) PROVE SomebodyFlushes'
  <2> DEFINE s == ChatSession[c]
  <2>1. /\ chat' = [chat EXCEPT ![c] = "done"] /\ UNCHANGED <<pc, injecting>>
        /\ flushes' = [flushes EXCEPT ![s] = IF Chats(s) = {c} THEN @ + 1 ELSE @]
    BY <1>7 DEF ChatEnds, mapVars
  <2>2. \A t \in Session : Chats(t)' = Chats(t) \ {c}
    BY <1>0, <2>1 DEF Chats
  <2>3. ASSUME NEW t \in Session, Watched(t) PROVE Watched(t)'
    <3>1. t \in injecting \/ flushes[t] > 0 => Watched(t)'
      BY <1>0, <2>1 DEF Watched
    <3>2. ASSUME Busy(t) PROVE Watched(t)'
      <4>1. CASE Chats(t) = {c}
        <5>1. t = s
          BY <4>1 DEF Chats
        <5>2. flushes'[t] > 0
          BY <1>0, <2>1, <4>1, <5>1
        <5> QED BY <5>2 DEF Watched
      <4>2. CASE Chats(t) # {c}
        <5>1. Chats(t)' # {}
          BY <2>2, <3>2, <4>2 DEF Busy
        <5> QED BY <5>1 DEF Watched, Busy
      <4> QED BY <4>1, <4>2
    <3> QED BY <2>3, <3>1, <3>2 DEF Watched
  <2> QED BY <1>1, <2>1, <2>3
<1>8. ASSUME NEW i \in Inj, MarkFetched(i) \/ MarkCancels(i)
      PROVE  SomebodyFlushes'
  BY <1>2, <1>8 DEF MarkFetched, MarkCancels, chatVars, mapVars
<1>9. CASE UNCHANGED vars
  BY <1>2, <1>9 DEF vars, chatVars, mapVars
<1> QED BY <1>3, <1>4, <1>5, <1>6, <1>7, <1>8, <1>9 DEF Next, TailStep, ChatStep

-----------------------------------------------------------------------------
(* A result is answered at most once, and not after it was read; what      *)
(* looks delivered was handled.                                            *)

(* Steps of an injection, by what they do to its result.                   *)
LEMMA ResultGoesOn ==
  ASSUME Typed, ResultInv, NEW i \in Inj, NEW l \in PC, Goto(i, l),
         pc[i] \notin {"done", "failed"},
         UNCHANGED <<early, fetched, turns, closed, alive>>,
         l \in {"prepare", "turn"} => pc[i] \in {"register", "prepare"},
         l = "register" => i \notin fetched,
         i \in fetched \ early => l \in {"prepare", "turn", "abandoned"},
         i \in early => l # "failed"
  PROVE  ResultInv'
<1>0. pc \in [Inj -> PC]
  BY DEF Typed, TypeOK
<1>1. pc' = [pc EXCEPT ![i] = l]
  BY DEF Goto
<1>2. Answered'
  BY <1>0, <1>1 DEF ResultInv, Answered
<1>3. ReadEarly'
  BY <1>0, <1>1 DEF ResultInv, ReadEarly
<1>4. ClosedIsHandled'
  BY <1>0, <1>1 DEF ResultInv, ClosedIsHandled, Typed, TypeOK
<1> QED BY <1>2, <1>3, <1>4 DEF ResultInv

(* An attempt that ends closes its result: answered, read, failed, or      *)
(* without a session.                                                      *)
LEMMA ResultEnds ==
  ASSUME Typed, ResultInv, NEW i \in Inj, NEW l \in {"done", "failed"}, Goto(i, l),
         pc[i] \notin {"done", "failed"},
         UNCHANGED <<early, alive>>,
         fetched' = fetched \/ (fetched' = fetched \ {i} /\ l = "done"),
         closed' = closed \cup {i},
         \/ turns' = turns
         \/ turns' = [turns EXCEPT ![i] = @ + 1] /\ l = "done",
         l = "failed" => i \notin early,
         l = "done" => \/ turns' # turns \/ i \in early \cup fetched'
                       \/ InjSession[i] \notin alive
  PROVE  ResultInv'
<1>0. pc \in [Inj -> PC] /\ turns \in [Inj -> Nat] /\ closed \subseteq Inj
  BY DEF Typed, TypeOK
<1>1. pc' = [pc EXCEPT ![i] = l]
  BY DEF Goto
<1>2. turns[i] = 0
  BY <1>0 DEF ResultInv, Answered
<1>3. Answered'
  BY <1>0, <1>1, <1>2 DEF ResultInv, Answered
<1>4. ReadEarly'
  BY <1>0, <1>1 DEF ResultInv, ReadEarly
<1>5. ClosedIsHandled'
  BY <1>0, <1>1, <1>2 DEF ResultInv, ClosedIsHandled
<1> QED BY <1>3, <1>4, <1>5 DEF ResultInv

(* A step of an injection keeps what is known of results.                  *)
LEMMA ResultThread ==
  ASSUME Typed, SerialInv, ResultInv, NEW i \in Inj, Dispatch(i) \/ ThreadStep(i)
  PROVE  ResultInv'
<1> USE DEF chatVars, mapVars, readVars, PC
<1>0. /\ i \in early => pc[i] \notin {"register", "prepare", "turn"}
      /\ i \in fetched \ early =>
           pc[i] \in {"register", "prepare", "turn", "done", "failed", "abandoned"}
  BY DEF ResultInv, ReadEarly
<1>1. CASE Dispatch(i) \/ PassEntry(i) \/ TakeSession(i) \/ SeeIdle(i)
             \/ PassCheck(i)
  <2>1. \E l \in {"entry", "guard", "waiting", "check", "register"} :
          Goto(i, l) /\ (l = "register" => i \notin fetched)
    BY <1>1 DEF Dispatch, PassEntry, TakeSession, SeeIdle, PassCheck
  <2>2. /\ pc[i] \in {"new", "entry", "guard", "waiting", "check"}
        /\ UNCHANGED <<early, fetched, turns, closed, alive>>
    BY <1>1 DEF Dispatch, PassEntry, TakeSession, SeeIdle, PassCheck
  <2> QED BY <1>0, <2>1, <2>2, ResultGoesOn
<1>2. CASE RegisterCancel(i) \/ StartTurn(i) \/ Abandon(i)
  <2>1. \E l \in {"prepare", "turn", "abandoned"} : Goto(i, l)
    BY <1>2 DEF RegisterCancel, StartTurn, Abandon
  <2>2. /\ pc[i] \in {"register", "prepare"}
        /\ UNCHANGED <<early, fetched, turns, closed, alive>>
    BY <1>2 DEF RegisterCancel, StartTurn, Abandon
  <2> QED BY <1>0, <2>1, <2>2, ResultGoesOn
<1>3. CASE QueueBehind(i) \/ IdleTimeout(i)
  <2>1. /\ Goto(i, "queued") /\ pc[i] \in {"guard", "waiting"}
        /\ UNCHANGED <<early, fetched, turns, closed, alive>>
    BY <1>3 DEF QueueBehind, IdleTimeout
  <2> QED BY <1>0, <2>1, ResultGoesOn
<1>4. CASE SkipAtEntry(i)
  <2>1. /\ Goto(i, "done") /\ pc[i] = "entry" /\ closed' = closed \cup {i}
        /\ fetched' = fetched \ {i} /\ UNCHANGED <<early, alive, turns>>
        /\ i \in fetched \/ InjSession[i] \notin alive
    BY <1>4 DEF SkipAtEntry
  <2> QED BY <1>0, <2>1, ResultEnds
<1>5. CASE AbortRead(i)
  <2>1. /\ Goto(i, "done") /\ pc[i] \in {"check", "waiting"}
        /\ closed' = closed \cup {i} /\ i \in fetched
        /\ UNCHANGED <<early, alive, turns, fetched>>
    BY <1>5 DEF AbortRead
  <2> QED BY <2>1, ResultEnds
<1>6. CASE GiveUp(i) \/ TurnFails(i)
  <2>1. /\ Goto(i, "failed") /\ pc[i] \in {"prepare", "turn"}
        /\ closed' = closed \cup {i}
        /\ UNCHANGED <<early, alive, turns, fetched>>
    BY <1>6 DEF GiveUp, TurnFails
  <2> QED BY <1>0, <2>1, ResultEnds
<1>7. CASE TurnSucceeds(i)
  <2>1. /\ Goto(i, "done") /\ pc[i] = "turn" /\ closed' = closed \cup {i}
        /\ turns' = [turns EXCEPT ![i] = @ + 1]
        /\ UNCHANGED <<early, alive, fetched>>
    BY <1>7 DEF TurnSucceeds
  <2>2. turns' # turns
    BY <2>1 DEF Typed, TypeOK
  <2> QED BY <2>1, <2>2, ResultEnds
<1>8. CASE TurnCancelled(i)
  <2>1. /\ pc[i] \in {"prepare", "turn"} /\ UNCHANGED <<early, alive, turns, fetched>>
    BY <1>8 DEF TurnCancelled
  <2>2. CASE i \in fetched
    <3>1. Goto(i, "done") /\ closed' = closed \cup {i}
      BY <1>8, <2>2 DEF TurnCancelled
    <3> QED BY <2>1, <2>2, <3>1, ResultEnds
  <2>3. CASE i \notin fetched
    <3>1. Goto(i, "queued") /\ closed' = closed
      BY <1>8, <2>3 DEF TurnCancelled
    <3> QED BY <2>1, <2>3, <3>1, ResultGoesOn
  <2> QED BY <2>2, <2>3
<1> QED BY <1>1, <1>2, <1>3, <1>4, <1>5, <1>6, <1>7, <1>8 DEF ThreadStep

(* So does a step of anybody else.                                         *)
LEMMA ResultRest ==
  ASSUME Typed, ResultInv, [Next]_vars,
         ~ \E i \in Inj : Dispatch(i) \/ ThreadStep(i)
  PROVE  ResultInv'
<1> USE DEF chatVars, mapVars, readVars
<1>0. /\ pc \in [Inj -> PC] /\ closed \subseteq Inj /\ fetched \subseteq Inj
      /\ early \subseteq Inj
  BY DEF Typed, TypeOK
<1>1. ASSUME UNCHANGED <<pc, turns, early, fetched, closed>>, alive' \subseteq alive
      PROVE  ResultInv'
  BY <1>1 DEF ResultInv, Answered, ReadEarly, ClosedIsHandled
<1>2. ASSUME NEW s \in Session, FlushPending(s) PROVE ResultInv'
  <2>1. /\ fetched' \subseteq fetched
        /\ \A i \in Inj :
             IF pc[i] = "queued" /\ InjSession[i] = s
             THEN \/ pc'[i] = "entry" /\ i \notin fetched
                  \/ pc'[i] = "done" /\ i \in fetched
                  \/ pc'[i] = "lost" /\ (i \in fetched => i \in fetched')
             ELSE pc'[i] = pc[i] /\ (i \in fetched => i \in fetched')
        /\ UNCHANGED <<turns, early, closed, alive>>
    BY <1>2, FlushEffect
  <2>2. Answered'
    BY <2>1 DEF ResultInv, Answered
  <2>3. ReadEarly'
    BY <1>0, <2>1 DEF ResultInv, ReadEarly
  <2>4. ClosedIsHandled'
    BY <1>0, <2>1 DEF ResultInv, ClosedIsHandled
  <2> QED BY <2>2, <2>3, <2>4 DEF ResultInv
<1>3. ASSUME NEW i \in Inj, MarkFetched(i) PROVE ResultInv'
  <2>1. /\ fetched' = fetched \cup {i}
        /\ early' = IF pc[i] \in {"register", "prepare", "turn"} THEN early
                                                     ELSE early \cup {i}
        /\ UNCHANGED <<pc, turns, closed, alive>>
    BY <1>3 DEF MarkFetched
  <2> QED BY <2>1 DEF ResultInv, Answered, ReadEarly, ClosedIsHandled
<1>4. ASSUME NEW i \in Inj, MarkCancels(i) PROVE ResultInv'
  BY <1>1, <1>4 DEF MarkCancels
<1>5. ASSUME NEW s \in Session, TailStep(s) PROVE ResultInv'
  BY <1>1, <1>5 DEF TailStep, DropCancels, DropSession
<1>6. ASSUME NEW s \in Session, DeleteSession(s) PROVE ResultInv'
  BY <1>1, <1>6 DEF DeleteSession
<1>7. ASSUME NEW c \in Chat, ChatCounts(c) \/ ChatStep(c) PROVE ResultInv'
  BY <1>1, <1>7 DEF ChatCounts, ChatStep, ChatCancels, ChatEnds
<1>8. CASE UNCHANGED vars
  BY <1>1, <1>8 DEF vars
<1> QED BY <1>2, <1>3, <1>4, <1>5, <1>6, <1>7, <1>8 DEF Next

-----------------------------------------------------------------------------
(* The inductive invariant: where an injection is in its attempt says who  *)
(* holds the session, who will flush it, and what became of its result.    *)
InjectionInv == Typed /\ SerialInv /\ SomebodyFlushes /\ ResultInv

(* The four parts hold together in every reachable state, for any sets of  *)
(* injections, chats and sessions (injection.rs, helpers.rs).              *)
THEOREM InjectionIsInductive == Spec => []InjectionInv
<1>1. Init => InjectionInv
  BY TypedInit, SerialInit
     DEF Init, InjectionInv, SomebodyFlushes, ResultInv, Answered, ReadEarly,
         ClosedIsHandled
<1>2. InjectionInv /\ [Next]_vars => InjectionInv'
  BY TypedStep, SerialStep, FlushersThread, FlushersRest, ResultThread, ResultRest
     DEF InjectionInv
<1> QED BY <1>1, <1>2, PTL DEF Spec

(* Every reachable state is typed, the injections of a session are serial  *)
(* and guarded by their own cancel entry, and whoever is put off in        *)
(* PENDING_INJECTIONS has somebody bound to flush the session              *)
(* (injection.rs, helpers.rs), for any number of injections and chats.     *)
THEOREM PipelineHolds == Spec => []Pipeline
<1>1. InjectionInv => QueuedWillBeFlushed
  BY DEF InjectionInv, Typed, QueueIsQueued, SomebodyFlushes, QueuedWillBeFlushed
<1>2. InjectionInv => Pipeline
  BY <1>1, SerialCounts DEF InjectionInv, Pipeline, Typed
<1> QED BY <1>2, InjectionIsInductive, PTL

(* A result is answered by at most one turn of the parent, and by none     *)
(* that starts after the parent read it (injection.rs: a duplicate         *)
(* completion is never written).                                           *)
THEOREM ResultIsAnsweredOnce == Spec => []AnsweredOnce
<1>1. InjectionInv => AnsweredOnce
  BY DEF InjectionInv, ResultInv, Answered, ReadEarly, AnsweredOnce
<1> QED BY <1>1, InjectionIsInductive, PTL

(* on_injected fires only for a result that was answered, read, failed for *)
(* good or lost its session, and its injection never runs again.           *)
THEOREM DeliveredIsHandled == Spec => []ClosedIsHandled
<1>1. InjectionInv => ClosedIsHandled
  BY DEF InjectionInv, ResultInv
<1> QED BY <1>1, InjectionIsInductive, PTL
=============================================================================

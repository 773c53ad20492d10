--------------------------- MODULE ParentInjection ---------------------------
(***************************************************************************)
(* Injection of finished background work into its parent session           *)
(* (crates/ha-core/src/subagent/injection.rs, helpers.rs, mailbox.rs).     *)
(* Each injection is a task carried by a thread of its own that waits for  *)
(* the session to be idle, then runs a turn of the parent agent; user      *)
(* chats have priority and cancel it.  Four process-wide maps, each behind *)
(* its own mutex, tie the actors together: ACTIVE_CHAT_SESSIONS,           *)
(* INJECTING_SESSIONS, INJECTION_CANCELS and PENDING_INJECTIONS, besides   *)
(* the set FETCHED_RUN_IDS of results the parent already read.             *)
(***************************************************************************)
EXTENDS Integers, Sequences, SequencesExt, FiniteSets, SeqFilter

CONSTANTS
  Inj,        \* injections (run ids)
  NoInj,
  Chat,       \* bound: user turns
  Session,    \* parent sessions
  InjSession, \* the session of each injection
  ChatSession,\* the session of each chat
  Readable,   \* bound: results a turn may read through a tool
  Mortal,     \* bound: sessions that may be deleted
  Faults      \* TRUE: no model configured, or the agent refuses admission

ASSUME InjectionAssumption ==
  /\ NoInj \notin Inj
  /\ InjSession \in [Inj -> Session] /\ ChatSession \in [Chat -> Session]
  /\ Readable \subseteq Inj /\ Mortal \subseteq Session
  /\ Faults \in BOOLEAN

VARIABLES
  pc,        \* the task: where its present attempt is
  chat,      \* ChatSessionGuard of each user turn
  injecting, \* INJECTING_SESSIONS
  pending,   \* PENDING_INJECTIONS
  cancels,   \* INJECTION_CANCELS: the injection registered for a session
  cancel,    \* the cancel flag of the present attempt
  fetched,   \* FETCHED_RUN_IDS
  marking,   \* mark_run_fetched calls between their two locks
  tail,      \* the guards the thread that holds a session has left to drop
  flushes,   \* flush_pending_injections calls about to run
  alive,     \* sessions that exist
  closed,    \* on_injected fired
  turns,     \* turns of the parent that answered the injection
  early      \* history: results read before their injection's last check

chatVars == <<chat, alive>>
readVars == <<fetched, marking, early>>
mapVars  == <<injecting, cancels, cancel, tail>>
vars == <<pc, chatVars, pending, mapVars, readVars, flushes, closed, turns>>

PC == {"new", "entry", "guard", "waiting", "check", "register", "prepare",
       "turn", "queued", "done", "failed", "abandoned", "lost"}

TypeOK ==
  /\ pc \in [Inj -> PC]
  /\ chat \in [Chat -> {"new", "counted", "active", "done"}]
  /\ injecting \subseteq Session
  /\ pending \in Seq(Inj) /\ IsInjective(pending)
  /\ cancels \in [Session -> Inj \cup {NoInj}]
  /\ cancel \in [Inj -> BOOLEAN]
  /\ fetched \subseteq Inj /\ marking \subseteq Inj /\ early \subseteq Inj
  /\ tail \in [Session -> {"none", "cancels", "session"}]
  /\ flushes \in [Session -> Nat]
  /\ alive \subseteq Session /\ closed \subseteq Inj
  /\ turns \in [Inj -> Nat]

Init ==
  /\ pc = [i \in Inj |-> "new"]
  /\ chat = [c \in Chat |-> "new"]
  /\ injecting = {} /\ pending = <<>>
  /\ cancels = [s \in Session |-> NoInj]
  /\ cancel = [i \in Inj |-> FALSE]
  /\ fetched = {} /\ marking = {} /\ early = {}
  /\ tail = [s \in Session |-> "none"]
  /\ flushes = [s \in Session |-> 0]
  /\ alive = Session /\ closed = {}
  /\ turns = [i \in Inj |-> 0]

Goto(i, l) == pc' = [pc EXCEPT ![i] = l]

(* The count of ACTIVE_CHAT_SESSIONS.                                      *)
Chats(s) ==
  {c \in Chat : ChatSession[c] = s /\ chat[c] \in {"counted", "active"}}

Busy(s) == Chats(s) # {}

-----------------------------------------------------------------------------
(* inject_and_run_parent.                                                  *)

Dispatch(i) ==
  /\ pc[i] = "new"
  /\ Goto(i, "entry")
  /\ UNCHANGED <<chatVars, pending, mapVars, readVars, flushes, closed, turns>>

(* Nothing to inject: the result was read, or the session is gone.         *)
SkipAtEntry(i) ==
  /\ pc[i] = "entry"
  /\ i \in fetched \/ InjSession[i] \notin alive
  /\ fetched' = fetched \ {i}
  /\ closed' = closed \cup {i}
  /\ Goto(i, "done")
  /\ UNCHANGED <<chatVars, pending, mapVars, marking, early, flushes, turns>>

PassEntry(i) ==
  /\ pc[i] = "entry" /\ i \notin fetched /\ InjSession[i] \in alive
  /\ Goto(i, "guard")
  /\ UNCHANGED <<chatVars, pending, mapVars, readVars, flushes, closed, turns>>

(* Under the lock of INJECTING_SESSIONS: queue behind the injection that   *)
(* holds the session, or take it.                                          *)
QueueBehind(i) ==
  /\ pc[i] = "guard" /\ InjSession[i] \in injecting
  /\ pending' = Append(pending, i)
  /\ Goto(i, "queued")
  /\ UNCHANGED <<chatVars, mapVars, readVars, flushes, closed, turns>>

(* As TakeSession without looking whether the session is taken.            *)
TakeSessionBlindly(i) ==
  /\ pc[i] = "guard"
  /\ injecting' = injecting \cup {InjSession[i]}
  /\ Goto(i, "waiting")
  /\ UNCHANGED <<chatVars, pending, cancels, cancel, tail, readVars, flushes,
                 closed, turns>>

TakeSession(i) ==
  /\ pc[i] = "guard" /\ InjSession[i] \notin injecting
  /\ injecting' = injecting \cup {InjSession[i]}
  /\ Goto(i, "waiting")
  /\ UNCHANGED <<chatVars, pending, cancels, cancel, tail, readVars, flushes,
                 closed, turns>>

(* wait_for_session_idle: idle, out of patience, or read meanwhile.        *)
SeeIdle(i) ==
  /\ pc[i] = "waiting" /\ ~Busy(InjSession[i])
  /\ Goto(i, "check")
  /\ UNCHANGED <<chatVars, pending, mapVars, readVars, flushes, closed, turns>>

(* The attempt ends: its thread drops the guards it holds, CancelCleanup   *)
(* first when it is registered.                                            *)
Unwind(i, guard) == tail' = [tail EXCEPT ![InjSession[i]] = guard]

(* As IdleTimeout telling the source that it was injected.                 *)
IdleTimeoutCloses(i) ==
  /\ pc[i] = "waiting" /\ Busy(InjSession[i])
  /\ pending' = Append(pending, i)
  /\ closed' = closed \cup {i}
  /\ Goto(i, "queued") /\ Unwind(i, "session")
  /\ UNCHANGED <<chatVars, injecting, cancels, cancel, readVars, flushes,
                 turns>>

IdleTimeout(i) ==
  /\ pc[i] = "waiting" /\ Busy(InjSession[i])
  /\ pending' = Append(pending, i)
  /\ Goto(i, "queued") /\ Unwind(i, "session")
  /\ UNCHANGED <<chatVars, injecting, cancels, cancel, readVars, flushes,
                 closed, turns>>

(* Read while waiting, or found read by the final check.                   *)
AbortRead(i) ==
  /\ i \in fetched
  /\ pc[i] = "check" \/ (pc[i] = "waiting" /\ Busy(InjSession[i]))
  /\ closed' = closed \cup {i}
  /\ Goto(i, "done") /\ Unwind(i, "session")
  /\ UNCHANGED <<chatVars, pending, injecting, cancels, cancel, readVars,
                 flushes, turns>>

PassCheck(i) ==
  /\ pc[i] = "check" /\ i \notin fetched
  /\ Goto(i, "register")
  /\ UNCHANGED <<chatVars, pending, mapVars, readVars, flushes, closed, turns>>

(* From here on a chat can cancel the attempt.                             *)
RegisterCancel(i) ==
  /\ pc[i] = "register"
  /\ cancels' = [cancels EXCEPT ![InjSession[i]] = i]
  /\ cancel' = [cancel EXCEPT ![i] = FALSE]
  /\ Goto(i, "prepare")
  /\ UNCHANGED <<chatVars, pending, injecting, tail, readVars, flushes, closed,
                 turns>>

(* The session is gone, or there is no model: handled, without a turn.     *)
GiveUp(i) ==
  /\ pc[i] = "prepare"
  /\ Faults \/ InjSession[i] \notin alive
  /\ closed' = closed \cup {i}
  /\ Goto(i, "failed") /\ Unwind(i, "cancels")
  /\ UNCHANGED <<chatVars, pending, injecting, cancels, cancel, readVars,
                 flushes, turns>>

(* begin_agent_run refused: left to the restart replay.                    *)
Abandon(i) ==
  /\ Faults /\ pc[i] = "prepare"
  /\ Goto(i, "abandoned") /\ Unwind(i, "cancels")
  /\ UNCHANGED <<chatVars, pending, injecting, cancels, cancel, readVars,
                 flushes, closed, turns>>

StartTurn(i) ==
  /\ pc[i] = "prepare" /\ InjSession[i] \in alive /\ ~cancel[i]
  /\ Goto(i, "turn")
  /\ UNCHANGED <<chatVars, pending, mapVars, readVars, flushes, closed, turns>>

(* As TurnSucceeds heeding a cancel that arrived after the answer.         *)
TurnRequeues(i) ==
  /\ pc[i] = "turn"
  /\ turns' = [turns EXCEPT ![i] = @ + 1]
  /\ IF cancel[i]
       THEN /\ pending' = Append(pending, i) /\ Goto(i, "queued")
            /\ UNCHANGED closed
       ELSE /\ closed' = closed \cup {i} /\ Goto(i, "done")
            /\ UNCHANGED pending
  /\ Unwind(i, "cancels")
  /\ UNCHANGED <<chatVars, injecting, cancels, cancel, readVars, flushes>>

(* The answer is persisted: delivered, even if a cancel came just now.     *)
TurnSucceeds(i) ==
  /\ pc[i] = "turn"
  /\ turns' = [turns EXCEPT ![i] = @ + 1]
  /\ closed' = closed \cup {i}
  /\ Goto(i, "done") /\ Unwind(i, "cancels")
  /\ UNCHANGED <<chatVars, pending, injecting, cancels, cancel, readVars,
                 flushes>>

(* All models failed: the error is persisted, nothing is retried.          *)
TurnFails(i) ==
  /\ pc[i] = "turn" /\ ~cancel[i]
  /\ closed' = closed \cup {i}
  /\ Goto(i, "failed") /\ Unwind(i, "cancels")
  /\ UNCHANGED <<chatVars, pending, injecting, cancels, cancel, readVars,
                 flushes, turns>>

(* Cancelled before or during the turn: handled if the result was read,    *)
(* else queued for the next idle period.                                   *)
TurnCancelled(i) ==
  /\ pc[i] \in {"prepare", "turn"} /\ cancel[i]
  /\ pc[i] = "prepare" => InjSession[i] \in alive
  /\ IF i \in fetched
       THEN /\ closed' = closed \cup {i} /\ Goto(i, "done")
            /\ UNCHANGED pending
       ELSE /\ pending' = Append(pending, i) /\ Goto(i, "queued")
            /\ UNCHANGED closed
  /\ Unwind(i, "cancels")
  /\ UNCHANGED <<chatVars, injecting, cancels, cancel, readVars, flushes,
                 turns>>

-----------------------------------------------------------------------------
(* The end of an attempt: Drop of CancelCleanup, then of CleanupGuard.     *)

DropCancels(s) ==
  /\ tail[s] = "cancels"
  /\ cancels' = [cancels EXCEPT ![s] = NoInj]
  /\ tail' = [tail EXCEPT ![s] = "session"]
  /\ UNCHANGED <<pc, chatVars, pending, injecting, cancel, readVars, flushes,
                 closed, turns>>

(* As DropSession relying on the end of the next chat for the flush.       *)
DropSessionOnly(s) ==
  /\ tail[s] = "session"
  /\ injecting' = injecting \ {s}
  /\ tail' = [tail EXCEPT ![s] = "none"]
  /\ UNCHANGED <<pc, chatVars, pending, cancels, cancel, readVars, flushes,
                 closed, turns>>

DropSession(s) ==
  /\ tail[s] = "session"
  /\ injecting' = injecting \ {s}
  /\ tail' = [tail EXCEPT ![s] = "none"]
  /\ flushes' = [flushes EXCEPT ![s] = @ + 1]
  /\ UNCHANGED <<pc, chatVars, pending, cancels, cancel, readVars, closed,
                 turns>>

OfSession(s) == {i \in Inj : InjSession[i] = s}

(* flush_pending_injections: drain every task of the session; skip the     *)
(* leading ones that were read, start the first of the others.  The tasks  *)
(* behind it are dropped with the drained vector.                          *)
FlushPending(s) ==
  LET mine  == Keep(pending, OfSession(s))
      fresh == Without(mine, fetched)
      tasks == ToSet(mine)
      next  == IF fresh = <<>> THEN {} ELSE {Head(fresh)}
      read  == {i \in tasks \cap fetched :
                  next = {} \/ \E m, n \in DOMAIN mine :
                                 m < n /\ mine[m] = i /\ mine[n] \in next}
  IN
  /\ flushes[s] > 0
  /\ flushes' = [flushes EXCEPT ![s] = @ - 1]
  /\ pending' = Without(pending, OfSession(s))
  /\ fetched' = fetched \ read
  /\ pc' = [i \in Inj |-> IF i \in next THEN "entry"
                          ELSE IF i \in read THEN "done"
                          ELSE IF i \in tasks THEN "lost" ELSE pc[i]]
  /\ UNCHANGED <<chatVars, mapVars, marking, early, closed, turns>>

-----------------------------------------------------------------------------
(* User turns: ChatSessionGuard::new counts the turn, then cancels the     *)
(* registered injection; its Drop uncounts it and the last one flushes.    *)

ChatCounts(c) ==
  /\ chat[c] = "new" /\ ChatSession[c] \in alive
  /\ chat' = [chat EXCEPT ![c] = "counted"]
  /\ UNCHANGED <<pc, alive, pending, mapVars, readVars, flushes, closed, turns>>

ChatCancels(c) ==
  /\ chat[c] = "counted"
  /\ chat' = [chat EXCEPT ![c] = "active"]
  /\ LET i == cancels[ChatSession[c]] IN
       cancel' = [k \in Inj |-> cancel[k] \/ k = i]
  /\ UNCHANGED <<pc, alive, pending, injecting, cancels, tail, readVars,
                 flushes, closed, turns>>

ChatEnds(c) ==
  /\ chat[c] = "active"
  /\ chat' = [chat EXCEPT ![c] = "done"]
  /\ flushes' = [flushes EXCEPT ![ChatSession[c]] =
                   IF Chats(ChatSession[c]) = {c} THEN @ + 1 ELSE @]
  /\ UNCHANGED <<pc, alive, pending, mapVars, readVars, closed, turns>>

(* A turn of the session reads the result with a tool: mark_run_fetched,   *)
(* then its second lock.                                                   *)
InTurn(s) == \/ \E c \in Chat : ChatSession[c] = s /\ chat[c] = "active"
             \/ \E k \in Inj : InjSession[k] = s /\ pc[k] = "turn"

MarkFetched(i) ==
  /\ i \in Readable \ (fetched \cup early) /\ InTurn(InjSession[i])
  /\ fetched' = fetched \cup {i}
  /\ marking' = marking \cup {i}
  /\ early' = IF pc[i] \in {"register", "prepare", "turn"} THEN early
                                                         ELSE early \cup {i}
  /\ UNCHANGED <<pc, chatVars, pending, mapVars, flushes, closed, turns>>

MarkCancels(i) ==
  /\ i \in marking
  /\ marking' = marking \ {i}
  /\ cancel' = [cancel EXCEPT
                  ![i] = @ \/ \E s \in Session : cancels[s] = i]
  /\ UNCHANGED <<pc, chatVars, pending, injecting, cancels, tail, fetched,
                 early, flushes, closed, turns>>

DeleteSession(s) ==
  /\ s \in Mortal \cap alive
  /\ alive' = alive \ {s}
  /\ UNCHANGED <<pc, chat, pending, mapVars, readVars, flushes, closed, turns>>

-----------------------------------------------------------------------------
ThreadStep(i) ==
  \/ SkipAtEntry(i) \/ PassEntry(i) \/ QueueBehind(i) \/ TakeSession(i)
  \/ SeeIdle(i) \/ IdleTimeout(i) \/ AbortRead(i) \/ PassCheck(i)
  \/ RegisterCancel(i) \/ GiveUp(i) \/ Abandon(i) \/ StartTurn(i)
  \/ TurnSucceeds(i) \/ TurnFails(i) \/ TurnCancelled(i)

TailStep(s) == DropCancels(s) \/ DropSession(s)

ChatStep(c) == ChatCancels(c) \/ ChatEnds(c)

Next ==
  \/ \E i \in Inj :
       Dispatch(i) \/ ThreadStep(i) \/ MarkFetched(i) \/ MarkCancels(i)
  \/ \E s \in Session : TailStep(s) \/ FlushPending(s) \/ DeleteSession(s)
  \/ \E c \in Chat : ChatCounts(c) \/ ChatStep(c)

Spec == Init /\ [][Next]_vars

(* Threads run, turns end (a turn of the engine is bounded by its model    *)
(* timeouts), chats end.                                                   *)
FairSpec ==
  /\ Spec
  /\ \A i \in Inj : WF_vars(ThreadStep(i)) /\ WF_vars(MarkCancels(i))
  /\ \A s \in Session : WF_vars(TailStep(s)) /\ WF_vars(FlushPending(s))
  /\ \A c \in Chat : WF_vars(ChatStep(c))

-----------------------------------------------------------------------------
(* Properties.                                                             *)

Holding(i) == pc[i] \in {"waiting", "check", "register", "prepare", "turn"}

Holders(s) == {i \in Inj : InjSession[i] = s /\ Holding(i)}

(* Injections of a session run one at a time, and the flag a chat would    *)
(* trip is that of the injection that holds the session: a guard dropped   *)
(* late never takes away a successor's entry.                              *)
Serial ==
  \A s \in Session :
    /\ Cardinality(Holders(s)) + (IF tail[s] = "none" THEN 0 ELSE 1)
         = (IF s \in injecting THEN 1 ELSE 0)
    /\ \A i \in Inj :
         InjSession[i] = s /\ pc[i] \in {"prepare", "turn"} => cancels[s] = i
    /\ cancels[s] # NoInj =>
         tail[s] = "cancels" \/ pc[cancels[s]] \in {"prepare", "turn"}

(* An injection put off is never stranded: while it waits in               *)
(* PENDING_INJECTIONS somebody is bound to flush its session, although the *)
(* push, the release of the session and the flush are separate steps.      *)
QueuedWillBeFlushed ==
  \A i \in Inj :
    LET s == InjSession[i] IN
    pc[i] = "queued" =>
      i \in ToSet(pending) /\ (s \in injecting \/ Busy(s) \/ flushes[s] > 0)

(* The pipeline of a session: typed, serial, and nobody put off in it is   *)
(* forgotten.                                                              *)
Pipeline == TypeOK /\ Serial /\ QueuedWillBeFlushed

(* A result is answered by at most one turn, however often its injection   *)
(* was cancelled and retried (injection.rs: "re-queueing would write a     *)
(* duplicate sub-agent completion"), and by none when the parent read it   *)
(* before the last check of its injection, through any number of re-queues *)
(* and flushes.                                                            *)
AnsweredOnce ==
  /\ \A i \in Inj : turns[i] <= 1
  /\ \A i \in early : pc[i] \notin {"prepare", "turn"}

(* An injection looks delivered to its source only when it was answered,   *)
(* read, failed for good, or has no session left; and once it looks        *)
(* delivered it is not run again (MISC-15).                                *)
ClosedIsHandled ==
  \A i \in closed :
    /\ pc[i] \in {"done", "failed"}
    /\ \/ turns[i] = 1 \/ i \in early \cup fetched \/ pc[i] = "failed"
       \/ InjSession[i] \notin alive

(* No injection turn runs next to a user turn of its session except until  *)
(* it notices its cancel flag (engine.rs: "injection yields to the live    *)
(* turn instead of splicing into it").                                     *)
NoSplice ==
  \A i \in Inj : \A c \in Chat :
    /\ pc[i] = "turn" /\ chat[c] = "active"
    /\ InjSession[i] = ChatSession[c] /\ turns[i] = 0
    => cancel[i]

(* Every task drained from the queue is retried (injection.rs: "Only       *)
(* re-trigger one at a time; next one queues on completion").              *)
NoneLost == \A i \in Inj : pc[i] # "lost"

(* No injection waits for ever: chats end, and each attempt comes to its   *)
(* end or is retried until it does.                                        *)
EveryInjectionEnds ==
  \A i \in Inj :
    pc[i] = "entry" ~> pc[i] \in {"done", "failed", "abandoned", "lost"}
=============================================================================

------------------------------ MODULE TurnQueue ------------------------------
(***************************************************************************)
(* The durable queue of user messages and the turns of one session         *)
(* (crates/ha-core/src/session/{turn_queue,turns,db}.rs,                   *)
(* chat_engine/{active_turn,turn_injection,engine,mod}.rs,                 *)
(* agent/streaming_loop.rs, and the chat commands of the two shells).      *)
(*                                                                         *)
(* A message sent while a turn runs waits in queued_turn_user_messages.    *)
(* It becomes a turn of its own (claimed as `dispatching` by the command   *)
(* that runs the turn) or is inserted into the running turn at its next    *)
(* tool boundary (bound to that turn as `waiting_tool_boundary`, claimed   *)
(* as `inserting`).  The message row that carries the request id is the    *)
(* commit marker: it is unique, and recovery goes by it.                   *)
(*                                                                         *)
(* The threads: the command and engine of each turn, the stop watchdog of  *)
(* each turn, and the user, who edits the queue at any moment.             *)
(***************************************************************************)
EXTENDS Integers, Sequences, SequencesExt, FiniteSets, SeqFilter

CONSTANTS
  Msg,        \* request ids
  Turn,       \* turn ids, each used by one send
  NoMsg,
  NoTurn,
  MaxRows,    \* MAX_QUEUED_TURN_MESSAGES_PER_SESSION
  Plain,      \* bound: turns that send something new; the others send queued messages
  Stopped,    \* bound: turns the user may stop
  Http,       \* bound: turns whose client may disconnect
  Faulty,     \* bound: turns for which a write to the database may fail
  Retries,    \* bound: how many messages are enqueued a second time
  MayRestart  \* TRUE: the program may stop and start again, once

ASSUME TurnQueueAssumption ==
  /\ NoMsg \notin Msg /\ NoTurn \notin Turn
  /\ MaxRows \in Nat \ {0}
  /\ Plain \subseteq Turn /\ Stopped \subseteq Turn /\ Http \subseteq Turn /\ Faulty \subseteq Turn /\ Retries \in Nat
  /\ MayRestart \in BOOLEAN

VARIABLES
  queue,     \* the request ids of queued_turn_user_messages, by id
  st,        \* status of each row
  owner,     \* turn_id of each row
  persisted, \* the request ids that appear in messages.queue_request_id
  turn,      \* chat_turns.status
  reg,       \* the session's entry of the active turn registry
  cancelled, \* the turns whose cancel flag is set
  pc,        \* the command, then the engine, of each turn
  from,      \* the queued message a turn was started from
  held,      \* rows claimed at a tool boundary, and the turn they were claimed for
  watch,     \* the stop watchdog of each turn
  handed,    \* history: how often a message was handed to a model
  sent,      \* history: enqueue calls for each message
  gone,      \* history: messages the user deleted or was told are rejected
  stale,     \* history: copies in a thread's hands older than an accepted edit
  began,     \* history: turns whose engine began
  abandoned, \* history: turns that end without giving back what they took:
             \* their client went away, or the write that gives it back failed
  forced,    \* history: turns the watchdog released
  booted     \* the program has restarted

rows    == <<queue, st, owner, persisted>>
threads == <<pc, from, held>>
history == <<handed, sent, gone, stale, began, abandoned, forced, booted>>
vars    == <<rows, turn, reg, cancelled, threads, watch, history>>

Starting == {"acquire", "preflight", "append", "create", "consume",
             "reconcile", "release"}
Running  == {"engine", "tools", "insert", "hook", "consumeInserted"}
Ending   == {"clear", "fallback", "drop"}

Editable == {"queued", "waiting", "fallback"}
Sendable == {"queued", "fallback"}

TypeOK ==
  /\ queue \in Seq(Msg) /\ IsInjective(queue)
  /\ st \in [Msg -> Editable \cup {"none", "inserting", "dispatching"}]
  /\ \A m \in Msg : (st[m] # "none") <=> (m \in ToSet(queue))
  /\ owner \in [Msg -> Turn \cup {NoTurn}]
  /\ persisted \subseteq Msg
  /\ turn \in [Turn -> {"none", "running", "over"}]
  /\ reg \in [turn : Turn \cup {NoTurn}, open : BOOLEAN]
  /\ cancelled \subseteq Turn
  /\ pc \in [Turn -> {"new", "start", "over"} \cup Starting \cup Running \cup Ending]
  /\ from \in [Turn -> Msg \cup {NoMsg}]
  /\ held \in [Turn -> [list : Seq(Msg), of : Turn \cup {NoTurn}]]
  /\ watch \in [Turn -> {"none", "armed", "release"}]
  /\ handed \in [Msg -> Nat] /\ sent \in [Msg -> 0 .. 2]
  /\ gone \subseteq Msg /\ stale \subseteq Turn \X Msg
  /\ began \subseteq Turn /\ abandoned \subseteq Turn /\ forced \subseteq Turn
  /\ booted \in BOOLEAN

NoEntry  == [turn |-> NoTurn, open |-> FALSE]
NothingHeld == [list |-> <<>>, of |-> NoTurn]

Init ==
  /\ queue = <<>> /\ st = [m \in Msg |-> "none"]
  /\ owner = [m \in Msg |-> NoTurn] /\ persisted = {}
  /\ turn = [t \in Turn |-> "none"] /\ reg = NoEntry /\ cancelled = {}
  /\ pc = [t \in Turn |-> "new"] /\ from = [t \in Turn |-> NoMsg]
  /\ held = [t \in Turn |-> NothingHeld]
  /\ watch = [t \in Turn |-> "none"]
  /\ handed = [m \in Msg |-> 0] /\ sent = [m \in Msg |-> 0]
  /\ gone = {} /\ stale = {} /\ began = {} /\ abandoned = {} /\ forced = {}
  /\ booted = FALSE

Goto(t, l) == pc' = [pc EXCEPT ![t] = l]

SetRow(m, s, t) ==
  /\ st' = [st EXCEPT ![m] = s] /\ owner' = [owner EXCEPT ![m] = t]
  /\ UNCHANGED <<queue, persisted>>

(* DELETE of the rows in ms, whatever their status.                        *)
DeleteRows(ms) ==
  /\ queue' = Without(queue, ms)
  /\ st' = [m \in Msg |-> IF m \in ms THEN "none" ELSE st[m]]
  /\ owner' = [m \in Msg |-> IF m \in ms THEN NoTurn ELSE owner[m]]
  /\ UNCHANGED persisted

(* The rows bound to turn t that are in one of the states ss.              *)
Bound(t, ss) == {m \in Msg : owner[m] = t /\ st[m] \in ss}

(* The write by which turn t gives back what it took fails.  Every caller  *)
(* ignores the error (`let _ =`): the rows stay as they are, and nobody is *)
(* left to try again.                                                      *)
GiveBackFails(t) ==
  /\ t \in Faulty /\ abandoned' = abandoned \cup {t}
  /\ UNCHANGED rows

(* What thread t holds a copy of: the message its turn was started from,   *)
(* until it is persisted, and the rows it claimed for insertion.           *)
Copies(t) ==
  (IF pc[t] \in {"acquire", "preflight", "append"} THEN {from[t]} \ {NoMsg} ELSE {})
  \cup ToSet(held[t].list)

-----------------------------------------------------------------------------
(* The user and the queue.                                                 *)

(* enqueue_turn_user_message.  A second call with the same request id, by  *)
(* a client that missed the answer, adds nothing while the row is there.   *)
Enqueue(m) ==
  /\ \/ sent[m] = 0
     \/ /\ sent[m] = 1 /\ m \notin gone
        /\ Cardinality({x \in Msg : sent[x] = 2}) < Retries
  /\ st[m] # "none" \/ Len(queue) < MaxRows
  /\ sent' = [sent EXCEPT ![m] = @ + 1]
  /\ IF st[m] # "none" THEN UNCHANGED rows
     ELSE /\ queue' = Append(queue, m)
          /\ st' = [st EXCEPT ![m] = "queued"]
          /\ UNCHANGED <<owner, persisted>>
  /\ UNCHANGED <<turn, reg, cancelled, threads, watch, handed, gone, stale,
                 began, abandoned, forced, booted>>

(* As Edit without the condition on the status.                            *)
EditAnyRow(m) ==
  /\ st[m] # "none"
  /\ \E t \in Turn : m \in Copies(t)
  /\ stale' = stale \cup {<<t, m>> : t \in {u \in Turn : m \in Copies(u)}}
  /\ UNCHANGED <<rows, turn, reg, cancelled, threads, watch, handed, sent,
                 gone, began, abandoned, forced, booted>>

(* update_queued_turn_user_message.  An edit of a row nobody has a copy of *)
(* changes nothing that matters here.                                      *)
Edit(m) ==
  /\ st[m] \in Editable
  /\ \E t \in Turn : m \in Copies(t)
  /\ stale' = stale \cup {<<t, m>> : t \in {u \in Turn : m \in Copies(u)}}
  /\ UNCHANGED <<rows, turn, reg, cancelled, threads, watch, handed, sent,
                 gone, began, abandoned, forced, booted>>

(* delete_queued_turn_user_message.                                        *)
Delete(m) ==
  /\ st[m] \in Editable
  /\ DeleteRows({m}) /\ gone' = gone \cup {m}
  /\ UNCHANGED <<turn, reg, cancelled, threads, watch, handed, sent, stale,
                 began, abandoned, forced, booted>>

(* As RequestInsertion with the gate left out.                             *)
RequestInsertionUngated(m, t) ==
  /\ reg.turn = t /\ t \notin cancelled
  /\ st[m] \in Sendable
  /\ SetRow(m, "waiting", t)
  /\ UNCHANGED <<turn, reg, cancelled, threads, watch, history>>

(* request_insertion: the update happens under the registry's lock, for    *)
(* the exact turn that is active, not cancelled and still accepting.       *)
RequestInsertion(m, t) ==
  /\ reg.turn = t /\ reg.open /\ t \notin cancelled
  /\ st[m] \in Sendable
  /\ SetRow(m, "waiting", t)
  /\ UNCHANGED <<turn, reg, cancelled, threads, watch, history>>

(* cancel_insertion.                                                       *)
CancelInsertion(m) ==
  /\ st[m] = "waiting"
  /\ SetRow(m, "queued", NoTurn)
  /\ UNCHANGED <<turn, reg, cancelled, threads, watch, history>>

(* stop_chat: the flag, the row's `cancelling` (not distinguished from     *)
(* running here) and the watchdog.                                         *)
Stop(t) ==
  /\ t \in Stopped /\ reg.turn = t /\ t \notin cancelled
  /\ cancelled' = cancelled \cup {t}
  /\ watch' = [watch EXCEPT ![t] = "armed"]
  /\ UNCHANGED <<rows, turn, reg, threads, history>>

-----------------------------------------------------------------------------
(* The command that runs a turn.                                           *)

(* A send of something new: nothing is taken from the queue.               *)
SendNew(t) ==
  /\ pc[t] = "new" /\ t \in Plain
  /\ Goto(t, "acquire")
  /\ UNCHANGED <<rows, turn, reg, cancelled, from, held, watch, history>>

(* claim_queued_turn_message_for_dispatch: only the oldest row that can be *)
(* sent.                                                                   *)
ClaimForDispatch(t, m) ==
  /\ pc[t] = "new" /\ t \notin Plain /\ st[m] \in Sendable
  /\ m = Head(Keep(queue, {x \in Msg : st[x] \in Sendable}))
  /\ SetRow(m, "dispatching", t)
  /\ from' = [from EXCEPT ![t] = m] /\ Goto(t, "acquire")
  /\ UNCHANGED <<turn, reg, cancelled, held, watch, history>>

(* Storing the session's workflow mode, between the claim and the          *)
(* acquisition, fails: the command returns the error and does not release  *)
(* the row it claimed.                                                     *)
FailWorkflowMode(t) ==
  /\ pc[t] = "acquire" /\ GiveBackFails(t)
  /\ Goto(t, "over")
  /\ UNCHANGED <<turn, reg, cancelled, from, held, watch, handed, sent, gone,
                 stale, began, forced, booted>>

(* active_turn::try_acquire.                                               *)
Acquire(t) ==
  /\ pc[t] = "acquire"
  /\ IF reg.turn = NoTurn
     THEN reg' = [turn |-> t, open |-> TRUE] /\ Goto(t, "preflight")
     ELSE /\ UNCHANGED reg
          /\ Goto(t, IF from[t] = NoMsg THEN "over" ELSE "release")
  /\ UNCHANGED <<rows, turn, cancelled, from, held, watch, history>>

(* release_queued_turn_message_dispatch.                                   *)
ReleaseDispatch(t) ==
  /\ pc[t] = "release"
  /\ \/ /\ IF from[t] \in Bound(t, {"dispatching"})
           THEN SetRow(from[t], "queued", NoTurn)
           ELSE UNCHANGED rows
        /\ UNCHANGED abandoned
     \/ GiveBackFails(t)
  /\ Goto(t, "drop")
  /\ UNCHANGED <<turn, reg, cancelled, from, held, watch, handed, sent, gone,
                 stale, began, forced, booted>>

(* The preflight hook blocks the prompt: remove_claimed_turn_message.      *)
BlockPrompt(t) ==
  /\ pc[t] = "preflight"
  /\ \/ DeleteRows({from[t]} \cap Msg) /\ UNCHANGED abandoned
     \/ from[t] # NoMsg /\ GiveBackFails(t)
  /\ gone' = gone \cup ({from[t]} \cap Msg)
  /\ Goto(t, "drop")
  /\ UNCHANGED <<turn, reg, cancelled, from, held, watch, handed, sent, stale,
                 began, forced, booted>>

(* The hook lets it pass; storing the attachments may fail.                *)
PassPrompt(t) ==
  /\ pc[t] = "preflight"
  /\ \/ Goto(t, "append")
     \/ t \in Faulty /\ from[t] # NoMsg /\ Goto(t, "release")
  /\ UNCHANGED <<rows, turn, reg, cancelled, from, held, watch, history>>

(* As AppendUser with no unique index on the request id.                   *)
AppendUserAgain(t) ==
  /\ pc[t] = "append"
  /\ persisted' = persisted \cup ({from[t]} \cap Msg) /\ Goto(t, "create")
  /\ UNCHANGED <<queue, st, owner, turn, reg, cancelled, from, held, watch, history>>

(* append_message: the request id is unique among the messages.            *)
AppendUser(t) ==
  /\ pc[t] = "append"
  /\ \/ /\ from[t] \notin persisted
        /\ persisted' = persisted \cup ({from[t]} \cap Msg)
        /\ Goto(t, "create")
     \/ /\ from[t] \in persisted \/ (t \in Faulty /\ from[t] # NoMsg)
        /\ UNCHANGED persisted /\ Goto(t, "reconcile")
  /\ UNCHANGED <<queue, st, owner, turn, reg, cancelled, from, held, watch, history>>

(* create_chat_turn_with_id.                                               *)
CreateTurn(t) ==
  /\ pc[t] = "create"
  /\ \/ /\ turn' = [turn EXCEPT ![t] = "running"]
        /\ Goto(t, IF from[t] = NoMsg THEN "start" ELSE "consume")
     \/ /\ t \in Faulty /\ UNCHANGED turn
        /\ Goto(t, IF from[t] = NoMsg THEN "drop" ELSE "reconcile")
  /\ UNCHANGED <<rows, reg, cancelled, from, held, watch, history>>

(* consume_dispatched_turn_message.                                        *)
ConsumeDispatched(t) ==
  /\ pc[t] = "consume"
  /\ \/ DeleteRows(Bound(t, {"dispatching"}) \cap {from[t]}) /\ Goto(t, "start")
     \/ t \in Faulty /\ UNCHANGED rows /\ Goto(t, "reconcile")
  /\ UNCHANGED <<turn, reg, cancelled, from, held, watch, history>>

(* reconcile_failed_turn_message_dispatch: the marker tells whether the    *)
(* message made it.                                                        *)
Reconcile(t) ==
  /\ pc[t] = "reconcile"
  /\ \/ /\ IF from[t] \in persisted THEN DeleteRows({from[t]})
           ELSE IF from[t] \in Bound(t, {"dispatching"})
           THEN SetRow(from[t], "queued", NoTurn)
           ELSE UNCHANGED rows
        /\ UNCHANGED abandoned
     \/ GiveBackFails(t)
  /\ Goto(t, "drop")
  /\ UNCHANGED <<turn, reg, cancelled, from, held, watch, handed, sent, gone,
                 stale, began, forced, booted>>

(* The engine starts: from here StreamLifecycle cleans up behind it.       *)
BeginEngine(t) ==
  /\ pc[t] = "start"
  /\ Goto(t, "engine")
  /\ handed' = [m \in Msg |-> handed[m] + (IF m = from[t] THEN 1 ELSE 0)]
  /\ began' = began \cup {t}
  /\ UNCHANGED <<rows, turn, reg, cancelled, from, held, watch, sent, gone,
                 stale, abandoned, forced, booted>>

(* No model, or another error before the engine's lifecycle begins: the    *)
(* turn is recorded as failed and its rows are not looked at.              *)
FailEarly(t) ==
  /\ pc[t] = "start"
  /\ turn' = [turn EXCEPT ![t] = "over"] /\ Goto(t, "drop")
  /\ UNCHANGED <<rows, reg, cancelled, from, held, watch, history>>

-----------------------------------------------------------------------------
(* The engine, at its tool boundaries and at its end.                      *)

(* A round with tools; a cancelled engine begins no other.                 *)
StartTools(t) ==
  /\ pc[t] = "engine" /\ t \notin cancelled
  /\ Goto(t, "tools")
  /\ UNCHANGED <<rows, turn, reg, cancelled, from, held, watch, history>>

(* drain_queued_turn_user_messages: the rows waiting for the turn that is  *)
(* active now are claimed, oldest first.  A claim that fails is one that   *)
(* found nothing.                                                          *)
Drain(t) ==
  /\ pc[t] = "tools"
  /\ LET u == reg.turn
         ms == IF u = NoTurn THEN {} ELSE Bound(u, {"waiting"})
     IN \/ /\ ms = {} \/ t \in Faulty
           /\ Goto(t, "engine") /\ UNCHANGED <<rows, held>>
        \/ /\ ms # {}
           /\ st' = [m \in Msg |-> IF m \in ms THEN "inserting" ELSE st[m]]
           /\ held' = [held EXCEPT ![t] = [list |-> Keep(queue, ms), of |-> u]]
           /\ Goto(t, "insert") /\ UNCHANGED <<queue, owner, persisted>>
  /\ UNCHANGED <<turn, reg, cancelled, from, watch, history>>

(* The loop over the claimed rows gives up when the turn is cancelled.     *)
NextInsert(t) ==
  /\ pc[t] = "insert"
  /\ IF held[t].list = <<>> \/ held[t].of \in cancelled
     THEN Goto(t, "engine") /\ held' = [held EXCEPT ![t] = NothingHeld]
     ELSE Goto(t, "hook") /\ UNCHANGED held
  /\ UNCHANGED <<rows, turn, reg, cancelled, from, watch, history>>

(* The row in hand is done with.                                           *)
InsertDone(t) ==
  /\ held' = [held EXCEPT ![t].list = Tail(@)] /\ Goto(t, "insert")

(* remove_claimed_turn_message: the hook blocks the message, or storing    *)
(* its attachments or the message itself fails.  When the removal fails    *)
(* too, the row is left for the end of the turn.                           *)
InsertRejected(t) ==
  /\ pc[t] = "hook"
  /\ LET m == Head(held[t].list) IN
     /\ DeleteRows({m}) \/ (t \in Faulty /\ UNCHANGED rows)
     /\ gone' = gone \cup ({m} \ persisted)
  /\ InsertDone(t)
  /\ UNCHANGED <<turn, reg, cancelled, from, watch, handed, sent, stale,
                 began, abandoned, forced, booted>>

(* complete_inserted_turn_message: the message, with its marker.           *)
InsertAppend(t) ==
  /\ pc[t] = "hook"
  /\ LET m == Head(held[t].list) IN
     /\ m \notin persisted /\ persisted' = persisted \cup {m}
     /\ handed' = [handed EXCEPT ![m] = @ + 1]
  /\ Goto(t, "consumeInserted")
  /\ UNCHANGED <<queue, st, owner, turn, reg, cancelled, from, held, watch,
                 sent, gone, stale, began, abandoned, forced, booted>>

(* remove_consumed_turn_message.  When it fails, and the reconciliation    *)
(* after it, the row is left for the end of the turn.                      *)
InsertConsume(t) ==
  /\ pc[t] = "consumeInserted"
  /\ \/ DeleteRows({Head(held[t].list)})
     \/ t \in Faulty /\ UNCHANGED rows
  /\ InsertDone(t)
  /\ UNCHANGED <<turn, reg, cancelled, from, watch, history>>

(* The turn is committed, as completed or interrupted.                     *)
FinishTurn(t) ==
  /\ pc[t] = "engine"
  /\ turn' = [turn EXCEPT ![t] = "over"] /\ Goto(t, "clear")
  /\ UNCHANGED <<rows, reg, cancelled, from, held, watch, history>>

(* clear_turn: the gate is closed first ...                                *)
CloseGate(t) ==
  /\ pc[t] = "clear"
  /\ reg' = [reg EXCEPT !.open = @ /\ reg.turn # t] /\ Goto(t, "fallback")
  /\ UNCHANGED <<rows, turn, cancelled, from, held, watch, history>>

(* ... then the rows bound to the turn fall back to a send after it.       *)
FallBack(t) ==
  /\ pc[t] = "fallback"
  /\ \/ LET ms == Bound(t, {"waiting", "inserting"}) IN
        /\ st' = [m \in Msg |-> IF m \in ms THEN "fallback" ELSE st[m]]
        /\ owner' = [m \in Msg |-> IF m \in ms THEN NoTurn ELSE owner[m]]
        /\ UNCHANGED <<queue, persisted, abandoned>>
     \/ GiveBackFails(t)
  /\ Goto(t, "drop")
  /\ UNCHANGED <<turn, reg, cancelled, from, held, watch, handed, sent, gone,
                 stale, began, forced, booted>>

(* As DropGuard, whoever holds the session.                                *)
DropAnyGuard(t) ==
  /\ pc[t] = "drop"
  /\ reg' = NoEntry /\ Goto(t, "over")
  /\ UNCHANGED <<rows, turn, cancelled, from, held, watch, history>>

(* The guard is dropped and releases its own entry only.                   *)
DropGuard(t) ==
  /\ pc[t] = "drop"
  /\ reg' = IF reg.turn = t THEN NoEntry ELSE reg
  /\ Goto(t, "over")
  /\ UNCHANGED <<rows, turn, cancelled, from, held, watch, history>>

-----------------------------------------------------------------------------
(* What cuts across.                                                       *)

(* The stop watchdog, its grace over: it closes a turn that is not over.   *)
WatchdogCloses(t) ==
  /\ watch[t] = "armed"
  /\ IF turn[t] = "running"
     THEN /\ turn' = [turn EXCEPT ![t] = "over"]
          /\ watch' = [watch EXCEPT ![t] = "release"]
     ELSE watch' = [watch EXCEPT ![t] = "none"] /\ UNCHANGED turn
  /\ UNCHANGED <<rows, reg, cancelled, threads, history>>

(* force_release, for that very turn.  The engine may still be running.    *)
WatchdogReleases(t) ==
  /\ watch[t] = "release"
  /\ watch' = [watch EXCEPT ![t] = "none"]
  /\ IF reg.turn = t
     THEN reg' = NoEntry /\ forced' = forced \cup {t}
     ELSE UNCHANGED <<reg, forced>>
  /\ UNCHANGED <<rows, turn, cancelled, threads, handed, sent, gone, stale,
                 began, abandoned, booted>>

(* The client disconnects while the command awaits: its future is dropped. *)
(* Nothing gives a claimed dispatch back; the engine's lifecycle does      *)
(* clean up.                                                               *)
Disconnect(t) ==
  /\ t \in Http
  /\ \/ /\ pc[t] \in {"acquire", "preflight", "release", "reconcile", "start"}
        /\ Goto(t, "drop") /\ abandoned' = abandoned \cup {t}
     \/ /\ pc[t] \in {"engine", "tools", "hook"}
        /\ Goto(t, "clear") /\ UNCHANGED abandoned
  /\ turn' = [turn EXCEPT ![t] = IF @ = "running" THEN "over" ELSE @]
  /\ held' = [held EXCEPT ![t] = NothingHeld]
  /\ UNCHANGED <<rows, reg, cancelled, from, watch, handed, sent, gone, stale,
                 began, forced, booted>>

(* The program stops and starts again, except for the rows ms: what they   *)
(* become is left to the caller.                                           *)
Boot ==
  /\ MayRestart /\ ~booted /\ booted' = TRUE
  /\ turn' = [t \in Turn |-> IF turn[t] = "running" THEN "over" ELSE turn[t]]
  /\ reg' = NoEntry /\ cancelled' = {}
  /\ pc' = [t \in Turn |-> IF pc[t] = "new" THEN "new" ELSE "over"]
  /\ held' = [t \in Turn |-> NothingHeld]
  /\ watch' = [t \in Turn |-> "none"] /\ abandoned' = {}
  /\ UNCHANGED <<from, persisted, handed, sent, gone, stale, began, forced>>

(* As Restart, which drops what was in flight.                             *)
RestartDropsInFlight ==
  /\ Boot
  /\ LET kept == {m \in Msg : st[m] \in Sendable \ persisted} IN
     /\ queue' = Keep(queue, kept)
     /\ st' = [m \in Msg |-> IF m \in kept THEN st[m] ELSE "none"]
     /\ owner' = [m \in Msg |-> NoTurn]

(* recover_turn_message_queue, when the database is opened: rows whose     *)
(* message was persisted are dropped, the others can be sent again.        *)
Restart ==
  /\ Boot
  /\ LET kept == ToSet(queue) \ persisted IN
     /\ queue' = Keep(queue, kept)
     /\ st' = [m \in Msg |->
          IF m \notin kept THEN "none"
          ELSE CASE st[m] \in {"waiting", "inserting"} -> "fallback"
                 [] st[m] = "dispatching" -> "queued"
                 [] OTHER -> st[m]]
     /\ owner' = [m \in Msg |-> NoTurn]

User ==
  \/ \E m \in Msg : Enqueue(m) \/ Edit(m) \/ Delete(m) \/ CancelInsertion(m)
  \/ \E m \in Msg, t \in Turn : RequestInsertion(m, t)
  \/ \E t \in Turn : Stop(t)

Command(t) ==
  \/ SendNew(t) \/ \E m \in Msg : ClaimForDispatch(t, m)
  \/ FailWorkflowMode(t) \/ Acquire(t)
  \/ ReleaseDispatch(t) \/ BlockPrompt(t) \/ PassPrompt(t)
  \/ AppendUser(t) \/ CreateTurn(t) \/ ConsumeDispatched(t) \/ Reconcile(t)
  \/ BeginEngine(t) \/ FailEarly(t) \/ DropGuard(t)

Engine(t) ==
  \/ StartTools(t) \/ Drain(t) \/ NextInsert(t) \/ InsertRejected(t)
  \/ InsertAppend(t) \/ InsertConsume(t) \/ FinishTurn(t) \/ CloseGate(t)
  \/ FallBack(t)

Next ==
  \/ User
  \/ \E t \in Turn : \/ Command(t) \/ Engine(t) \/ WatchdogCloses(t)
                     \/ WatchdogReleases(t) \/ Disconnect(t)
  \/ Restart

Spec == Init /\ [][Next]_vars

-----------------------------------------------------------------------------
(* Properties.                                                             *)

(* A message goes to a model at most once: retried enqueues, failed        *)
(* dispatches, insertions by an engine whose turn was released, and a      *)
(* restart between the message and the removal of its row included.        *)
AtMostOnce == \A m \in Msg : handed[m] <= 1

(* A message the queue accepted is in the queue or in the transcript,      *)
(* unless the user deleted it or was shown why it was rejected.            *)
NothingLost ==
  \A m \in Msg : sent[m] > 0 => m \in persisted \cup ToSet(queue) \cup gone

(* A row bound to a turn, waiting or being inserted, is not left behind by *)
(* an engine that began: the turn's clean-up, which makes the row sendable *)
(* again, is still ahead, unless it came and its write failed.             *)
BoundRowsFallBack ==
  \A t \in began : Bound(t, {"waiting", "inserting"}) # {} =>
    pc[t] \in Running \cup {"clear", "fallback"} \/ t \in abandoned

(* A row that is being dispatched has a command that will consume it or    *)
(* give it back, unless its client went away, the workflow mode could not  *)
(* be stored, or the write that gives the row back failed.                 *)
DispatchDriven ==
  \A t \in Turn : Bound(t, {"dispatching"}) # {} =>
    pc[t] \in Starting \/ t \in abandoned

(* A row that was taken for a turn is consumed or becomes sendable again,  *)
(* except by the turns in `abandoned`; and the next start leaves no row of *)
(* theirs behind either (Restart empties `abandoned`).                     *)
TakenRowsComeBack == TypeOK /\ BoundRowsFallBack /\ DispatchDriven

(* The same without exception, as the repository promises it: "otherwise   *)
(* release the row for a safe retry" (session/turn_queue.rs:700), and the  *)
(* rows left bound fall back when the turn ends                            *)
(* (docs/architecture/chat-engine.md:514).  The ignored errors and the     *)
(* workflow mode break it.                                                 *)
EveryTakenRowComesBack ==
  \A t \in Turn :
    /\ Bound(t, {"dispatching"}) # {} => pc[t] \in Starting
    /\ t \in began /\ Bound(t, {"waiting", "inserting"}) # {} =>
         pc[t] \in Running \cup {"clear", "fallback"}

(* What a thread is about to store is the message as the user last edited  *)
(* it, as long as no engine outlives the turn that the watchdog released.  *)
CopiesAreFresh ==
  forced = {} => \A p \in stale : p[2] \notin Copies(p[1])

(* Between taking the session and dropping the guard a turn is alone,      *)
(* except beside engines that the watchdog, or a restart, has written off. *)
OneTurnAtATime ==
  \A t, u \in Turn :
    {pc[t], pc[u]} \subseteq Running \cup {"append", "create", "start", "clear"}
    => t = u \/ t \in forced \/ u \in forced

(* The transcript has the queued messages in the order they were queued    *)
(* ("The queue guarantees FIFO within a session by its auto-increment id", *)
(* docs/architecture/chat-engine.md:503): none is persisted by a dispatch  *)
(* while an older one that nobody asked to insert is still in the queue.   *)
DispatchFifo ==
  [][\A m, o \in Msg :
       /\ m \in persisted' \ persisted
       /\ \E t \in Turn : from[t] = m /\ pc[t] = "append"
       /\ \E i, j \in DOMAIN queue : i < j /\ queue[i] = o /\ queue[j] = m
       => st[o] \notin {"queued", "dispatching"}]_vars
=============================================================================

------------------------------ MODULE Deliveries ------------------------------
(***************************************************************************)
(* What the delivery of finished background jobs promises to the parent    *)
(* session: a result is told in one turn of the parent, alone or merged    *)
(* with others of its session, and it is closed only after it was told,    *)
(* unless the session is gone.  It is told again in two cases only:        *)
(* a restart came before it was closed, or the replay after a restart      *)
(* found it unclosed while it was on its way - then once more.             *)
(***************************************************************************)
EXTENDS FiniteSets

CONSTANTS
  Job,        \* background jobs that have a parent session
  Session,    \* parent sessions
  SessionOf   \* the session of each job

VARIABLES
  result,     \* where the result of each job is
  again,      \* results the replay may tell although they were told
  present     \* sessions that exist

Init ==
  /\ result = [j \in Job |-> "working"]
  /\ again = {}
  /\ present = Session

(* The result of j exists, and the parent does not know it.                *)
Owe(j) ==
  /\ result[j] = "working"
  /\ result' = [result EXCEPT ![j] = "owed"]
  /\ UNCHANGED <<again, present>>

(* One turn of the parent tells it the results of J.                       *)
Tell(J) ==
  LET repeated == {j \in J : result[j] # "owed"}
  IN /\ J # {} /\ \A i, j \in J : SessionOf[i] = SessionOf[j]
     /\ \A j \in J : SessionOf[j] \in present /\ result[j] # "working"
     /\ repeated \subseteq again
     /\ result' = [j \in Job |->
          IF j \in J \ repeated THEN "told" ELSE result[j]]
     /\ again' = again \ repeated
     /\ UNCHANGED present

(* The row says that nothing remains to be done.                           *)
Close(j) ==
  /\ \/ result[j] = "told"
     \/ result[j] = "owed" /\ SessionOf[j] \notin present
  /\ result' = [result EXCEPT ![j] = "closed"]
  /\ UNCHANGED <<again, present>>

Leave(s) ==
  /\ present' = present \ {s}
  /\ UNCHANGED <<result, again>>

(* The rows of a session that left are deleted; work that did not begin    *)
(* has none.                                                               *)
Burn(s) ==
  /\ s \notin present
  /\ \E J \in SUBSET {j \in Job : SessionOf[j] = s} :
       /\ \A j \in Job \ J : SessionOf[j] = s => result[j] = "working"
       /\ result' = [j \in Job |-> IF j \in J THEN "closed" ELSE result[j]]
  /\ UNCHANGED <<again, present>>

(* The process dies: what was told is forgotten unless it was closed.      *)
Restart ==
  /\ result' = [j \in Job |-> IF result[j] = "told" THEN "owed" ELSE result[j]]
  /\ again' = {}
  /\ UNCHANGED present

(* The replay first ends the work the last process left, then lists what   *)
(* is not closed, on its way or not.                                       *)
Interrupt ==
  /\ \E J \in SUBSET {j \in Job : result[j] = "working"} :
       result' = [j \in Job |-> IF j \in J THEN "owed" ELSE result[j]]
  /\ UNCHANGED <<again, present>>

Relist ==
  /\ again' = {j \in Job : result[j] \in {"owed", "told"}}
  /\ UNCHANGED <<result, present>>

Next ==
  \/ \E j \in Job : Owe(j) \/ Close(j)
  \/ \E J \in SUBSET Job : Tell(J)
  \/ \E s \in Session : Leave(s) \/ Burn(s)
  \/ Restart \/ Interrupt \/ Relist

Spec == Init /\ [][Next]_<<result, again, present>>
================================================================================

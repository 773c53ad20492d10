----------------------------- MODULE MCCompletions ------------------------------
(* Completions with two jobs of one session.                               *)
EXTENDS Completions

CONSTANTS j1, j2, s1

OneSession == [j \in Job |-> s1]
================================================================================

----------------------------- MODULE MCTurnQueue -----------------------------
(* TurnQueue with small sets of messages and turns.                        *)
EXTENDS TurnQueue, TLC

(* Messages are alike; the turns are not, their bounds differ.             *)
Symmetric == Permutations(Msg)
=============================================================================

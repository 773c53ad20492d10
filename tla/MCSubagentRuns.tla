--------------------------- MODULE MCSubagentRuns ---------------------------
(***************************************************************************)
(* Instances of SubagentRuns for TLC: a batch of two children and a third  *)
(* run spawned beside it, one slot and one place in the queue.             *)
(***************************************************************************)
EXTENDS SubagentRuns

CONSTANTS a, b, d, c1
=============================================================================

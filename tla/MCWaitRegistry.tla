---------------------------- MODULE MCWaitRegistry -----------------------------
(* WaitRegistry with several calls that wait for one job.                  *)
EXTENDS WaitRegistry

CONSTANTS j1, w1, w2, w3

AwaitFirst == [w \in Waiter |-> j1]
================================================================================

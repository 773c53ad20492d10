-------------------------- MODULE MCAutoBackground --------------------------
(* One or two tool calls; calls do not interact.                           *)
EXTENDS AutoBackground

CONSTANTS c1, c2

MCCall1 == {c1}
MCCall2 == {c1, c2}
=============================================================================

-------------------------- MODULE MCBackgroundJobs --------------------------
(* Small instances of BackgroundJobs: four jobs of one session, or two of  *)
(* two sessions or one of them without a parent; one or two processes.     *)
EXTENDS BackgroundJobs

CONSTANTS j1, j2, j3, j4, s1, s2, p1, p2

MCJob4 == {j1, j2, j3, j4}
MCJob2 == {j1, j2}
MCSession == {s1, s2, NoSession}

MCSessionOf4 == [j \in {j1, j2, j3, j4} |-> s1]
MCSessionOf2 == [j \in {j1, j2} |-> IF j = j1 THEN s1 ELSE s2]
MCSessionOf2None == [j \in {j1, j2} |-> IF j = j1 THEN s1 ELSE NoSession]

MCProc1 == {p1}
MCProc2 == {p1, p2}
=============================================================================

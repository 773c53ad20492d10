-------------------------- MODULE MCParentInjection --------------------------
(* Small instances of ParentInjection: one or two sessions.                *)
EXTENDS ParentInjection

CONSTANTS i1, i2, i3, c1, c2, s1, s2

MCInj2 == {i1, i2}
MCInj3 == {i1, i2, i3}
MCChat1 == {c1}
MCChat2 == {c1, c2}
MCSession1 == {s1}
MCSession2 == {s1, s2}

MCInjSession2 == [i \in {i1, i2} |-> s1]
MCInjSession3 == [i \in {i1, i2, i3} |-> IF i = i3 THEN s2 ELSE s1]
MCChatSession1 == [c \in {c1} |-> s1]
MCChatSession2 == [c \in {c1, c2} |-> s1]
=============================================================================

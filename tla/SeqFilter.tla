------------------------------ MODULE SeqFilter ------------------------------
(***************************************************************************)
(* The rows of a queue that a condition selects, in their order: what      *)
(* `SELECT ... ORDER BY id`, `DELETE ... WHERE` and Vec::retain make of    *)
(* it.  SelectSeq as a recursive function over a set, so that what it      *)
(* returns can be proved.                                                  *)
(***************************************************************************)
EXTENDS Integers, Sequences

(* The elements of q that are in S.                                        *)
Keep(q, S) ==
  LET kept[n \in 0..Len(q)] ==
        IF n = 0 THEN <<>>
        ELSE IF q[n] \in S THEN Append(kept[n - 1], q[n]) ELSE kept[n - 1]
  IN kept[Len(q)]

(* The elements of q that are not in S.                                    *)
Without(q, S) == Keep(q, {q[n] : n \in DOMAIN q} \ S)
=============================================================================

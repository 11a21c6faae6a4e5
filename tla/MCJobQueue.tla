----------------------------- MODULE MCJobQueue -----------------------------
(* A small instance of JobQueue for TLC. *)
EXTENDS JobQueueRefines

CONSTANTS j1, j2, w1, w2

(* Both workers have the context of j1, and w1 alone that of j2. *)
OneLacksContext == [j \in {j1, j2} |-> IF j = j1 THEN {w1, w2} ELSE {w1}]
=============================================================================

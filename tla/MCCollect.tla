----------------------------- MODULE MCCollect ------------------------------
(* A small instance of Collect: the rows of a table come in pairs of equal  *)
(* cursor values.                                                          *)
EXTENDS Collect, TLC

CONSTANT N
MCItems == 1..N
MCStamp == [i \in 1..N |-> (i + 1) \div 2]

(* Workers are alike; used where only safety is checked. *)
Alike == Permutations(Workers)
=============================================================================

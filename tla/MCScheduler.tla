----------------------------- MODULE MCScheduler -----------------------------
(* A small instance of Scheduler for TLC. *)
EXTENDS Scheduler, TLC

CONSTANTS p1, p2, cron, cal, graph, coll

(* A cron with two triggers and reminders, further apart than any window, a *)
(* graph condition and a poll for mail.                                     *)
MCKind     == cron :> "cron" @@ cal :> "calendar" @@ graph :> "graph" @@ coll :> "collect"
MCTriggers == cron :> <<{2}, {5}>> @@ cal :> <<{3}>>
MCSpan     == graph :> 6 @@ coll :> 7

(* The clock of p2 is ahead. *)
P2Ahead == p1 :> 0 @@ p2 :> 1
=============================================================================

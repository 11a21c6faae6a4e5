----------------------------- MODULE JobPromise -----------------------------
(***************************************************************************)
(* What the durable queue promises of one job, to the handler that runs it: *)
(* it is claimed at most MaxAttempts times, by one executor at a time, it   *)
(* is retried as long as an attempt is left and nobody reported success,    *)
(* and once settled it is never touched again.  JobQueue implements this    *)
(* when its live workers are prompt; the automation executors rely on it.   *)
(***************************************************************************)
EXTENDS Naturals

CONSTANT MaxAttempts

ASSUME MaxAttemptsAssumption == MaxAttempts \in Nat \ {0}

VARIABLES
    phase,  \* where the job stands
    tries   \* how often it has been claimed

jobVars == <<phase, tries>>

Phases == {"absent", "open", "held", "done", "failed"}

Init == phase = "absent" /\ tries = 0

Submit == phase = "absent" /\ phase' = "open" /\ UNCHANGED tries

(* An executor takes the job. *)
Claim == phase = "open" /\ phase' = "held" /\ tries' = tries + 1

(* The executor reports success. *)
Settle == phase = "held" /\ phase' = "done" /\ UNCHANGED tries

(* Mutant: one attempt too many. *)
GiveBackTooOften ==
    /\ phase = "held"
    /\ phase' = IF tries > MaxAttempts THEN "failed" ELSE "open"
    /\ UNCHANGED tries

(* It reports an error, or it is presumed dead. *)
GiveBack ==
    /\ phase = "held"
    /\ phase' = IF tries >= MaxAttempts THEN "failed" ELSE "open"
    /\ UNCHANGED tries

Next == Submit \/ Claim \/ Settle \/ GiveBack

Spec == Init /\ [][Next]_jobVars
=============================================================================

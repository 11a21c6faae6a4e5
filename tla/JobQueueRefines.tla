--------------------------- MODULE JobQueueRefines ---------------------------
(***************************************************************************)
(* One row of the queue, seen through JobPromise.                           *)
(***************************************************************************)
EXTENDS JobQueue

CONSTANT Row
ASSUME RowAssumption == Row \in Jobs

phaseOf == [s \in Statuses |-> CASE s = "none" -> "absent"
                                 [] s = "pending" -> "open"
                                 [] s = "running" -> "held"
                                 [] OTHER -> s]

Promise == INSTANCE JobPromise
             WITH phase <- phaseOf[status[Row]], tries <- attempts[Row]

(* Every step of the workers, of the reconciler and of time is, for any one *)
(* row, a step the promise allows, as long as no live worker was late:      *)
(* nothing is claimed twice at a time, no settled row is touched, no        *)
(* attempt is spent without a claim.                                        *)
KeepsPromise == Promise!Init /\ [][~late => Promise!Next]_(Promise!jobVars)
=============================================================================

--------------------------- MODULE LinearExecutor ---------------------------
(***************************************************************************)
(* The linear executor of catalerum-automation: a list of actions, gated by *)
(* an optional condition, driven in order and journalled step by step.      *)
(***************************************************************************)
EXTENDS AutomationRun, Sequences

CONSTANT CondResults    \* what evaluating the condition may give

ASSUME LinearAssumption ==
    /\ IsFiniteSet(Slots) /\ Slots = 1..Cardinality(Slots)
    /\ Kind \in [Slots -> ActionKinds]
    /\ CondResults \subseteq {"pass", "off", "error"}

vars == runVars

(* The loop variables: the ordinal it is at, and whether the condition       *)
(* excluded the actions.                                                    *)
Loop  == [at : Nat, gated : BOOLEAN]
at    == local.at
gated == local.gated

LinearPcs == {"none", "load", "open", "gates", "ready", "walk", "step",
              "record", "finish", "ok", "err"}

InLoop == {"walk", "step", "record"}

TypeOK ==
    /\ RunTypeOK
    /\ pc \in LinearPcs
    /\ pc \in InLoop => local \in Loop /\ cur \in Runs

(* What the steps of the loop leave alone.                                  *)
LoopFrame == UNCHANGED <<adminVars, runStatus, runGrant, runError, cur, snap, jobVars>>

(* eval_condition, then the start of the loop.                              *)
EvalCondition ==
    /\ pc = "ready"
    /\ \E c \in CondResults :
        IF c = "error"
        THEN FailRun("condition") /\ UNCHANGED <<local, latch>>
        ELSE /\ pc' = "walk"
             /\ local' = [at |-> 1, gated |-> (c = "off")]
             /\ latch' = Redelivery
             /\ UNCHANGED failure
    /\ LoopFrame
    /\ UNCHANGED <<stored, step, outcome, seenVars>>

(* A step finished by an earlier drive: `continue`.                         *)
PassOver ==
    /\ pc = "walk" /\ at \in Slots
    /\ step[cur][at].status \in Finished
    /\ local' = [local EXCEPT !.at = @ + 1]
    /\ LoopFrame
    /\ UNCHANGED <<stored, step, pc, latch, outcome, failure, seenVars>>

(* Mutant: finished steps are not passed over.                              *)
OpenStepAgain ==
    /\ pc = "walk" /\ at \in Slots
    /\ OpenRow(at)
    /\ pc' \in {"step", "err"}
    /\ LoopFrame
    /\ UNCHANGED <<stored, latch, outcome, failure, local, seenVars>>

OpenStep ==
    /\ pc = "walk" /\ at \in Slots
    /\ step[cur][at].status \notin Finished
    /\ OpenRow(at)
    /\ pc' \in {"step", "err"}
    /\ LoopFrame
    /\ UNCHANGED <<stored, latch, outcome, failure, local, seenVars>>

Skipping(s) == gated \/ (latch /\ GatedOnRedelivery(s))

SkipStep ==
    /\ pc = "step"
    /\ Skipping(at)
    /\ CloseRow(at, [status |-> "skipped", out |-> "none"])
    /\ pc' \in {"walk", "err"}
    /\ local' = [local EXCEPT !.at = @ + 1]
    /\ LoopFrame
    /\ UNCHANGED <<stored, latch, outcome, failure, seenVars>>

(* The action runs, and may report that the item was already stored.        *)
RunStep ==
    /\ pc = "step"
    /\ ~Skipping(at)
    /\ Execute(at, ActionResults(at))
    /\ latch' = (latch \/ outcome'.out = "old")
    /\ pc' = "record"
    /\ LoopFrame
    /\ UNCHANGED <<step, failure, local>>

(* Mutant: the loop goes on after a failed action.                          *)
RecordStepGoesOn ==
    /\ pc = "record"
    /\ CloseRow(at, outcome)
    /\ local' = [local EXCEPT !.at = @ + 1]
    /\ pc' \in {"walk", "err"}
    /\ LoopFrame
    /\ UNCHANGED <<stored, latch, outcome, failure, seenVars>>

RecordStep ==
    /\ pc = "record"
    /\ CloseRow(at, outcome)
    /\ local' = [local EXCEPT !.at = @ + 1]
    /\ \/ pc' = "err" /\ UNCHANGED failure
       \/ IF outcome.status = "failed"
          THEN FailRun("action")
          ELSE pc' = "walk" /\ UNCHANGED failure
    /\ LoopFrame
    /\ UNCHANGED <<stored, latch, outcome, seenVars>>

EndOfActions ==
    /\ pc = "walk" /\ at \notin Slots
    /\ pc' = "finish"
    /\ LoopFrame
    /\ UNCHANGED <<stored, step, latch, outcome, failure, local, seenVars>>

LoopNext ==
    EvalCondition \/ PassOver \/ OpenStep \/ SkipStep \/ RunStep \/ RecordStep \/ EndOfActions

LinearNext == SharedNext \/ LoopNext

LinearSpec == RunInit /\ [][LinearNext]_vars

(* A drive that neither crashes nor loses its store goes on.                *)
FairLinearSpec == LinearSpec /\ SharedFairness /\ WF_vars(LoopNext)

-----------------------------------------------------------------------------
(* Actions run in order: one is executed only when every earlier step of    *)
(* the run is finished, over any number of crashes and resumes.             *)
InOrder == \A r \in Runs : \A s \in Slots : fired[r][s] > 0 =>
    \A q \in Slots : q < s => step[r][q].status \in Finished

(* The job is settled in the end, in spite of crashes and store errors.     *)
JobSettles == phase = "open" ~> phase \in {"done", "failed"}
=============================================================================

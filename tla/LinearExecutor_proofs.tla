------------------------ MODULE LinearExecutor_proofs ------------------------
(***************************************************************************)
(* Proofs about LinearExecutor, for any list of actions, any number of      *)
(* attempts, grants and crashes.                                            *)
(***************************************************************************)
EXTENDS LinearExecutor, AutomationRun_proofs

(* The variables of the loop have values when it needs them.                *)
LoopState ==
    /\ pc \in LinearPcs
    /\ pc \in InLoop => local \in Loop /\ local.at >= 1
    /\ pc \in {"step", "record"} => at \in Slots
    /\ pc = "record" => outcome.status \in {"succeeded", "failed"}

Typed == RunTyped /\ LoopState

LEMMA ActionSlots == Slots \subseteq Nat /\ Slots = 1..Cardinality(Slots) /\ Cardinality(Slots) \in Nat
  BY LinearAssumption, FS_CardinalityType

LEMMA TypedInit == RunInit => Typed
  BY RunTypedInit DEF RunInit, Typed, LoopState, LinearPcs, InLoop

LEMMA TypedShared ==
    ASSUME Typed, SharedNext
    PROVE  Typed'
  BY RunTypedShared, SharedEffect DEF Typed, LoopState, LinearPcs, InLoop, InBody, at

(* A step of the loop over the actions. *)
LEMMA TypedLoop ==
    ASSUME Typed, LoopNext
    PROVE  Typed'
<1> USE DEF Typed, RunTyped, RunDriving, Working, InBody
<1>1. CASE EvalCondition
  <2>1. PICK c \in CondResults :
          IF c = "error" THEN FailRun("condition") /\ UNCHANGED <<local, latch>>
          ELSE /\ pc' = "walk" /\ local' = [at |-> 1, gated |-> (c = "off")]
               /\ latch' = Redelivery /\ UNCHANGED failure
    BY <1>1 DEF EvalCondition
  <2>2. /\ latch' \in BOOLEAN /\ failure' \in Failures /\ pc' \in {"walk", "finish"}
        /\ pc' \in InLoop => local' \in Loop /\ local'.at >= 1
    <3>1. CASE c = "error"
      BY <2>1, <3>1 DEF FailRun, RunTypeOK, Failures, InLoop
    <3>2. CASE c # "error"
      <4>1. pc' = "walk" /\ local' = [at |-> 1, gated |-> (c = "off")] /\ failure' = failure
        BY <2>1, <3>2
      <4>2. latch' \in BOOLEAN
        BY <2>1, <3>2, DriveAssumption
      <4>3. (c = "off") \in BOOLEAN
        OBVIOUS
      <4>4. QED
        BY <4>1, <4>2, <4>3 DEF RunTypeOK, Loop, InLoop
    <3>3. QED
      BY <3>1, <3>2
  <2>3. cur \in Runs
    BY <1>1 DEF EvalCondition, LoopState
  <2>4. QED
    BY <1>1, <2>2, <2>3 DEF EvalCondition, LoopFrame, adminVars, seenVars, jobVars, RunTypeOK, LoopState, LinearPcs, InLoop
<1>2. CASE PassOver
  <2>1. local' \in Loop /\ local'.at >= 1
    BY <1>2 DEF PassOver, LoopState, InLoop, Loop
  <2>2. QED
    BY <1>2, <2>1 DEF PassOver, LoopFrame, adminVars, seenVars, jobVars, RunTypeOK, LoopState, LinearPcs, InLoop
<1>3. CASE OpenStep
  <2>1. cur \in Runs /\ at \in Slots
    BY <1>3 DEF OpenStep, LoopState
  <2>2. step' \in [Runs -> [Slots -> Rows]]
    BY <1>3, <2>1, OpenRowEffect DEF OpenStep
  <2>3. QED
    BY <1>3, <2>1, <2>2 DEF OpenStep, LoopFrame, adminVars, seenVars, jobVars, RunTypeOK, LoopState, LinearPcs, InLoop, Rows, at
<1>4. CASE SkipStep
  <2>1. cur \in Runs /\ at \in Slots
    BY <1>4 DEF SkipStep, LoopState
  <2>2. step' \in [Runs -> [Slots -> Rows]]
    <3>1. [status |-> "skipped", out |-> "none"] \in Rows
      BY DEF Rows, StepStatuses, Outs
    <3>2. QED
      BY <1>4, <2>1, <3>1, CloseRowEffect DEF SkipStep
  <2>3. local' \in Loop /\ local'.at >= 1
    BY <1>4 DEF SkipStep, LoopState, InLoop, Loop
  <2>4. QED
    BY <1>4, <2>1, <2>2, <2>3 DEF SkipStep, LoopFrame, adminVars, seenVars, jobVars, RunTypeOK, LoopState, LinearPcs, InLoop, Rows
<1>5. CASE RunStep
  <2>1. cur \in Runs /\ at \in Slots
    BY <1>5 DEF RunStep, LoopState
  <2>2. outcome' \in ActionResults(at) /\ Fire(at)
    BY <1>5 DEF RunStep, Execute
  <2>3. outcome' \in Rows /\ outcome'.status \in {"succeeded", "failed"}
    BY <2>2 DEF ActionResults, Failed, Rows, StepStatuses, Outs
  <2>4. stored' \in BOOLEAN
    BY <1>5 DEF RunStep, Execute, RunTypeOK
  <2>5. latch' \in BOOLEAN
    BY <1>5 DEF RunStep, RunTypeOK
  <2>6. fired' \in [Runs -> [Slots -> Nat]] /\ under' \subseteq Runs \X (Grants \cup {NoGrant})
    BY <2>1, <2>2, FireEffect
  <2>7. QED
    BY <1>5, <2>1, <2>2, <2>3, <2>4, <2>5, <2>6 DEF RunStep, Fire, LoopFrame, adminVars, jobVars, RunTypeOK, LoopState, LinearPcs, InLoop, Rows, at
<1>6. CASE RecordStep
  <2>1. cur \in Runs /\ at \in Slots /\ outcome \in Rows
    BY <1>6 DEF RecordStep, LoopState, RunTypeOK, Rows
  <2>2. step' \in [Runs -> [Slots -> Rows]]
    BY <1>6, <2>1, CloseRowEffect DEF RecordStep
  <2>3. local' \in Loop /\ local'.at >= 1
    BY <1>6 DEF RecordStep, LoopState, InLoop, Loop
  <2>4. pc' \in {"err", "finish", "walk"} /\ failure' \in Failures
    BY <1>6 DEF RecordStep, FailRun, RunTypeOK, Failures
  <2>5. QED
    BY <1>6, <2>1, <2>2, <2>3, <2>4 DEF RecordStep, LoopFrame, adminVars, seenVars, jobVars, RunTypeOK, LoopState, LinearPcs, InLoop, Rows
<1>7. CASE EndOfActions
  BY <1>7 DEF EndOfActions, LoopFrame, adminVars, seenVars, jobVars, RunTypeOK, LoopState, LinearPcs, InLoop
<1>8. QED
  BY <1>1, <1>2, <1>3, <1>4, <1>5, <1>6, <1>7 DEF LoopNext

LEMMA TypedNext == Typed /\ [LinearNext]_vars => Typed'
<1>1. ASSUME Typed, UNCHANGED vars PROVE Typed'
  BY <1>1, RunTypedStutter DEF vars, runVars, driveVars, Typed, LoopState, at
<1>2. QED
  BY <1>1, TypedShared, TypedLoop DEF LinearNext

(* Every reachable state is well typed: a drive has a run, an ordinal and   *)
(* an outcome where it uses them, and no run is driven more often than the  *)
(* job was claimed.                                                         *)
THEOREM LinearTypes == LinearSpec => []TypeOK
<1>1. Typed => TypeOK
  BY DEF Typed, LoopState, RunTyped, RunDriving, TypeOK, Working, InBody, InLoop
<1>2. QED
  BY TypedInit, TypedNext, <1>1, PTL DEF LinearSpec

-----------------------------------------------------------------------------
(* Where the loop is, every earlier step of the run is finished and the     *)
(* present one is not; what was executed had its predecessors finished.     *)
Ordered ==
    /\ pc \in InLoop => \A q \in Slots : q < at => step[cur][q].status \in Finished
    /\ pc \in {"step", "record"} => step[cur][at].status \notin Finished
    /\ InOrder

LEMMA LoopEffect ==
    ASSUME Typed, Ordered, LoopNext
    PROVE  OneRow(at)
<1>1. CASE EvalCondition \/ PassOver \/ EndOfActions
  BY <1>1 DEF EvalCondition, PassOver, EndOfActions, seenVars, OneRow
<1>2. CASE OpenStep
  <2>1. cur \in Runs /\ at \in Slots /\ fired' = fired /\ OpenRow(at)
    BY <1>2 DEF OpenStep, Typed, LoopState, RunTyped, RunDriving, Working, InBody, seenVars
  <2>2. QED
    BY <2>1, OpenRowEffect DEF Typed, RunTyped, OneRow, Finished
<1>3. CASE SkipStep
  <2>1. cur \in Runs /\ at \in Slots /\ fired' = fired /\ step[cur][at].status \notin Finished
    BY <1>3 DEF SkipStep, Typed, LoopState, RunTyped, RunDriving, Working, InBody, Ordered, seenVars
  <2>2. [status |-> "skipped", out |-> "none"] \in Rows
    BY DEF Rows, StepStatuses, Outs
  <2>3. QED
    BY <1>3, <2>1, <2>2, CloseRowEffect DEF SkipStep, Typed, RunTyped, OneRow
<1>4. CASE RunStep
  <2>1. /\ pc = "step" /\ pc' = "record" /\ cur \in Runs /\ at \in Slots /\ step' = step /\ Fire(at)
        /\ step[cur][at].status \notin Finished
    BY <1>4 DEF RunStep, Execute, Typed, LoopState, RunTyped, RunDriving, Working, InBody, Ordered
  <2>2. QED
    BY <2>1, FireEffect DEF Typed, RunTyped, OneRow
<1>5. CASE RecordStep
  <2>1. /\ cur \in Runs /\ at \in Slots /\ outcome \in Rows /\ fired' = fired
        /\ step[cur][at].status \notin Finished
    BY <1>5 DEF RecordStep, Typed, LoopState, RunTyped, RunDriving, Working, InBody, RunTypeOK, Rows, Ordered, seenVars
  <2>2. QED
    BY <1>5, <2>1, CloseRowEffect DEF RecordStep, Typed, RunTyped, OneRow
<1>6. QED
  BY <1>1, <1>2, <1>3, <1>4, <1>5 DEF LoopNext

(* The loop keeps its order. *)
LEMMA OrderedNext ==
    ASSUME Typed, Ordered, [LinearNext]_vars
    PROVE  Ordered'
<1>1. CASE SharedNext \/ UNCHANGED vars
  <2>1. UNCHANGED <<step, fired>> /\ (pc' \in InLoop => UNCHANGED <<pc, cur, local>>)
    BY <1>1, SharedEffect DEF vars, runVars, journalVars, seenVars, driveVars, InLoop, InBody
  <2>2. QED
    BY <2>1 DEF Ordered, InOrder, InLoop, at
<1>2. ASSUME LoopNext
      PROVE  InOrder'
  <2>1. OneRow(at)
    BY <1>2, LoopEffect
  <2>2. ASSUME NEW r \in Runs, NEW s \in Slots, fired'[r][s] > 0, NEW q \in Slots, q < s
        PROVE  step'[r][q].status \in Finished
    <3>1. step[r][q].status \in Finished
      <4>1. CASE fired'[r][s] = fired[r][s]
        BY <2>2, <4>1 DEF Ordered, InOrder
      <4>2. CASE fired'[r][s] # fired[r][s]
        BY <2>1, <2>2, <4>2 DEF OneRow, Ordered, InLoop
      <4>3. QED
        BY <4>1, <4>2
    <3>2. QED
      BY <2>1, <3>1 DEF OneRow
  <2>3. QED
    BY <2>2 DEF InOrder
<1>3. CASE EvalCondition
  <2>1. pc' \in InLoop => pc' = "walk" /\ local'.at = 1
    BY <1>3 DEF EvalCondition, FailRun, InLoop
  <2>2. pc' \in InLoop => \A q \in Slots : ~(q < at')
    BY <2>1, ActionSlots DEF at
  <2>3. InOrder'
    BY <1>2, <1>3 DEF LoopNext
  <2>4. QED
    BY <2>1, <2>2, <2>3 DEF Ordered, InLoop
<1>4. CASE PassOver
  <2>1. pc' = "walk" /\ cur' = cur /\ step' = step /\ local.at \in Nat /\ local'.at = local.at + 1
    BY <1>4 DEF PassOver, LoopFrame, Typed, LoopState, RunTyped, RunDriving, Working, InBody, InLoop, Loop
  <2>2. step[cur][at].status \in Finished /\ \A q \in Slots : q < at => step[cur][q].status \in Finished
    BY <1>4 DEF PassOver, Ordered, InLoop
  <2>3. \A q \in Slots : q < at' => step'[cur'][q].status \in Finished
    BY <2>1, <2>2, ActionSlots DEF at
  <2>4. QED
    BY <1>2, <1>4, <2>1, <2>3 DEF LoopNext, Ordered
<1>5. CASE OpenStep
  <2>1. /\ pc' \in {"step", "err"} /\ cur' = cur /\ at' = at /\ cur \in Runs /\ at \in Slots
        /\ OpenRow(at) /\ step[cur][at].status \notin Finished
        /\ \A q \in Slots : q < at => step[cur][q].status \in Finished
    BY <1>5 DEF OpenStep, LoopFrame, Typed, LoopState, RunTyped, RunDriving, Working, InBody, Ordered, InLoop, at
  <2>2. /\ \A r \in Runs, q \in Slots : step'[r][q] # step[r][q] => step[r][q].status = "none"
        /\ step'[cur][at].status \notin Finished
    BY <2>1, OpenRowEffect DEF Typed, RunTyped, Finished
  <2>3. \A q \in Slots : q < at' => step'[cur'][q].status \in Finished
    BY <2>1, <2>2 DEF Finished
  <2>4. QED
    BY <1>2, <1>5, <2>1, <2>2, <2>3 DEF LoopNext, Ordered
<1>6. ASSUME NEW e \in Rows, CloseRow(at, e), cur' = cur, local'.at = local.at + 1,
             cur \in Runs, at \in Slots, pc \in InLoop, pc' \notin {"step", "record"},
             pc' \in InLoop => e.status \in Finished, InOrder'
      PROVE  Ordered'
  <2>1. \A q \in Slots : q < at => step[cur][q].status \in Finished
    BY <1>6 DEF Ordered
  <2>2. \A q \in Slots : step'[cur][q] = IF q = at THEN e ELSE step[cur][q]
    BY <1>6, CloseRowEffect DEF Typed, RunTyped
  <2>3. pc' \in InLoop => \A q \in Slots : q < at' => step'[cur'][q].status \in Finished
    BY <1>6, <2>1, <2>2, ActionSlots DEF at
  <2>4. QED
    BY <1>6, <2>3 DEF Ordered
<1>7. CASE SkipStep
  <2>1. [status |-> "skipped", out |-> "none"] \in Rows
    BY DEF Rows, StepStatuses, Outs
  <2>2. local'.at = local.at + 1
    BY <1>7 DEF SkipStep, Typed, LoopState, RunTyped, RunDriving, Working, InBody, InLoop, Loop
  <2>3. QED
    BY <1>2, <1>6, <1>7, <2>1, <2>2 DEF LoopNext, SkipStep, LoopFrame, Typed, LoopState, RunTyped, RunDriving, Working, InBody, InLoop, Finished
<1>8. CASE RunStep
  <2>1. /\ pc = "step" /\ pc' = "record" /\ cur' = cur /\ at' = at /\ step' = step
    BY <1>8 DEF RunStep, LoopFrame, at
  <2>2. QED
    BY <1>2, <1>8, <2>1 DEF LoopNext, Ordered, InLoop
<1>9. CASE RecordStep
  <2>1. outcome \in Rows /\ outcome.status \in {"succeeded", "failed"}
    BY <1>9 DEF RecordStep, Typed, RunTypeOK, LoopState, RunTyped, RunDriving, Rows
  <2>2. local'.at = local.at + 1
    BY <1>9 DEF RecordStep, Typed, LoopState, RunTyped, RunDriving, Working, InBody, InLoop, Loop
  <2>3. pc' \in {"err", "finish", "walk"} /\ (pc' = "walk" => outcome.status = "succeeded")
    BY <1>9, <2>1 DEF RecordStep, FailRun
  <2>4. QED
    BY <1>2, <1>6, <1>9, <2>1, <2>2, <2>3 DEF LoopNext, RecordStep, LoopFrame, Typed, LoopState, RunTyped, RunDriving, Working, InBody, InLoop, Finished
<1>10. CASE EndOfActions
  BY <1>2, <1>10 DEF LoopNext, EndOfActions, Ordered, InLoop
<1>11. QED
  BY <1>1, <1>3, <1>4, <1>5, <1>7, <1>8, <1>9, <1>10 DEF LinearNext, LoopNext

LinearInv == RunInv /\ Typed /\ Ordered

(* A step of the loop is a step of work on the present slot. *)
LEMMA LinearWork ==
    ASSUME LinearInv, LoopNext
    PROVE  Work(at)
<1> USE DEF LinearInv
<1>1. OneRow(at)
  BY LoopEffect
<1>2. UNCHANGED <<runStatus, runGrant, cur, drives, phase, tries>>
  BY DEF LoopNext, EvalCondition, PassOver, OpenStep, SkipStep, RunStep, RecordStep, EndOfActions,
         LoopFrame, Execute, Fire, seenVars, jobVars
<1>3. under' \subseteq under \cup {<<cur, runGrant[cur]>>}
  BY DEF LoopNext, EvalCondition, PassOver, OpenStep, SkipStep, RunStep, RecordStep, EndOfActions,
         Execute, Fire, Authority, seenVars
<1>4. pc \in InBody \cup {"ready"} /\ pc' \in InBody \cup {"finish", "err"}
  BY DEF LoopNext, EvalCondition, PassOver, OpenStep, SkipStep, RunStep, RecordStep, EndOfActions,
         FailRun, InBody
<1>5. ASSUME pc' = "finish", failure' = "none"
      PROVE  \A q \in Slots : step'[cur][q].status \in Finished \cup {"none"}
  <2>1. EndOfActions
    BY <1>5 DEF LoopNext, EvalCondition, PassOver, OpenStep, SkipStep, RunStep, RecordStep, FailRun
  <2>2. pc = "walk" /\ at \notin Slots /\ step' = step /\ at \in Nat /\ at >= 1
    BY <2>1 DEF EndOfActions, Typed, LoopState, InLoop, Loop, at
  <2>3. \A s \in Slots : s < at
    BY <2>2, ActionSlots
  <2>4. QED
    BY <2>2, <2>3 DEF Ordered, InLoop
<1>6. ASSUME pc' \in {"walk", "step"}, pc \notin {"ready", "walk", "step"}
      PROVE  Pending(fired[cur], step[cur]) \subseteq {at} /\ step'[cur][at].status \in Finished
  <2>1. RecordStep /\ pc = "record" /\ pc' = "walk"
    BY <1>6 DEF LoopNext, EvalCondition, PassOver, OpenStep, SkipStep, RunStep, RecordStep, EndOfActions, FailRun
  <2>2. cur \in Runs /\ at \in Slots /\ outcome \in Rows /\ outcome.status = "succeeded"
    BY <2>1 DEF RecordStep, FailRun, Typed, LoopState, RunTyped, RunDriving, RunTypeOK, Working, InBody, Rows
  <2>3. step'[cur][at].status \in Finished
    BY <2>1, <2>2, CloseRowEffect DEF RecordStep, Typed, RunTyped, Finished
  <2>4. ASSUME NEW s \in Slots, fired[cur][s] > 0, step[cur][s].status \notin Finished
        PROVE  s = at
    <3>1. ~(s < at)
      BY <2>1, <2>4 DEF Ordered, InLoop
    <3>2. ~(at < s)
      BY <2>1, <2>2, <2>4 DEF Ordered, InOrder
    <3>3. QED
      BY <2>2, <3>1, <3>2, ActionSlots
  <2>5. QED
    BY <2>3, <2>4 DEF Pending
<1>7. QED
  BY <1>1, <1>2, <1>3, <1>4, <1>5, <1>6 DEF Work

LEMMA LinearInit == RunInit => LinearInv
<1>1. RunInit => Ordered
  BY DEF RunInit, Ordered, InOrder, InLoop
<1>2. QED
  BY <1>1, TypedInit, RunInvInit DEF LinearInv

LEMMA LinearInvNext == LinearInv /\ [LinearNext]_vars => LinearInv'
<1> SUFFICES ASSUME LinearInv, [LinearNext]_vars PROVE LinearInv'
  OBVIOUS
<1>1. Typed' /\ Ordered'
  BY TypedNext, OrderedNext DEF LinearInv
<1>2. CASE LoopNext
  BY <1>1, <1>2, LinearWork, RunInvWork DEF LinearInv, Typed, RunTyped
<1>3. CASE ~LoopNext
  BY <1>1, <1>3, RunInvShared DEF LinearInv, LinearNext, vars
<1>4. QED
  BY <1>2, <1>3

(* An action is executed only when every earlier step of its run is         *)
(* finished, over any number of crashes and resumes.                        *)
THEOREM LinearKeepsOrder == LinearSpec => []InOrder
<1>1. LinearInv => InOrder
  BY DEF LinearInv, Ordered
<1>2. QED
  BY LinearInit, LinearInvNext, <1>1, PTL DEF LinearSpec

(* A run is recorded as succeeded only when all the steps it recorded are   *)
(* finished, whichever drives recorded them.                                *)
THEOREM LinearSuccessIsComplete == LinearSpec => []SuccessIsComplete
<1>1. LinearInv => SuccessIsComplete
  BY DEF LinearInv, RunInv, RunRecorded
<1>2. QED
  BY LinearInit, LinearInvNext, <1>1, PTL DEF LinearSpec

(* A run acts under the grant it recorded when it was opened, however often *)
(* the automation is re-pointed between its drives.                         *)
THEOREM LinearRecordedAuthority == LinearSpec => []RecordedAuthority
<1>1. LinearInv => RecordedAuthority
  BY DEF LinearInv, RunInv, RunRecorded
<1>2. QED
  BY LinearInit, LinearInvNext, <1>1, PTL DEF LinearSpec

(* A resume repeats at most one action: however often a run is driven, over *)
(* crashes, store errors and lost reports, its executions beyond the first  *)
(* of each step number less than its drives.                                *)
THEOREM LinearOneDuplicate == LinearSpec => []OneDuplicatePerResume
<1>1. LinearInv => OneDuplicatePerResume
  BY DEF LinearInv, RunInv, RunRepeats
<1>2. QED
  BY LinearInit, LinearInvNext, <1>1, PTL DEF LinearSpec

(* A step recorded as succeeded or skipped is never executed again in its   *)
(* run, and its record stands, over any number of crashes and resumes.      *)
THEOREM LinearStepsStand == LinearSpec => FinishedStepsStand
<1>1. ASSUME LinearInv, [LinearNext]_vars
      PROVE  [\A r \in Runs, s \in Slots : step[r][s].status \in Finished =>
                 fired'[r][s] = fired[r][s] /\ step'[r][s] = step[r][s]]_runVars
  <2>1. CASE LoopNext
    BY <1>1, <2>1, LoopEffect DEF LinearInv, OneRow
  <2>2. CASE SharedNext
    BY <1>1, <2>2, SharedEffect DEF LinearInv
  <2>3. QED
    BY <1>1, <2>1, <2>2 DEF LinearNext, vars
<1>2. QED
  BY LinearInit, LinearInvNext, <1>1, PTL DEF LinearSpec, FinishedStepsStand
=============================================================================

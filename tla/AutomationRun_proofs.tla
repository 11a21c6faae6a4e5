------------------------- MODULE AutomationRun_proofs -------------------------
(***************************************************************************)
(* Lemmas about the part of a drive that the linear and the graph executor  *)
(* share, for any slots, grants and number of attempts.  Their own proofs   *)
(* extend this module: each shows that a step of its loop is a Work step.   *)
(***************************************************************************)
EXTENDS AutomationRun, FiniteSetTheorems, TLAPS

Rows == [status : StepStatuses, out : Outs]

(* Where a drive is in its executor's loop, and where it has a run.         *)
InBody  == {"walk", "step", "record", "loopfail"}
Working == InBody \cup {"gates", "ready", "finish"}

(* The queue counts the drives, and a drive that works has a run.           *)
RunDriving ==
    /\ pc # "none" => phase = "held" /\ tries \in Runs
    /\ phase \in {"absent", "open"} => tries < MaxAttempts
    /\ pc \in Working => cur \in Runs
    /\ \A r \in Runs : /\ drives[r] <= tries
                       /\ pc \in {"load", "open"} => drives[r] < tries

RunTyped == RunTypeOK /\ RunDriving

LEMMA Attempts ==
    /\ MaxAttempts \in Nat /\ MaxAttempts > 0 /\ Runs = 1..MaxAttempts
    /\ \A r \in Runs : r \in Nat /\ r > 0
  BY MaxAttemptsAssumption DEF Runs

LEMMA EntryTyped ==
    ASSUME NEW S, NEW f \in [Runs -> [Slots -> S]], NEW r \in Runs, NEW s \in Slots, NEW e \in S
    PROVE  /\ [f EXCEPT ![r][s] = e] \in [Runs -> [Slots -> S]]
           /\ \A q \in Runs, t \in Slots :
                 [f EXCEPT ![r][s] = e][q][t] = IF q = r /\ t = s THEN e ELSE f[q][t]
  OBVIOUS

(* The effect of a step of the drive on the journal, entry by entry. *)
LEMMA OpenRowEffect ==
    ASSUME RunTypeOK, cur \in Runs, NEW s \in Slots, OpenRow(s)
    PROVE  /\ step' \in [Runs -> [Slots -> Rows]]
           /\ \A r \in Runs, q \in Slots : step'[r][q] # step[r][q] =>
                 /\ r = cur /\ q = s /\ step[r][q].status = "none"
                 /\ step'[r][q].status = "running" /\ step'[r][q].out = step[r][q].out
           /\ step'[cur][s].status # "none"
           /\ step[cur][s].status # "none" => step' = step
<1> DEFINE e == [step[cur][s] EXCEPT !.status = "running"]
<1>1. step \in [Runs -> [Slots -> Rows]]
  BY DEF RunTypeOK, Rows
<1>2. e \in Rows /\ e.status = "running" /\ e.out = step[cur][s].out
  <2>1. step[cur][s] \in Rows
    BY <1>1
  <2>2. QED
    BY <2>1 DEF Rows, StepStatuses
<1>3. CASE step[cur][s].status = "none"
  <2>1. step' = [step EXCEPT ![cur][s] = e]
    BY <1>1, <1>3 DEF OpenRow
  <2>2. QED
    BY <1>1, <1>2, <1>3, <2>1, EntryTyped
<1>4. CASE step[cur][s].status # "none"
  BY <1>1, <1>4 DEF OpenRow
<1>5. QED
  BY <1>3, <1>4

LEMMA CloseRowEffect ==
    ASSUME RunTypeOK, cur \in Runs, NEW s \in Slots, NEW e \in Rows, CloseRow(s, e)
    PROVE  /\ step' \in [Runs -> [Slots -> Rows]]
           /\ \A r \in Runs, q \in Slots : step'[r][q] = IF r = cur /\ q = s THEN e ELSE step[r][q]
<1>1. step \in [Runs -> [Slots -> Rows]]
  BY DEF RunTypeOK, Rows
<1>2. QED
  BY <1>1, EntryTyped DEF CloseRow

LEMMA FireEffect ==
    ASSUME RunTypeOK, cur \in Runs, NEW s \in Slots, Fire(s)
    PROVE  /\ fired' \in [Runs -> [Slots -> Nat]]
           /\ \A r \in Runs, q \in Slots :
                 fired'[r][q] = IF r = cur /\ q = s THEN fired[r][q] + 1 ELSE fired[r][q]
           /\ under' \subseteq Runs \X (Grants \cup {NoGrant})
<1>1. fired \in [Runs -> [Slots -> Nat]] /\ fired[cur][s] + 1 \in Nat
  BY DEF RunTypeOK
<1>2. fired' = [fired EXCEPT ![cur][s] = fired[cur][s] + 1]
  BY <1>1 DEF Fire
<1>3. runGrant[cur] \in Grants \cup {NoGrant} /\ under \subseteq Runs \X (Grants \cup {NoGrant})
  BY DEF RunTypeOK
<1>4. under' \subseteq Runs \X (Grants \cup {NoGrant})
  BY <1>3 DEF Fire, Authority
<1>5. QED
  BY <1>1, <1>2, <1>4, EntryTyped

(* What an executed action returns is a row to record. *)
LEMMA ResultTyped ==
    ASSUME NEW s, NEW e \in ActionResults(s)
    PROVE  /\ e \in Rows /\ e.status \in {"succeeded", "failed"}
           /\ e.status = "failed" => e.out = "none"
           /\ e.out \in {"none", "old", "new"}
  BY DEF ActionResults, Failed, Rows, StepStatuses, Outs

LEMMA RowsGiven ==
    /\ NoStep \in Rows /\ Failed \in Rows
    /\ [status |-> "skipped", out |-> "none"] \in Rows
    /\ [status |-> "succeeded", out |-> "none"] \in Rows
  BY DEF NoStep, Failed, Rows, StepStatuses, Outs

-----------------------------------------------------------------------------
(* The types, and the counting of the drives. *)
LEMMA RunTypedInit == RunInit => RunTyped
<1> SUFFICES ASSUME RunInit PROVE RunTyped
  OBVIOUS
<1>1. RunTypeOK
  <2>1. step \in [Runs -> [Slots -> Rows]] /\ outcome \in Rows
    BY RowsGiven DEF RunInit
  <2>2. fired \in [Runs -> [Slots -> Nat]] /\ drives \in [Runs -> 0..MaxAttempts]
    BY Attempts DEF RunInit
  <2>3. /\ runStatus \in [Runs -> {"none", "running", "succeeded", "failed"}]
        /\ runGrant \in [Runs -> Grants \cup {NoGrant}]
        /\ runError \in [Runs -> Failures]
    BY DEF RunInit, Failures
  <2>4. phase \in Phases /\ tries \in 0..MaxAttempts
    BY Attempts DEF RunInit, Init, Phases
  <2>5. QED
    BY <2>1, <2>2, <2>3, <2>4, DriveAssumption DEF RunInit, RunTypeOK, Rows, Failures
<1>2. pc = "none" /\ phase = "absent" /\ tries = 0 /\ \A r \in Runs : drives[r] = 0
  BY DEF RunInit, Init
<1>3. QED
  BY <1>1, <1>2, Attempts DEF RunTyped, RunDriving, Working, InBody

(* A step of the queue, of the administrator or of a store that fails. *)
LEMMA RunTypedShared ==
    ASSUME RunTyped, SharedNext
    PROVE  RunTyped'
<1> USE DEF RunTyped, Working, InBody
<1>1. CASE Administer
  <2>1. /\ enabled' \in BOOLEAN
        /\ autoGrant' \in Grants \cup {NoGrant} /\ liveGrants' \subseteq Grants
    BY <1>1 DEF Administer, Toggle, Regrant, DeleteGrant, RunTypeOK
  <2>2. UNCHANGED <<stored, journalVars, driveVars, seenVars, jobVars>>
    BY <1>1 DEF Administer
  <2>3. QED
    BY <2>1, <2>2 DEF RunTypeOK, RunDriving, journalVars, driveVars, seenVars, jobVars
<1>2. CASE Enqueue
  BY <1>2, Attempts DEF Enqueue, Submit, adminVars, journalVars, driveVars, seenVars, RunTypeOK, RunDriving, Phases
<1>3. CASE StartDrive
  BY <1>3, Attempts, SMTT(30) DEF StartDrive, Claim, adminVars, journalVars, seenVars, RunTypeOK, RunDriving, Phases
<1>4. ASSUME EndDrive, Settle \/ GiveBack \/ UNCHANGED jobVars
      PROVE  RunTyped'
  <2>1. phase' \in Phases /\ tries' = tries /\ (phase' \in {"absent", "open"} => tries' < MaxAttempts)
    BY <1>4, Attempts DEF Settle, GiveBack, jobVars, RunTypeOK, RunDriving, Phases
  <2>2. QED
    BY <1>4, <2>1, RowsGiven DEF EndDrive, adminVars, journalVars, seenVars, RunTypeOK, RunDriving, Failures, Rows
<1>5. CASE ReportOk \/ ReportErr \/ Vanish
  BY <1>4, <1>5 DEF ReportOk, ReportErr, Vanish
<1>6. CASE Reclaim
  BY <1>6, Attempts DEF Reclaim, GiveBack, adminVars, journalVars, driveVars, seenVars, RunTypeOK, RunDriving, Phases
<1>7. CASE StoreError
  BY <1>7 DEF StoreError, adminVars, journalVars, seenVars, jobVars, RunTypeOK, RunDriving
<1>8. CASE Load
  BY <1>8 DEF Load, adminVars, journalVars, seenVars, jobVars, RunTypeOK, RunDriving
<1>9. CASE Resume
  <2>1. PICK r \in Runs : cur' = r /\ drives' = [drives EXCEPT ![r] = @ + 1]
    BY <1>9 DEF Resume, Active
  <2>2. drives' \in [Runs -> 0..MaxAttempts] /\ \A q \in Runs : drives'[q] <= tries
    BY <1>9, <2>1, Attempts DEF Resume, RunTypeOK, RunDriving
  <2>3. QED
    BY <1>9, <2>1, <2>2 DEF Resume, adminVars, journalVars, jobVars, RunTypeOK, RunDriving
<1>10. CASE StartRun
  <2>1. tries \in Runs /\ drives' = [drives EXCEPT ![tries] = @ + 1]
    BY <1>10 DEF StartRun, RunDriving
  <2>2. drives' \in [Runs -> 0..MaxAttempts] /\ \A q \in Runs : drives'[q] <= tries
    BY <1>10, <2>1, Attempts DEF StartRun, RunTypeOK, RunDriving
  <2>3. /\ runStatus' \in [Runs -> {"none", "running", "succeeded", "failed"}]
        /\ runGrant' \in [Runs -> Grants \cup {NoGrant}]
    BY <1>10, <2>1 DEF StartRun, RunTypeOK
  <2>4. QED
    BY <1>10, <2>1, <2>2, <2>3 DEF StartRun, adminVars, jobVars, RunTypeOK, RunDriving
<1>11. CASE CheckGrant
  BY <1>11 DEF CheckGrant, FailRun, adminVars, journalVars, seenVars, jobVars, RunTypeOK, RunDriving, Failures
<1>12. CASE FinishRun
  <2>1. /\ runStatus' \in [Runs -> {"none", "running", "succeeded", "failed"}]
        /\ runError' \in [Runs -> Failures]
    BY <1>12 DEF FinishRun, RunTypeOK
  <2>2. QED
    BY <1>12, <2>1 DEF FinishRun, adminVars, seenVars, jobVars, RunTypeOK, RunDriving
<1>13. QED
  BY <1>1, <1>2, <1>3, <1>5, <1>6, <1>7, <1>8, <1>9, <1>10, <1>11, <1>12 DEF SharedNext

(* What the shared part does: it opens and finishes runs, and leaves the    *)
(* steps and the loop alone.                                                *)
LEMMA SharedEffect ==
    ASSUME SharedNext
    PROVE  /\ UNCHANGED <<step, fired, under>>
           /\ pc' \in InBody => UNCHANGED <<pc, cur, latch, outcome, local>>
           /\ pc' = pc \/ pc' \in {"none", "load", "open", "gates", "ready", "finish", "ok", "err"}
<1>1. UNCHANGED <<step, fired, under>>
  BY DEF SharedNext, Administer, Enqueue, StartDrive, ReportOk, ReportErr, Vanish, EndDrive, Reclaim,
         StoreError, Load, Resume, StartRun, CheckGrant, FinishRun, journalVars, seenVars
<1>2. CASE Administer \/ Enqueue \/ Reclaim
  BY <1>1, <1>2 DEF Administer, Enqueue, Reclaim, driveVars
<1>3. CASE StartDrive \/ ReportOk \/ ReportErr \/ Vanish \/ StoreError
  <2>1. pc' \in {"load", "none", "err"}
    BY <1>3 DEF StartDrive, ReportOk, ReportErr, Vanish, EndDrive, StoreError
  <2>2. QED
    BY <1>1, <2>1 DEF InBody
<1>4. CASE Load \/ Resume \/ StartRun \/ CheckGrant \/ FinishRun
  <2>1. pc' \in {"open", "ok", "gates", "err", "finish", "ready"}
    BY <1>4 DEF Load, Resume, StartRun, CheckGrant, FailRun, FinishRun
  <2>2. QED
    BY <1>1, <2>1 DEF InBody
<1>5. QED
  BY <1>2, <1>3, <1>4 DEF SharedNext

LEMMA RunTypedStutter == RunTyped /\ UNCHANGED runVars => RunTyped'
  BY DEF runVars, adminVars, journalVars, driveVars, seenVars, jobVars, RunTyped, RunTypeOK, RunDriving

-----------------------------------------------------------------------------
(* What the journal records.                                                *)

(* Executed slots whose row is not finished: a step that was not recorded.  *)
Pending(f, st) == {s \in Slots : f[s] > 0 /\ st[s].status \notin Finished}

(* A run that is driven is recorded as running; numbers beyond the claims   *)
(* are free; and a run about to be recorded as succeeded is complete.       *)
RunRecorded ==
    /\ pc \in Working => runStatus[cur] = "running"
    /\ \A r \in Runs : r > tries \/ (r = tries /\ pc \in {"load", "open"}) => runStatus[r] = "none"
    /\ \A u \in under : runStatus[u[1]] # "none"
    /\ pc = "finish" /\ failure = "none" =>
          \A s \in Slots : step[cur][s].status \in Finished \cup {"none"}
    /\ SuccessIsComplete /\ RecordedAuthority

(* A run was driven when it exists, and nothing is executed before.  The    *)
(* drive that is about to execute a step has a repetition to its credit as  *)
(* long as a step of an earlier drive is not recorded.                      *)
RunRepeats ==
    /\ \A r \in Runs : /\ IsFiniteSet(Repeats(fired[r]))
                       /\ runStatus[r] = "none" => drives[r] = 0 /\ \A s \in Slots : fired[r][s] = 0
                       /\ runStatus[r] # "none" => drives[r] > 0
    /\ pc \in {"gates", "ready", "walk", "step"} /\ Pending(fired[cur], step[cur]) # {} =>
          Cardinality(Repeats(fired[cur])) + 1 < drives[cur]
    /\ OneDuplicatePerResume

RunInv == RunTyped /\ RunRecorded /\ RunRepeats

(* What a step of an executor's loop does to the journal: it touches one    *)
(* row of its run, at slot s, which is not finished; it executes s at       *)
(* most, and goes on from the recording of s only when s is finished.       *)
OneRow(s) ==
    /\ \A r \in Runs, q \in Slots : step'[r][q] # step[r][q] =>
          r = cur /\ q = s /\ step[r][q].status \notin Finished
    /\ \A r \in Runs, q \in Slots : fired'[r][q] # fired[r][q] =>
          /\ r = cur /\ q = s /\ pc = "step" /\ pc' = "record"
          /\ step[r][q].status \notin Finished /\ fired'[r][q] = fired[r][q] + 1

Work(s) ==
    /\ pc \in InBody \cup {"ready"} /\ pc' \in InBody \cup {"finish", "err"}
    /\ UNCHANGED <<runStatus, runGrant, cur, drives, phase, tries>>
    /\ under' \subseteq under \cup {<<cur, runGrant[cur]>>}
    /\ OneRow(s)
    /\ pc' = "finish" /\ failure' = "none" =>
          \A q \in Slots : step'[cur][q].status \in Finished \cup {"none"}
    /\ pc' \in {"walk", "step"} =>
          \/ pc \in {"ready", "walk", "step"}
          \/ Pending(fired[cur], step[cur]) \subseteq {s} /\ step'[cur][s].status \in Finished

LEMMA NoRepeats ==
    ASSUME NEW f, \A s \in Slots : f[s] = 0
    PROVE  Repeats(f) = {}
<1>1. \A s \in Slots : 2..f[s] = {}
  OBVIOUS
<1>2. QED
  BY <1>1 DEF Repeats

LEMMA SameRepeats ==
    ASSUME NEW f, NEW g, \A s \in Slots : g[s] = f[s]
    PROVE  Repeats(g) = Repeats(f)
  BY DEF Repeats

LEMMA OneRepeatMore ==
    ASSUME NEW f \in [Slots -> Nat], NEW g \in [Slots -> Nat], NEW s \in Slots,
           g[s] = f[s] + 1, \A q \in Slots : q # s => g[q] = f[q]
    PROVE  Repeats(g) = IF f[s] = 0 THEN Repeats(f) ELSE Repeats(f) \cup {<<s, g[s]>>}
<1>1. ASSUME NEW x
      PROVE  x \in Repeats(g) <=> x \in Repeats(f) \/ (f[s] # 0 /\ x = <<s, g[s]>>)
  <2>1. x \in Repeats(g) <=> \E q \in Slots, n \in Nat : x = <<q, n>> /\ 2 <= n /\ n <= g[q]
    BY DEF Repeats
  <2>2. x \in Repeats(f) <=> \E q \in Slots, n \in Nat : x = <<q, n>> /\ 2 <= n /\ n <= f[q]
    BY DEF Repeats
  <2>3. \A n \in Nat : 2 <= n /\ n <= g[s] <=> (2 <= n /\ n <= f[s]) \/ (f[s] # 0 /\ n = g[s])
    BY g[s] \in Nat, f[s] \in Nat
  <2>4. ASSUME x \in Repeats(g)
        PROVE  x \in Repeats(f) \/ (f[s] # 0 /\ x = <<s, g[s]>>)
    <3>1. PICK q \in Slots, n \in Nat : x = <<q, n>> /\ 2 <= n /\ n <= g[q]
      BY <2>1, <2>4
    <3>2. QED
      BY <2>2, <2>3, <3>1
  <2>5. ASSUME x \in Repeats(f)
        PROVE  x \in Repeats(g)
    <3>1. PICK q \in Slots, n \in Nat : x = <<q, n>> /\ 2 <= n /\ n <= f[q]
      BY <2>2, <2>5
    <3>2. QED
      BY <2>1, <2>3, <3>1
  <2>6. ASSUME f[s] # 0, x = <<s, g[s]>>
        PROVE  x \in Repeats(g)
    BY <2>1, <2>6, g[s] \in Nat, f[s] \in Nat
  <2>7. QED
    BY <2>4, <2>5, <2>6
<1>2. QED
  BY <1>1

LEMMA RepeatsCounted ==
    ASSUME NEW f \in [Slots -> Nat], NEW g \in [Slots -> Nat], NEW s \in Slots,
           g[s] = f[s] + 1, \A q \in Slots : q # s => g[q] = f[q],
           IsFiniteSet(Repeats(f))
    PROVE  /\ IsFiniteSet(Repeats(g))
           /\ f[s] = 0 => Cardinality(Repeats(g)) = Cardinality(Repeats(f))
           /\ f[s] > 0 => Cardinality(Repeats(g)) <= Cardinality(Repeats(f)) + 1
<1>1. Cardinality(Repeats(f)) \in Nat
  BY FS_CardinalityType
<1>2. CASE f[s] = 0
  BY <1>1, <1>2, OneRepeatMore
<1>3. CASE f[s] # 0
  <2>1. Repeats(g) = Repeats(f) \cup {<<s, g[s]>>}
    BY <1>3, OneRepeatMore
  <2>2. /\ IsFiniteSet(Repeats(g))
        /\ Cardinality(Repeats(g)) = IF <<s, g[s]>> \in Repeats(f) THEN Cardinality(Repeats(f))
                                     ELSE Cardinality(Repeats(f)) + 1
    BY <2>1, FS_AddElement, ZenonT(60)
  <2>3. QED
    BY <1>1, <1>3, <2>2
<1>4. QED
  BY <1>2, <1>3

LEMMA RunInvInit == RunInit => RunInv
<1> SUFFICES ASSUME RunInit PROVE RunInv
  OBVIOUS
<1>1. /\ pc = "none" /\ under = {}
      /\ \A r \in Runs : runStatus[r] = "none" /\ drives[r] = 0 /\ \A s \in Slots : fired[r][s] = 0
  BY DEF RunInit
<1>2. RunRecorded
  BY <1>1 DEF RunRecorded, SuccessIsComplete, RecordedAuthority, Working, InBody
<1>3. \A r \in Runs : Repeats(fired[r]) = {}
  BY <1>1, NoRepeats
<1>4. RunRepeats
  BY <1>1, <1>3, FS_EmptySet DEF RunRepeats, OneDuplicatePerResume
<1>5. QED
  BY <1>2, <1>4, RunTypedInit DEF RunInv

(* A run that is opened or resumed gains a drive. *)
LEMMA RunGainsDrive ==
    ASSUME RunRepeats, RunTyped, NEW r \in Runs, pc = "open",
           cur' = r, drives' = [drives EXCEPT ![r] = @ + 1], UNCHANGED <<fired, step>>,
           \A q \in Runs : q # r => runStatus'[q] = runStatus[q],
           runStatus'[r] = "running"
    PROVE  RunRepeats'
<1>1. /\ drives \in [Runs -> 0..MaxAttempts] /\ MaxAttempts \in Nat
      /\ \A q \in Runs : drives'[q] = IF q = r THEN drives[q] + 1 ELSE drives[q]
  BY Attempts DEF RunTyped, RunTypeOK
<1>2. \A q \in Runs : Cardinality(Repeats(fired[q])) \in Nat
  BY FS_CardinalityType DEF RunRepeats
<1>3. CASE runStatus[r] # "none"
  <2>1. drives[r] > 0 /\ Cardinality(Repeats(fired[r])) < drives[r]
    BY <1>3 DEF RunRepeats, OneDuplicatePerResume
  <2>2. \A q \in Runs : drives'[q] > 0 => Cardinality(Repeats(fired[q])) < drives'[q]
    BY <1>1, <1>2, <2>1 DEF RunRepeats, OneDuplicatePerResume
  <2>3. Cardinality(Repeats(fired[r])) + 1 < drives'[r]
    BY <1>1, <1>2, <2>1
  <2>4. \A q \in Runs : runStatus'[q] # "none" <=> drives'[q] > 0
    BY <1>1 DEF RunRepeats
  <2>5. QED
    BY <1>1, <2>2, <2>3, <2>4, <1>3 DEF RunRepeats, OneDuplicatePerResume
<1>4. CASE runStatus[r] = "none"
  <2>1. drives[r] = 0 /\ \A s \in Slots : fired[r][s] = 0
    BY <1>4 DEF RunRepeats
  <2>2. Repeats(fired[r]) = {}
    BY <2>1, NoRepeats
  <2>3. \A q \in Runs : drives'[q] > 0 => Cardinality(Repeats(fired[q])) < drives'[q]
    BY <1>1, <1>2, <2>1, <2>2, FS_EmptySet DEF RunRepeats, OneDuplicatePerResume
  <2>4. Pending(fired[r], step[r]) = {}
    BY <2>1 DEF Pending
  <2>5. \A q \in Runs : runStatus'[q] # "none" <=> drives'[q] > 0
    BY <1>1 DEF RunRepeats
  <2>6. QED
    BY <1>1, <2>1, <2>3, <2>4, <2>5 DEF RunRepeats, OneDuplicatePerResume
<1>5. QED
  BY <1>3, <1>4

(* A step of the queue, of the administrator or of a store that fails, and  *)
(* a run that is opened, resumed or finished. *)
LEMMA RunInvShared ==
    ASSUME RunInv, SharedNext \/ UNCHANGED runVars
    PROVE  RunInv'
<1> USE DEF RunInv
<1>0. /\ tries \in Nat /\ \A r \in Runs : r \in Nat
      /\ \A u \in under : u[1] \in Runs
  BY Attempts DEF RunTyped, RunTypeOK
<1>t. RunTyped'
  BY RunTypedShared, RunTypedStutter
<1>q. ASSUME UNCHANGED <<step, fired, drives, runStatus>>,
             pc' \in {"gates", "ready", "walk", "step"} =>
                cur' = cur /\ pc \in {"gates", "ready", "walk", "step"}
      PROVE  RunRepeats'
  BY <1>q DEF RunRepeats, OneDuplicatePerResume
<1>1. CASE Administer \/ Enqueue \/ Reclaim \/ UNCHANGED runVars
  <2>1. UNCHANGED <<step, fired, drives, under, runStatus, runGrant, cur, tries, pc, failure>>
    BY <1>1 DEF Administer, Enqueue, Submit, Reclaim, GiveBack, runVars, journalVars, seenVars,
                driveVars, jobVars
  <2>2. RunRecorded'
    BY <2>1 DEF RunRecorded, SuccessIsComplete, RecordedAuthority
  <2>3. QED
    BY <1>t, <1>q, <2>1, <2>2
<1>2. CASE StartDrive
  <2>1. /\ UNCHANGED <<step, fired, drives, under, runStatus, runGrant>>
        /\ pc' = "load" /\ tries' = tries + 1
    BY <1>2 DEF StartDrive, Claim, journalVars, seenVars
  <2>2. \A r \in Runs : r > tries' \/ r = tries' => runStatus[r] = "none"
    BY <1>0, <2>1 DEF RunRecorded
  <2>3. RunRecorded'
    BY <2>1, <2>2 DEF RunRecorded, SuccessIsComplete, RecordedAuthority, Working, InBody
  <2>4. QED
    BY <1>t, <1>q, <2>1, <2>3
<1>3. CASE ReportOk \/ ReportErr \/ Vanish
  <2>1. /\ UNCHANGED <<step, fired, drives, under, runStatus, runGrant, tries>>
        /\ pc' = "none"
    BY <1>3 DEF ReportOk, ReportErr, Vanish, EndDrive, Settle, GiveBack, jobVars, journalVars, seenVars
  <2>2. RunRecorded'
    BY <2>1 DEF RunRecorded, SuccessIsComplete, RecordedAuthority, Working, InBody
  <2>3. QED
    BY <1>t, <1>q, <2>1, <2>2
<1>4. CASE StoreError \/ Load
  <2>1. /\ UNCHANGED <<step, fired, drives, under, runStatus, runGrant, tries, cur>>
        /\ pc' \in {"err", "ok"} \/ (pc = "load" /\ pc' = "open")
    BY <1>4 DEF StoreError, Load, jobVars, journalVars, seenVars
  <2>2. RunRecorded'
    BY <2>1 DEF RunRecorded, SuccessIsComplete, RecordedAuthority, Working, InBody
  <2>3. QED
    BY <1>t, <1>q, <2>1, <2>2
<1>5. CASE Resume
  <2>1. /\ UNCHANGED <<step, fired, under, runStatus, runGrant, tries>>
        /\ pc = "open" /\ pc' = "gates"
    BY <1>5 DEF Resume, journalVars, jobVars
  <2>2. PICK r \in Active : cur' = r /\ drives' = [drives EXCEPT ![r] = @ + 1]
    BY <1>5 DEF Resume
  <2>3. r \in Runs /\ runStatus[r] = "running"
    BY <2>2 DEF Active
  <2>4. RunRecorded'
    BY <2>1, <2>2, <2>3 DEF RunRecorded, SuccessIsComplete, RecordedAuthority
  <2>5. RunRepeats'
    BY <2>1, <2>2, <2>3, RunGainsDrive
  <2>6. QED
    BY <1>t, <2>4, <2>5
<1>6. CASE StartRun
  <2>1. /\ UNCHANGED <<step, fired, under, tries>> /\ tries \in Runs /\ pc = "open"
        /\ pc' \in {"gates", "err"} /\ cur' = tries
        /\ runStatus' = [runStatus EXCEPT ![tries] = "running"]
        /\ runGrant' = [runGrant EXCEPT ![tries] = snap]
        /\ drives' = [drives EXCEPT ![tries] = @ + 1]
    BY <1>6 DEF StartRun, jobVars, RunTyped, RunDriving
  <2>2. DOMAIN runStatus = Runs /\ DOMAIN runGrant = Runs
    BY DEF RunTyped, RunTypeOK
  <2>3. \A u \in under : u[1] # tries
    BY <2>1 DEF RunRecorded
  <2>4. RecordedAuthority' /\ SuccessIsComplete'
    BY <1>0, <2>1, <2>2, <2>3 DEF RunRecorded, SuccessIsComplete, RecordedAuthority
  <2>5. RunRecorded'
    BY <1>0, <2>1, <2>2, <2>3, <2>4 DEF RunRecorded
  <2>6. RunRepeats'
    BY <2>1, <2>2, RunGainsDrive
  <2>7. QED
    BY <1>t, <2>5, <2>6
<1>7. CASE CheckGrant
  <2>1. /\ UNCHANGED <<step, fired, drives, under, runStatus, runGrant, cur, tries>> /\ pc = "gates"
        /\ pc' = "ready" \/ (pc' = "finish" /\ failure' # "none")
    BY <1>7 DEF CheckGrant, FailRun, journalVars, seenVars, jobVars
  <2>2. RunRecorded'
    BY <2>1 DEF RunRecorded, SuccessIsComplete, RecordedAuthority, Working, InBody
  <2>3. QED
    BY <1>t, <1>q, <2>1, <2>2
<1>8. CASE FinishRun
  <2>1. /\ UNCHANGED <<step, fired, drives, under, runGrant, tries>> /\ cur \in Runs /\ pc = "finish"
        /\ pc' \in {"ok", "err"}
        /\ runStatus' = [runStatus EXCEPT ![cur] = IF failure = "none" THEN "succeeded" ELSE "failed"]
    BY <1>8 DEF FinishRun, seenVars, jobVars, RunTyped, RunDriving, Working
  <2>2. DOMAIN runStatus = Runs /\ runStatus[cur] = "running"
    BY <2>1 DEF RunTyped, RunTypeOK, RunRecorded, Working
  <2>3. SuccessIsComplete'
    BY <2>1, <2>2 DEF RunRecorded, SuccessIsComplete
  <2>4. RecordedAuthority'
    BY <2>1 DEF RunRecorded, RecordedAuthority
  <2>5. RunRecorded'
    BY <1>0, <2>1, <2>2, <2>3, <2>4 DEF RunRecorded, Working, InBody
  <2>6. RunRepeats'
    BY <2>1, <2>2 DEF RunRepeats, OneDuplicatePerResume
  <2>7. QED
    BY <1>t, <2>5, <2>6
<1>9. QED
  BY <1>1, <1>2, <1>3, <1>4, <1>5, <1>6, <1>7, <1>8 DEF SharedNext

(* A step of an executor's loop. *)
LEMMA RunInvWork ==
    ASSUME RunInv, RunTypeOK', NEW s, Work(s)
    PROVE  RunInv'
<1> USE DEF RunInv
<1>1. cur \in Runs /\ cur' = cur /\ runStatus' = runStatus /\ runStatus[cur] = "running"
  BY DEF Work, RunTyped, RunDriving, RunRecorded, Working, InBody
<1>2. RunTyped'
  BY <1>1 DEF Work, RunTyped, RunDriving, Working, InBody
<1>3. RunRecorded'
  <2>1. SuccessIsComplete'
    BY <1>1 DEF Work, OneRow, RunRecorded, SuccessIsComplete
  <2>2. RecordedAuthority' /\ \A u \in under' : runStatus[u[1]] # "none"
    BY <1>1 DEF Work, RunRecorded, RecordedAuthority
  <2>3. QED
    BY <1>1, <2>1, <2>2 DEF Work, RunRecorded, Working, InBody
<1>4. RunRepeats'
  <2> DEFINE n(f) == Cardinality(Repeats(f))
  <2>0. /\ fired \in [Runs -> [Slots -> Nat]] /\ fired' \in [Runs -> [Slots -> Nat]]
        /\ drives \in [Runs -> 0..MaxAttempts] /\ MaxAttempts \in Nat /\ drives' = drives
    BY Attempts DEF RunTyped, RunTypeOK, Work
  <2>1. \A r \in Runs : n(fired[r]) \in Nat /\ IsFiniteSet(Repeats(fired[r]))
    BY FS_CardinalityType DEF RunRepeats
  <2>2. drives[cur] > 0 /\ n(fired[cur]) < drives[cur]
    BY <1>1 DEF RunRepeats, OneDuplicatePerResume
  <2>3. \A r \in Runs : r # cur => Repeats(fired'[r]) = Repeats(fired[r]) /\ \A q \in Slots : fired'[r][q] = fired[r][q]
    <3>1. \A r \in Runs : r # cur => \A q \in Slots : fired'[r][q] = fired[r][q]
      BY DEF Work, OneRow
    <3>2. QED
      BY <3>1, SameRepeats
  <2>4. CASE \A q \in Slots : fired'[cur][q] = fired[cur][q]
    <3>1. Repeats(fired'[cur]) = Repeats(fired[cur])
      BY <2>4, SameRepeats
    <3>2. Pending(fired'[cur], step'[cur]) \subseteq Pending(fired[cur], step[cur])
      BY <1>1, <2>4 DEF Pending, Work, OneRow
    <3>3. ASSUME pc' \in {"walk", "step"}, Pending(fired'[cur], step'[cur]) # {}
          PROVE  n(fired[cur]) + 1 < drives[cur]
      <4>1. CASE pc \in {"ready", "walk", "step"}
        BY <3>2, <3>3, <4>1 DEF RunRepeats
      <4>2. CASE pc \notin {"ready", "walk", "step"}
        <5>1. Pending(fired[cur], step[cur]) \subseteq {s} /\ step'[cur][s].status \in Finished
          BY <3>3, <4>2 DEF Work
        <5>2. s \notin Pending(fired'[cur], step'[cur])
          BY <5>1 DEF Pending
        <5>3. QED
          BY <3>2, <3>3, <5>1, <5>2
      <4>3. QED
        BY <4>1, <4>2
    <3>4. pc' \notin {"gates", "ready"}
      BY DEF Work, InBody
    <3>5. QED
      BY <1>1, <2>0, <2>1, <2>2, <2>3, <3>1, <3>3, <3>4, ZenonT(60) DEF RunRepeats, OneDuplicatePerResume
  <2>5. CASE ~ \A q \in Slots : fired'[cur][q] = fired[cur][q]
    <3>1. /\ s \in Slots /\ pc = "step" /\ pc' = "record" /\ step[cur][s].status \notin Finished
          /\ fired'[cur][s] = fired[cur][s] + 1
          /\ \A q \in Slots : q # s => fired'[cur][q] = fired[cur][q]
      BY <1>1, <2>5 DEF Work, OneRow
    <3>2. /\ IsFiniteSet(Repeats(fired'[cur]))
          /\ fired[cur][s] = 0 => n(fired'[cur]) = n(fired[cur])
          /\ fired[cur][s] > 0 => n(fired'[cur]) <= n(fired[cur]) + 1
      BY <1>1, <2>0, <2>1, <3>1, RepeatsCounted
    <3>3. fired[cur][s] \in Nat
      BY <1>1, <2>0, <3>1
    <3>4. fired[cur][s] > 0 => n(fired[cur]) + 1 < drives[cur]
      BY <3>1 DEF RunRepeats, Pending
    <3>5. n(fired'[cur]) < drives[cur]
      <4>1. n(fired'[cur]) \in Nat
        BY <3>2, FS_CardinalityType
      <4>2. n(fired[cur]) \in Nat /\ drives[cur] \in Nat
        BY <1>1, <2>0, <2>1
      <4> HIDE DEF n
      <4>3. QED
        BY <2>2, <3>2, <3>3, <3>4, <4>1, <4>2
    <3>6. QED
      BY <1>1, <2>0, <2>1, <2>2, <2>3, <3>1, <3>2, <3>5, ZenonT(60) DEF RunRepeats, OneDuplicatePerResume
  <2>6. QED
    BY <2>4, <2>5
<1>5. QED
  BY <1>2, <1>3, <1>4
=============================================================================

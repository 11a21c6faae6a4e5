---------------------------- MODULE AutomationRun ----------------------------
(***************************************************************************)
(* Driving one run_automation job (catalerum-ingest run_automation,          *)
(* catalerum-automation execute_for_job) and the durable journal of runs and *)
(* steps it writes (catalerum-store AutomationRunRepo).                      *)
(*                                                                         *)
(* This module holds what the linear and the graph executor share: opening  *)
(* or resuming the job's run, the grant gates, the bookkeeping of a step,   *)
(* finishing the run and reporting to the queue.  The queue is JobPromise:  *)
(* at most one drive of the job is alive, and the job is driven again after *)
(* an error, a crash or a lost report.  Each store statement is a step of   *)
(* its own and may fail, before or after it is applied.                     *)
(***************************************************************************)
EXTENDS JobPromise, FiniteSets

CONSTANTS
    Slots,          \* the step ordinals a run can have
    Kind,           \* Kind[s]: what the action of slot s is
    Grants,         \* grant ids
    NoGrant,        \* an automation without grant: base authority
    AlreadyStored,  \* the item the event carries was stored by an earlier job
    Redelivery      \* the event says so itself: trigger.redelivery

(* Action kinds, told apart by ActionKind::is_idempotent ("write", "pure"),  *)
(* by reporting newly_written ("write") and by the rerun_on_redelivery      *)
(* parameter ("rerun").                                                     *)
ActionKinds == {"write", "pure", "effect", "rerun"}

(* A claim opens at most one run; runs are numbered by the claim.           *)
Runs == 1..MaxAttempts

(* Skipped on a redelivery: neither idempotent nor opted back in.           *)
GatedOnRedelivery(s) == Kind[s] = "effect"

ASSUME DriveAssumption ==
    /\ NoGrant \notin Grants
    /\ AlreadyStored \in BOOLEAN
    /\ Redelivery \in BOOLEAN

VARIABLES
    enabled,    \* automations.enabled
    autoGrant,  \* automations.grant_id
    liveGrants, \* the grants that exist
    stored,     \* the item is in the store (what a "write" upserts)
    runStatus, runGrant, runError,  \* automation_runs
    step,       \* automation_steps: step[r][s] = [status, out]
    pc,         \* where the drive is; "none": no drive is alive
    cur,        \* its run
    snap,       \* the grant_id of the automation row it loaded
    latch,      \* its redelivery flag
    outcome,    \* what the action it ran returned, until recorded
    local,      \* the loop variables of its executor
    failure,    \* why the run will be recorded as failed, or "none"
    fired,      \* observed: how often slot s of run r was executed
    under,      \* observed: <<run, grant>> of every execution
    drives      \* observed: how many drives worked on run r

adminVars   == <<enabled, autoGrant, liveGrants>>
journalVars == <<runStatus, runGrant, runError, step>>
driveVars   == <<pc, cur, snap, latch, outcome, local, failure>>
seenVars    == <<fired, under, drives>>
runVars     == <<adminVars, stored, journalVars, driveVars, seenVars, jobVars>>

StepStatuses == {"none", "running", "succeeded", "skipped", "failed"}
(* Mutant: a resumed run does not trust the steps that succeeded.           *)
FinishedIsSkipped == {"skipped"}

Finished     == {"succeeded", "skipped"}    \* never executed again
Outs         == {"none", "new", "old", "true", "false"}
Idle         == <<>>                       \* no loop is running
NoStep       == [status |-> "none", out |-> "none"]
Failures     == {"none", "spec", "grant", "transient", "gate", "condition", "action"}

RunTypeOK ==
    /\ phase \in Phases /\ tries \in 0..MaxAttempts
    /\ enabled \in BOOLEAN /\ autoGrant \in Grants \cup {NoGrant}
    /\ liveGrants \subseteq Grants /\ stored \in BOOLEAN
    /\ runStatus \in [Runs -> {"none", "running", "succeeded", "failed"}]
    /\ runGrant \in [Runs -> Grants \cup {NoGrant}]
    /\ runError \in [Runs -> Failures]
    /\ step \in [Runs -> [Slots -> [status : StepStatuses, out : Outs]]]
    /\ cur \in Runs \cup {0} /\ snap \in Grants \cup {NoGrant}
    /\ latch \in BOOLEAN /\ failure \in Failures
    /\ outcome \in [status : StepStatuses, out : Outs]
    /\ fired \in [Runs -> [Slots -> Nat]]
    /\ under \subseteq Runs \X (Grants \cup {NoGrant})
    /\ drives \in [Runs -> 0..MaxAttempts]

RunInit ==
    /\ Init
    /\ enabled = TRUE
    /\ autoGrant \in Grants \cup {NoGrant}
    /\ liveGrants = Grants
    /\ stored = AlreadyStored
    /\ runStatus = [r \in Runs |-> "none"]
    /\ runGrant = [r \in Runs |-> NoGrant]
    /\ runError = [r \in Runs |-> "none"]
    /\ step = [r \in Runs |-> [s \in Slots |-> NoStep]]
    /\ pc = "none" /\ cur = 0 /\ snap = NoGrant
    /\ latch = FALSE /\ outcome = NoStep /\ local = Idle /\ failure = "none"
    /\ fired = [r \in Runs |-> [s \in Slots |-> 0]]
    /\ under = {}
    /\ drives = [r \in Runs |-> 0]

-----------------------------------------------------------------------------
(* The administrator, at any moment.                                        *)

Toggle == enabled' = ~enabled /\ UNCHANGED <<autoGrant, liveGrants>>

Regrant(g) == autoGrant' = g /\ UNCHANGED <<enabled, liveGrants>>

(* A foreign key takes a deleted grant away from the automation (ON DELETE   *)
(* SET NULL), and not from its runs.                                        *)
DeleteGrant(g) ==
    /\ liveGrants' = liveGrants \ {g}
    /\ autoGrant' = IF autoGrant = g THEN NoGrant ELSE autoGrant
    /\ UNCHANGED enabled

Administer ==
    /\ Toggle \/ (\E g \in liveGrants \cup {NoGrant} : Regrant(g))
              \/ (\E g \in liveGrants : DeleteGrant(g))
    /\ UNCHANGED <<stored, journalVars, driveVars, seenVars, jobVars>>

-----------------------------------------------------------------------------
(* The queue side of a drive.                                               *)

Enqueue ==
    /\ Submit
    /\ UNCHANGED <<adminVars, stored, journalVars, driveVars, seenVars>>

StartDrive ==
    /\ pc = "none"
    /\ Claim
    /\ pc' = "load"
    /\ UNCHANGED <<cur, snap, latch, outcome, local, failure>>
    /\ UNCHANGED <<adminVars, stored, journalVars, seenVars>>

(* The drive ends; its locals are gone.                                     *)
EndDrive ==
    /\ pc' = "none" /\ cur' = 0 /\ snap' = NoGrant
    /\ latch' = FALSE /\ outcome' = NoStep /\ local' = Idle /\ failure' = "none"
    /\ UNCHANGED <<adminVars, stored, journalVars, seenVars>>

(* process() marks the job done, whatever the run's own outcome was.        *)
ReportOk == pc = "ok" /\ Settle /\ EndDrive

(* process() fails the job: retried while attempts are left.                *)
ReportErr == pc = "err" /\ GiveBack /\ EndDrive

(* The worker dies, or its report to the queue is lost.                     *)
Vanish == pc # "none" /\ UNCHANGED jobVars /\ EndDrive

(* Mutant: the last attempt's drive is never presumed dead.                 *)
ReclaimIfRetryable ==
    /\ pc = "none"
    /\ tries < MaxAttempts
    /\ GiveBack
    /\ UNCHANGED <<adminVars, stored, journalVars, driveVars, seenVars>>

(* The reconciler takes the job from the drive that vanished.               *)
Reclaim ==
    /\ pc = "none"
    /\ GiveBack
    /\ UNCHANGED <<adminVars, stored, journalVars, driveVars, seenVars>>

(* A read fails, or a write fails without having been applied: `?`.  (A      *)
(* drive at a place without a statement that gives up is one that vanishes.) *)
StoreError ==
    /\ pc \in {"load", "open", "walk", "step", "record", "finish"}
    /\ pc' = "err"
    /\ UNCHANGED <<cur, snap, latch, outcome, local, failure>>
    /\ UNCHANGED <<adminVars, stored, journalVars, seenVars, jobVars>>

-----------------------------------------------------------------------------
(* run_automation and the head of execute_for_job.                          *)

(* A paused (archived, deleted) automation settles its job without a run.   *)
Load ==
    /\ pc = "load"
    /\ IF enabled THEN pc' = "open" /\ snap' = autoGrant
                  ELSE pc' = "ok" /\ UNCHANGED snap
    /\ UNCHANGED <<cur, latch, outcome, local, failure>>
    /\ UNCHANGED <<adminVars, stored, journalVars, seenVars, jobVars>>

(* find_active_run_by_job: the newest run of the job still running.         *)
Active == {r \in Runs : runStatus[r] = "running"}

Resume ==
    /\ pc = "open"
    /\ \E r \in Active :
        /\ \A q \in Active : q <= r
        /\ cur' = r
        /\ drives' = [drives EXCEPT ![r] = @ + 1]
    /\ pc' = "gates"
    /\ UNCHANGED <<snap, latch, outcome, local, failure>>
    /\ UNCHANGED <<adminVars, stored, journalVars, fired, under, jobVars>>

(* start_run snapshots the automation's grant.                              *)
StartRun ==
    /\ pc = "open"
    /\ Active = {}
    /\ cur' = tries
    /\ runStatus' = [runStatus EXCEPT ![tries] = "running"]
    /\ runGrant' = [runGrant EXCEPT ![tries] = snap]
    /\ drives' = [drives EXCEPT ![tries] = @ + 1]
    /\ pc' \in {"gates", "err"}
    /\ UNCHANGED <<runError, step, snap, latch, outcome, local, failure>>
    /\ UNCHANGED <<adminVars, stored, fired, under, jobVars>>

(* Mutant: the automation's present grant.                                  *)
AuthorityOfAutomation == snap

(* The grant the run was opened under is the one its actions run under.     *)
Authority == runGrant[cur]

(* The run is going to be recorded as failed, for reason f.                 *)
FailRun(f) == pc' = "finish" /\ failure' = f

(* The stored graph or action list may not parse; then resolve_grant, the   *)
(* time window and the unenforced constraints.                              *)
CheckGrant ==
    /\ pc = "gates"
    /\ \/ FailRun("spec")
       \/ Authority \in liveGrants \cup {NoGrant} /\ pc' = "ready" /\ UNCHANGED failure
       \/ Authority \in Grants \ liveGrants /\ FailRun("grant")
       \/ Authority \in Grants /\ FailRun("transient")
       \/ Authority \in liveGrants /\ FailRun("gate")
    /\ UNCHANGED <<cur, snap, latch, outcome, local>>
    /\ UNCHANGED <<adminVars, stored, journalVars, seenVars, jobVars>>

FinishRun ==
    /\ pc = "finish"
    /\ runStatus' = [runStatus EXCEPT ![cur] =
                        IF failure = "none" THEN "succeeded" ELSE "failed"]
    /\ runError' = [runError EXCEPT ![cur] = failure]
    /\ pc' \in {"ok", "err"}
    /\ UNCHANGED <<runGrant, step, cur, snap, latch, outcome, local, failure>>
    /\ UNCHANGED <<adminVars, stored, seenVars, jobVars>>

-----------------------------------------------------------------------------
(* One step of a run; the executors decide which slot, and what follows.    *)

(* add_step for a new ordinal; a row left running or failed is reused.      *)
OpenRow(s) == step' =
    IF step[cur][s].status = "none"
    THEN [step EXCEPT ![cur][s].status = "running"] ELSE step

(* finish_step                                                              *)
CloseRow(s, result) == step' = [step EXCEPT ![cur][s] = result]

(* The observed part of executing slot s once.                              *)
Fire(s) ==
    /\ fired' = [fired EXCEPT ![cur][s] = @ + 1]
    /\ under' = under \cup {<<cur, Authority>>}
    /\ UNCHANGED drives

Failed == [status |-> "failed", out |-> "none"]

(* What an action reports.  A write says whether it found the item stored;  *)
(* when its probe fails it says "new".                                      *)
ActionResults(s) ==
    {Failed} \cup [status : {"succeeded"},
                   out : IF Kind[s] # "write" THEN {"none"}
                         ELSE IF stored THEN {"old", "new"} ELSE {"new"}]

(* runner.run (or run_code): a successful write stores the item, and one    *)
(* that reports a failure may have stored it.                               *)
Execute(s, results) ==
    /\ outcome' \in results
    /\ stored' \in IF Kind[s] # "write" THEN {stored}
                   ELSE IF outcome'.status = "succeeded" THEN {TRUE} ELSE {stored, TRUE}
    /\ Fire(s)

SharedNext ==
    \/ Administer \/ Enqueue \/ StartDrive
    \/ ReportOk \/ ReportErr \/ Vanish \/ Reclaim \/ StoreError
    \/ Load \/ Resume \/ StartRun \/ CheckGrant \/ FinishRun

(* The drive makes progress, and the queue re-drives what was left behind.  *)
SharedFairness ==
    /\ WF_runVars(StartDrive) /\ WF_runVars(Reclaim)
    /\ WF_runVars(ReportOk) /\ WF_runVars(ReportErr)
    /\ WF_runVars(Load) /\ WF_runVars(Resume \/ StartRun)
    /\ WF_runVars(CheckGrant) /\ WF_runVars(FinishRun)

-----------------------------------------------------------------------------
(* Correctness of a run, whichever executor drives it.                      *)

(* A step recorded as succeeded or skipped is never executed again in its   *)
(* run and its record stands: a resumed run "does not re-execute" it.       *)
FinishedStepsStand ==
    [][\A r \in Runs, s \in Slots :
        step[r][s].status \in Finished =>
            fired'[r][s] = fired[r][s] /\ step'[r][s] = step[r][s]]_runVars

(* The executions of a run beyond the first of each slot, where slot s was  *)
(* executed f[s] times.                                                     *)
Repeats(f) == UNION {{s} \X (2..f[s]) : s \in Slots}

(* A crash costs at most one duplicated action: the executions of a run     *)
(* beyond the first of each slot number less than its drives.               *)
OneDuplicatePerResume == \A r \in Runs :
    drives[r] > 0 => Cardinality(Repeats(fired[r])) < drives[r]

(* "The run never executes under an authority other than the one it is      *)
(* recorded as having run under", although the automation may be re-pointed *)
(* to another grant between its drives.                                     *)
RecordedAuthority == \A u \in under : u[2] = runGrant[u[1]]

(* A run is recorded as succeeded only if every step it recorded finished.  *)
SuccessIsComplete == \A r \in Runs :
    runStatus[r] = "succeeded" =>
        \A s \in Slots : step[r][s].status \in Finished \cup {"none"}

(* SOUL 3.5, "never double-fires": once a run of the job has succeeded, no  *)
(* action of the automation is executed for this job again.                 *)
NoRefireAfterSuccess ==
    [][(\E r \in Runs : runStatus[r] = "succeeded") => fired' = fired]_runVars
=============================================================================

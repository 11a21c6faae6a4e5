------------------------------ MODULE JobQueue ------------------------------
(***************************************************************************)
(* The durable job queue (catalerum-store, JobQueueRepo) and the workers    *)
(* that drain it (catalerum-ingest, SyncWorker).                            *)
(*                                                                         *)
(* A row of job_queue is a job.  A worker claims the oldest runnable row,   *)
(* runs its handler and writes the outcome back by job id alone: neither    *)
(* complete nor fail looks at the row's status or at its lease.  A          *)
(* reconciler re-drives rows whose lease is older than the visibility       *)
(* timeout.  Workers may die while they hold a job, and any statement may   *)
(* fail, or be applied while its reply is lost.                             *)
(*                                                                         *)
(* Time is relative: due[j] is run_after minus now, age[j] is now minus     *)
(* locked_at; Tick lets one unit pass.                                      *)
(***************************************************************************)
EXTENDS Integers, FiniteSets

CONSTANTS
    Jobs,               \* the rows
    NoJob,              \* no row
    Workers,            \* the worker tasks, over all pods
    Capable,            \* Capable[j]: the workers with the context j needs
    MaxAttempts,        \* WorkerConfig::max_attempts
    VisibilityTimeout,  \* WorkerConfig::visibility_timeout
    BackoffBase,        \* WorkerConfig::backoff_base
    MaxLag              \* bound: how far in the past run_after is told apart

ASSUME ConstantsAssumption ==
    /\ NoJob \notin Jobs
    /\ Capable \in [Jobs -> SUBSET Workers]
    /\ MaxAttempts \in Nat \ {0}
    /\ VisibilityTimeout \in Nat
    /\ BackoffBase \in Nat
    /\ \A a \in 0..MaxAttempts : 2^a \in Nat
    /\ MaxLag \in Nat

VARIABLES
    status,     \* job_queue.status ("none": not enqueued yet)
    attempts,   \* job_queue.attempts
    due,        \* job_queue.run_after, relative to now
    age,        \* job_queue.locked_at: time since the claim
    pc,         \* what each worker is doing
    holding,    \* the job each worker's process() call is about, or NoJob
    (* Observations. *)
    ok,         \* jobs whose handler has returned Ok
    late        \* whether a live worker has held a job past the timeout

rows == <<status, attempts, due, age>>
seen == <<ok, late>>
vars == <<rows, pc, holding, seen>>

Statuses  == {"none", "pending", "running", "done", "failed"}
Terminal  == {"done", "failed"}
WorkerPcs == {"idle", "handling", "completing", "failing", "down"}

(* Workers in the middle of process(): they will write to their job's row.   *)
InProcess == {"handling", "completing", "failing"}

TypeOK ==
    /\ status \in [Jobs -> Statuses]
    /\ attempts \in [Jobs -> 0..MaxAttempts]
    /\ due \in [Jobs -> Int]
    /\ age \in [Jobs -> 0..(VisibilityTimeout + 1)]
    /\ pc \in [Workers -> WorkerPcs]
    /\ holding \in [Workers -> Jobs \cup {NoJob}]
    /\ ok \in SUBSET Jobs
    /\ late \in BOOLEAN

Init ==
    /\ status = [j \in Jobs |-> "none"]
    /\ attempts = [j \in Jobs |-> 0]
    /\ due = [j \in Jobs |-> 0]
    /\ age = [j \in Jobs |-> 0]
    /\ pc = [w \in Workers |-> "idle"]
    /\ holding = [w \in Workers |-> NoJob]
    /\ ok = {}
    /\ late = FALSE

-----------------------------------------------------------------------------
(* The statements of JobQueueRepo.                                          *)

(* JobQueueRepo::enqueue: every caller passes run_after = None, now.        *)
Enqueue(j) ==
    /\ status[j] = "none"
    /\ status' = [status EXCEPT ![j] = "pending"]
    /\ due' = [due EXCEPT ![j] = 0]
    /\ UNCHANGED <<attempts, age, pc, holding, seen>>

(* The row the claiming subquery selects: ORDER BY run_after.  Rows with    *)
(* equal run_after are further ordered by created_at, which this model      *)
(* leaves open.                                                             *)
Runnable(j) == status[j] = "pending" /\ due[j] <= 0

Oldest(j) == Runnable(j) /\ \A k \in Jobs : Runnable(k) => due[j] <= due[k]

(* The effect of the claiming UPDATE of dequeue_one on the row.             *)
ClaimRow(j) ==
    /\ Oldest(j)
    /\ status' = [status EXCEPT ![j] = "running"]
    /\ attempts' = [attempts EXCEPT ![j] = @ + 1]
    /\ age' = [age EXCEPT ![j] = 0]
    /\ due' = due

(* JobQueueRepo::complete, WHERE id = j only.                               *)
CompleteRow(j) ==
    /\ status' = [status EXCEPT ![j] = "done"]
    /\ age' = [age EXCEPT ![j] = 0]
    /\ UNCHANGED <<attempts, due>>

(* Mutant: one attempt too many.                                            *)
ExhaustedTooLate(j) == attempts[j] > MaxAttempts

Exhausted(j) == attempts[j] >= MaxAttempts

(* run_after = now + backoff_base * 2^(attempts - 1)                        *)
Backoff(j) == BackoffBase * 2^(IF attempts[j] > 0 THEN attempts[j] - 1 ELSE 0)

(* JobQueueRepo::fail, WHERE id = j only.                                   *)
FailRow(j) ==
    /\ status' = [status EXCEPT ![j] = IF Exhausted(j) THEN "failed" ELSE "pending"]
    /\ due' = [due EXCEPT ![j] = IF Exhausted(j) THEN @ ELSE Backoff(j)]
    /\ age' = [age EXCEPT ![j] = 0]
    /\ UNCHANGED attempts

(* Mutants: a lease expires at the timeout; a lease is never looked at.     *)
StaleAtTimeout(j) == status[j] = "running" /\ age[j] >= VisibilityTimeout

StaleAtAnyAge(j) == status[j] = "running"

(* locked_at < now - visibility_timeout                                     *)
Stale(j) == status[j] = "running" /\ age[j] > VisibilityTimeout

(* Mutants: attempts are not looked at; rows with attempts left are missed. *)
ReclaimForever ==
    /\ status' = [j \in Jobs |-> IF Stale(j) THEN "pending" ELSE status[j]]
    /\ due' = [j \in Jobs |-> IF Stale(j) THEN 0 ELSE due[j]]
    /\ age' = [j \in Jobs |-> IF Stale(j) THEN 0 ELSE age[j]]
    /\ UNCHANGED attempts

ReclaimOnlyExhausted ==
    /\ status' = [j \in Jobs |-> IF Stale(j) /\ Exhausted(j) THEN "failed" ELSE status[j]]
    /\ age' = [j \in Jobs |-> IF Stale(j) /\ Exhausted(j) THEN 0 ELSE age[j]]
    /\ UNCHANGED <<attempts, due>>

(* JobQueueRepo::reclaim_stale: one UPDATE over every stale row.            *)
ReclaimStale ==
    /\ status' = [j \in Jobs |->
                    IF ~Stale(j) THEN status[j]
                    ELSE IF Exhausted(j) THEN "failed" ELSE "pending"]
    /\ due' = [j \in Jobs |-> IF Stale(j) /\ ~Exhausted(j) THEN 0 ELSE due[j]]
    /\ age' = [j \in Jobs |-> IF Stale(j) THEN 0 ELSE age[j]]
    /\ UNCHANGED attempts

-----------------------------------------------------------------------------
(* The worker loop.                                                         *)

(* poll_once claims a job and enters process().                             *)
Dequeue(w, j) ==
    /\ pc[w] = "idle"
    /\ ClaimRow(j)
    /\ pc' = [pc EXCEPT ![w] = "handling"]
    /\ holding' = [holding EXCEPT ![w] = j]
    /\ UNCHANGED seen

(* The claim is applied but its reply is lost: poll_once returns Err and    *)
(* nobody works on the row it leased.                                       *)
DequeueReplyLost(w, j) ==
    /\ pc[w] = "idle"
    /\ ClaimRow(j)
    /\ UNCHANGED <<pc, holding, seen>>

(* dispatch returns Ok: only with the context the kind needs.               *)
HandlerOk(w) ==
    /\ pc[w] = "handling"
    /\ w \in Capable[holding[w]]
    /\ pc' = [pc EXCEPT ![w] = "completing"]
    /\ ok' = ok \cup {holding[w]}
    /\ UNCHANGED <<rows, holding, late>>

(* Mutant: the error is swallowed.                                          *)
HandlerErrSwallowed(w) ==
    /\ pc[w] = "handling"
    /\ pc' = [pc EXCEPT ![w] = "completing"]
    /\ UNCHANGED <<rows, holding, seen>>

(* dispatch returns Err: the handler failed, or the context is missing.     *)
HandlerErr(w) ==
    /\ pc[w] = "handling"
    /\ pc' = [pc EXCEPT ![w] = "failing"]
    /\ UNCHANGED <<rows, holding, seen>>

(* process() returns; the loop polls again.                                 *)
BackToPolling(w) ==
    /\ pc' = [pc EXCEPT ![w] = "idle"]
    /\ holding' = [holding EXCEPT ![w] = NoJob]
    /\ UNCHANGED seen

Complete(w) == pc[w] = "completing" /\ CompleteRow(holding[w]) /\ BackToPolling(w)

Fail(w) == pc[w] = "failing" /\ FailRow(holding[w]) /\ BackToPolling(w)

(* complete or fail returns a store error: process() only logs it.          *)
OutcomeLost(w) ==
    /\ pc[w] \in {"completing", "failing"}
    /\ UNCHANGED rows
    /\ BackToPolling(w)

(* The periodic reconcile_once, between two polls.                          *)
Reconcile(w) ==
    /\ pc[w] = "idle"
    /\ ReclaimStale
    /\ UNCHANGED <<pc, holding, seen>>

(* The worker's process dies in the middle of a job.  (Dying while idle     *)
(* changes nothing that outlives the process.)                              *)
Crash(w) ==
    /\ pc[w] \in InProcess
    /\ pc' = [pc EXCEPT ![w] = "down"]
    /\ holding' = [holding EXCEPT ![w] = NoJob]
    /\ UNCHANGED <<rows, seen>>

(* run() starts with a reconcile, whose failure it only logs.               *)
Restart(w) ==
    /\ pc[w] = "down"
    /\ pc' = [pc EXCEPT ![w] = "idle"]
    /\ ReclaimStale \/ UNCHANGED rows
    /\ UNCHANGED <<holding, seen>>

(* One unit of time.  The timeout "must exceed the longest expected job     *)
(* runtime" (reclaim_stale): a worker whose job takes longer is late.       *)
Tick ==
    /\ late' = (late \/ \E w \in Workers :
                            pc[w] \in InProcess /\ age[holding[w]] >= VisibilityTimeout)
    /\ due' = [j \in Jobs |->
                IF status[j] = "pending" /\ due[j] > -MaxLag THEN due[j] - 1
                ELSE due[j]]
    /\ age' = [j \in Jobs |->
                IF status[j] = "running" /\ age[j] <= VisibilityTimeout
                THEN age[j] + 1 ELSE age[j]]
    /\ UNCHANGED <<status, attempts, pc, holding, ok>>

WorkerStep(w) ==
    \/ \E j \in Jobs : Dequeue(w, j) \/ DequeueReplyLost(w, j)
    \/ HandlerOk(w) \/ HandlerErr(w)
    \/ Complete(w) \/ Fail(w) \/ OutcomeLost(w)
    \/ Reconcile(w) \/ Crash(w) \/ Restart(w)

Next ==
    \/ \E j \in Jobs : Enqueue(j)
    \/ \E w \in Workers : WorkerStep(w)
    \/ Tick

Spec == Init /\ [][Next]_vars

(* What the scheduling gives: time passes, a live worker keeps polling and  *)
(* reconciling, handlers return, dead workers are restarted.  Nothing is    *)
(* assumed of crashes, store errors or handler results.                     *)
Fairness ==
    /\ WF_vars(Tick)
    /\ \A w \in Workers :
        /\ WF_vars(\E j \in Jobs : Dequeue(w, j))
        /\ WF_vars(HandlerOk(w) \/ HandlerErr(w))
        /\ WF_vars(Complete(w) \/ Fail(w) \/ OutcomeLost(w))
        /\ WF_vars(Reconcile(w))
        /\ WF_vars(Restart(w))

FairSpec == Spec /\ Fairness

-----------------------------------------------------------------------------
(* Correctness.                                                             *)

(* A row is terminally failed only once every attempt was claimed, and a    *)
(* row that may be claimed again has an attempt left: max_attempts bounds   *)
(* the executions of a handler whatever crashes, reclaims and late outcomes *)
(* do to the row.                                                           *)
AttemptsAccounted == \A j \in Jobs :
    /\ status[j] = "failed" => attempts[j] = MaxAttempts
    /\ status[j] = "pending" => attempts[j] < MaxAttempts
    /\ status[j] = "running" => attempts[j] > 0

(* At least once: a job is done only if a handler run for it returned Ok,   *)
(* however many workers, reclaims and lost replies were involved.           *)
DoneMeansHandled == \A j \in Jobs : status[j] = "done" => j \in ok

(* As long as no live worker was late, FOR UPDATE SKIP LOCKED and the       *)
(* visibility timeout give each row one executor, which holds a running     *)
(* row.                                                                     *)
OneExecutor == late \/ \A v, w \in Workers :
    pc[w] \in InProcess =>
        /\ status[holding[w]] = "running"
        /\ (pc[v] \in InProcess /\ holding[v] = holding[w]) => v = w

(* "Mark a running job `done` (terminal, success)": a done row stays done,  *)
(* and a failed row stays failed, as long as no live worker was late.       *)
TerminalIsFinal ==
    [][\A j \in Jobs : ~late /\ status[j] \in Terminal => status'[j] = status[j]]_vars

(* "A crash loses throughput, never work": every enqueued job settles, in   *)
(* spite of crashes, lost outcomes, lost replies and failing handlers.      *)
EveryJobSettles == \A j \in Jobs : status[j] = "pending" ~> status[j] \in Terminal
=============================================================================

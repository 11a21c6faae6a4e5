--------------------------- MODULE JobQueue_proofs ---------------------------
(***************************************************************************)
(* Proofs about JobQueue for any number of jobs and workers, any timeouts    *)
(* and any attempt limit.                                                   *)
(***************************************************************************)
EXTENDS JobQueueRefines, TLAPS

(* A worker inside process() holds a real row, and the one that is about to *)
(* mark its row done has seen its handler return Ok.                        *)
HoldsAJob == \A w \in Workers :
    /\ pc[w] \in InProcess => holding[w] \in Jobs
    /\ pc[w] = "completing" => holding[w] \in ok

(* A row that is not enqueued yet has not been claimed.                     *)
FreshRows == \A j \in Jobs : status[j] = "none" => attempts[j] = 0

(* The invariant behind the accounting properties: workers may be late.     *)
AccountInv == TypeOK /\ AttemptsAccounted /\ DoneMeansHandled
                     /\ HoldsAJob /\ FreshRows

(* As long as nobody was late, a held row is running, its lease has not     *)
(* expired, and nobody else holds it.                                       *)
LeaseInv == late \/ \A w \in Workers : pc[w] \in InProcess =>
    /\ status[holding[w]] = "running"
    /\ age[holding[w]] <= VisibilityTimeout
    /\ \A v \in Workers :
        pc[v] \in InProcess /\ holding[v] = holding[w] => v = w

(* The delay of fail() is an integer.                                       *)
LEMMA BackoffType ==
    ASSUME TypeOK, NEW j \in Jobs
    PROVE  Backoff(j) \in Int
<1>1. attempts[j] \in 0..MaxAttempts
  BY DEF TypeOK
<1>2. (IF attempts[j] > 0 THEN attempts[j] - 1 ELSE 0) \in 0..MaxAttempts
  BY <1>1, ConstantsAssumption
<1>3. 2^(IF attempts[j] > 0 THEN attempts[j] - 1 ELSE 0) \in Nat
  BY <1>2, ConstantsAssumption
<1>4. QED
  BY <1>3, ConstantsAssumption DEF Backoff

-----------------------------------------------------------------------------
LEMMA AccountInit == Init => AccountInv
<1>1. Init => late \in BOOLEAN
  BY Zenon DEF Init
<1>2. QED
  BY <1>1, ConstantsAssumption
  DEF Init, AccountInv, TypeOK, AttemptsAccounted, DoneMeansHandled, HoldsAJob, FreshRows,
      Statuses, WorkerPcs, InProcess

LEMMA AccountNext == AccountInv /\ [Next]_vars => AccountInv'
<1> SUFFICES ASSUME AccountInv, [Next]_vars
             PROVE  AccountInv'
  OBVIOUS
<1> USE ConstantsAssumption
    DEF AccountInv, TypeOK, AttemptsAccounted, DoneMeansHandled, HoldsAJob, FreshRows,
        Statuses, WorkerPcs, InProcess, seen
<1>1. ASSUME NEW j \in Jobs, Enqueue(j)
      PROVE  AccountInv'
  BY <1>1 DEF Enqueue
<1>2. ASSUME NEW w \in Workers, NEW j \in Jobs, Dequeue(w, j)
      PROVE  AccountInv'
  BY <1>2 DEF Dequeue, ClaimRow, Oldest, Runnable
<1>3. ASSUME NEW w \in Workers, NEW j \in Jobs, DequeueReplyLost(w, j)
      PROVE  AccountInv'
  BY <1>3 DEF DequeueReplyLost, ClaimRow, Oldest, Runnable
<1>4. ASSUME NEW w \in Workers, HandlerOk(w)
      PROVE  AccountInv'
  BY <1>4 DEF HandlerOk, rows
<1>5. ASSUME NEW w \in Workers, HandlerErr(w)
      PROVE  AccountInv'
  BY <1>5 DEF HandlerErr, rows
<1>6. ASSUME NEW w \in Workers, Complete(w)
      PROVE  AccountInv'
  BY <1>6 DEF Complete, CompleteRow, BackToPolling
<1>7. ASSUME NEW w \in Workers, Fail(w)
      PROVE  AccountInv'
  <2>1. holding[w] \in Jobs
    BY <1>7 DEF Fail
  <2>2. Backoff(holding[w]) \in Int
    BY <2>1, BackoffType
  <2>3. QED
    BY <1>7, <2>1, <2>2 DEF Fail, FailRow, BackToPolling, Exhausted
<1>8. ASSUME NEW w \in Workers, OutcomeLost(w)
      PROVE  AccountInv'
  BY <1>8 DEF OutcomeLost, BackToPolling, rows
<1>9. ASSUME NEW w \in Workers, Reconcile(w)
      PROVE  AccountInv'
  BY <1>9 DEF Reconcile, ReclaimStale, Stale, Exhausted
<1>10. ASSUME NEW w \in Workers, Crash(w)
       PROVE  AccountInv'
  BY <1>10 DEF Crash, rows
<1>11. ASSUME NEW w \in Workers, Restart(w)
       PROVE  AccountInv'
  BY <1>11 DEF Restart, ReclaimStale, Stale, Exhausted, rows
<1>12. ASSUME Tick
       PROVE  AccountInv'
  BY <1>12 DEF Tick
<1>13. CASE UNCHANGED vars
  BY <1>13 DEF vars, rows
<1>14. QED
  BY <1>1, <1>2, <1>3, <1>4, <1>5, <1>6, <1>7, <1>8, <1>9, <1>10, <1>11,
     <1>12, <1>13 DEF Next, WorkerStep

(* Whatever crashes, lost replies and late outcomes do, the state is well   *)
(* typed, attempts are accounted for, and a done job was handled.           *)
THEOREM Accounting == Spec => [](TypeOK /\ AttemptsAccounted /\ DoneMeansHandled)
<1>1. Init => AccountInv
  BY AccountInit
<1>2. AccountInv /\ [Next]_vars => AccountInv'
  BY AccountNext
<1>3. AccountInv => TypeOK /\ AttemptsAccounted /\ DoneMeansHandled
  BY DEF AccountInv
<1>4. QED
  BY <1>1, <1>2, <1>3, PTL DEF Spec

(* In particular no row is ever claimed more often than MaxAttempts allows: *)
(* the bound on attempts is part of the type.                               *)
THEOREM QueueTyped == Spec => []TypeOK
BY Accounting, PTL

(* A done row was handled successfully by some worker: neither a reclaim    *)
(* nor a late report of another worker turns an unhandled row into done.    *)
THEOREM DoneWasHandled == Spec => []DoneMeansHandled
BY Accounting, PTL

-----------------------------------------------------------------------------
(* As long as no live worker is late, a step keeps every lease exclusive    *)
(* and unexpired.                                                           *)
LEMMA LeaseNext ==
    ASSUME AccountInv, LeaseInv, [Next]_vars, ~late
    PROVE  LeaseInv'
<1> USE ConstantsAssumption DEF AccountInv, TypeOK, HoldsAJob, LeaseInv, InProcess, seen
<1>1. ASSUME NEW j \in Jobs, Enqueue(j)
      PROVE  LeaseInv'
  BY <1>1 DEF Enqueue
<1>2. ASSUME NEW w \in Workers, NEW j \in Jobs, Dequeue(w, j)
      PROVE  LeaseInv'
  <2>1. status[j] = "pending"
    BY <1>2 DEF Dequeue, ClaimRow, Oldest, Runnable
  <2>2. \A v \in Workers : pc[v] \in InProcess => holding[v] # j
    BY <2>1
  <2>3. QED
    BY <1>2, <2>2 DEF Dequeue, ClaimRow
<1>3. ASSUME NEW w \in Workers, NEW j \in Jobs, DequeueReplyLost(w, j)
      PROVE  LeaseInv'
  BY <1>3 DEF DequeueReplyLost, ClaimRow, Oldest, Runnable
<1>4. ASSUME NEW w \in Workers, HandlerOk(w) \/ HandlerErr(w)
      PROVE  LeaseInv'
  BY <1>4 DEF HandlerOk, HandlerErr, rows
<1>5. ASSUME NEW w \in Workers, Complete(w)
      PROVE  LeaseInv'
  BY <1>5 DEF Complete, CompleteRow, BackToPolling
<1>6. ASSUME NEW w \in Workers, Fail(w)
      PROVE  LeaseInv'
  BY <1>6 DEF Fail, FailRow, BackToPolling
<1>7. ASSUME NEW w \in Workers, OutcomeLost(w) \/ Crash(w)
      PROVE  LeaseInv'
  BY <1>7 DEF OutcomeLost, Crash, BackToPolling, rows
<1>8. ASSUME NEW w \in Workers, Reconcile(w) \/ Restart(w)
      PROVE  LeaseInv'
  <2>1. \A v \in Workers : pc[v] \in InProcess => ~Stale(holding[v])
    BY DEF Stale
  <2>2. QED
    BY <1>8, <2>1 DEF Reconcile, Restart, ReclaimStale, rows
<1>9. ASSUME Tick
      PROVE  LeaseInv'
  <2>1. SUFFICES ASSUME ~late'
                 PROVE  LeaseInv'
    BY DEF LeaseInv
  <2>2. \A w \in Workers : pc[w] \in InProcess => ~(age[holding[w]] >= VisibilityTimeout)
    BY <1>9, <2>1 DEF Tick
  <2>3. QED
    BY <1>9, <2>2 DEF Tick
<1>10. CASE UNCHANGED vars
  BY <1>10 DEF vars, rows
<1>11. QED
  BY <1>1, <1>2, <1>3, <1>4, <1>5, <1>6, <1>7, <1>8, <1>9, <1>10
     DEF Next, WorkerStep

(* Under exclusive leases only the executor of a running row settles it, so *)
(* no step rewrites a settled row.                                          *)
LEMMA LeaseTerminal ==
    ASSUME AccountInv, LeaseInv, [Next]_vars, NEW j \in Jobs,
           ~late, status[j] \in Terminal
    PROVE  status'[j] = status[j]
<1> USE DEF AccountInv, TypeOK, HoldsAJob, LeaseInv, InProcess, Terminal
<1>1. CASE \E k \in Jobs : Enqueue(k)
  BY <1>1 DEF Enqueue
<1>2. ASSUME NEW w \in Workers, NEW k \in Jobs,
             Dequeue(w, k) \/ DequeueReplyLost(w, k)
      PROVE  status'[j] = status[j]
  BY <1>2 DEF Dequeue, DequeueReplyLost, ClaimRow, Oldest, Runnable
<1>3. ASSUME NEW w \in Workers,
             HandlerOk(w) \/ HandlerErr(w) \/ OutcomeLost(w) \/ Crash(w)
      PROVE  status'[j] = status[j]
  BY <1>3 DEF HandlerOk, HandlerErr, OutcomeLost, Crash, rows
<1>4. ASSUME NEW w \in Workers, Complete(w) \/ Fail(w)
      PROVE  status'[j] = status[j]
  BY <1>4 DEF Complete, CompleteRow, Fail, FailRow
<1>5. ASSUME NEW w \in Workers, Reconcile(w) \/ Restart(w)
      PROVE  status'[j] = status[j]
  BY <1>5 DEF Reconcile, Restart, ReclaimStale, Stale, rows
<1>6. CASE Tick \/ UNCHANGED vars
  BY <1>6 DEF Tick, vars, rows
<1>7. QED
  BY <1>1, <1>2, <1>3, <1>4, <1>5, <1>6 DEF Next, WorkerStep

(* Who was late stays late. *)
LEMMA LateStays == late /\ [Next]_vars => late'
  BY DEF Next, WorkerStep, Enqueue, Dequeue, DequeueReplyLost, HandlerOk, HandlerErr, Complete,
         Fail, OutcomeLost, Reconcile, Crash, Restart, BackToPolling, Tick, vars, seen

LEMMA LeaseHolds == AccountInv /\ LeaseInv /\ [Next]_vars => LeaseInv'
  BY LeaseNext, LateStays DEF LeaseInv

(* As long as no live worker was late, SKIP LOCKED claims and the           *)
(* visibility timeout give every row one executor at a time, and done and   *)
(* failed are final.                                                        *)
THEOREM ExclusiveLease == Spec => []OneExecutor /\ TerminalIsFinal
<1>1. Init => AccountInv /\ LeaseInv
  BY AccountInit DEF Init, LeaseInv, InProcess
<1>2. AccountInv /\ LeaseInv /\ [Next]_vars => (AccountInv /\ LeaseInv)'
  BY AccountNext, LeaseHolds
<1>3. AccountInv /\ LeaseInv => OneExecutor
  BY DEF LeaseInv, OneExecutor
<1>4. AccountInv /\ LeaseInv /\ [Next]_vars
        => [\A j \in Jobs : ~late /\ status[j] \in Terminal => status'[j] = status[j]]_vars
  BY LeaseTerminal
<1>5. QED
  BY <1>1, <1>2, <1>3, <1>4, PTL DEF Spec, TerminalIsFinal

(* As long as no live worker was late, complete, fail and reclaim_stale     *)
(* never touch a row that is done or has failed, although their WHERE       *)
(* clauses do not say so.                                                   *)
THEOREM SettledStaysSettled == Spec => TerminalIsFinal
  BY ExclusiveLease, PTL

-----------------------------------------------------------------------------
(* A step changes the row as the promise allows. *)
LEMMA PromiseStep ==
    ASSUME AccountInv, LeaseInv, ~late, [Next]_vars
    PROVE  [Promise!Next]_(Promise!jobVars)
<1> USE ConstantsAssumption, RowAssumption
    DEF AccountInv, TypeOK, HoldsAJob, LeaseInv, InProcess, Statuses, phaseOf,
        Promise!Next, Promise!jobVars
<1>1. ASSUME NEW j \in Jobs, Enqueue(j)
      PROVE  [Promise!Next]_(Promise!jobVars)
  BY <1>1 DEF Enqueue, Promise!Submit
<1>2. ASSUME NEW w \in Workers, NEW j \in Jobs,
             Dequeue(w, j) \/ DequeueReplyLost(w, j)
      PROVE  [Promise!Next]_(Promise!jobVars)
  BY <1>2 DEF Dequeue, DequeueReplyLost, ClaimRow, Oldest, Runnable, Promise!Claim
<1>3. ASSUME NEW w \in Workers,
             HandlerOk(w) \/ HandlerErr(w) \/ OutcomeLost(w) \/ Crash(w)
      PROVE  [Promise!Next]_(Promise!jobVars)
  BY <1>3 DEF HandlerOk, HandlerErr, OutcomeLost, Crash, rows
<1>4. ASSUME NEW w \in Workers, Complete(w)
      PROVE  [Promise!Next]_(Promise!jobVars)
  BY <1>4 DEF Complete, CompleteRow, Promise!Settle
<1>5. ASSUME NEW w \in Workers, Fail(w)
      PROVE  [Promise!Next]_(Promise!jobVars)
  BY <1>5 DEF Fail, FailRow, Exhausted, Promise!GiveBack
<1>6. ASSUME NEW w \in Workers, Reconcile(w) \/ Restart(w)
      PROVE  [Promise!Next]_(Promise!jobVars)
  BY <1>6 DEF Reconcile, Restart, ReclaimStale, Stale, Exhausted, rows,
              Promise!GiveBack
<1>7. CASE Tick \/ UNCHANGED vars
  BY <1>7 DEF Tick, vars, rows
<1>8. QED
  BY <1>1, <1>2, <1>3, <1>4, <1>5, <1>6, <1>7 DEF Next, WorkerStep

(* As long as no live worker was late, the queue behaves as the promise     *)
(* says, for any row.                                                       *)
THEOREM QueueKeepsPromise == Spec => KeepsPromise
<1>1. Init => AccountInv /\ LeaseInv /\ Promise!Init
  BY AccountInit, RowAssumption
     DEF Init, LeaseInv, InProcess, Promise!Init, phaseOf, Statuses
<1>2. AccountInv /\ LeaseInv /\ [Next]_vars => (AccountInv /\ LeaseInv)'
  BY AccountNext, LeaseHolds
<1>3. AccountInv /\ LeaseInv /\ [Next]_vars => [~late => Promise!Next]_(Promise!jobVars)
  BY PromiseStep
<1>4. QED
  BY <1>1, <1>2, <1>3, PTL DEF Spec, KeepsPromise

(* If no live worker is ever late, the queue implements the promise.        *)
THEOREM PromptQueueKeepsPromise == Spec /\ []~late => Promise!Spec
<1>1. ~late /\ [~late => Promise!Next]_(Promise!jobVars) => [Promise!Next]_(Promise!jobVars)
  OBVIOUS
<1>2. QED
  BY <1>1, QueueKeepsPromise, PTL DEF KeepsPromise, Promise!Spec
=============================================================================

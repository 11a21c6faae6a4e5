------------------------------ MODULE Scheduler ------------------------------
(***************************************************************************)
(* The clock scheduler (catalerum-ingest, ScheduleWorker): one per pod.     *)
(* Every tick it scans the window since its last tick for due occurrences   *)
(* of time-driven automations, claims each with a lock that is left to      *)
(* expire, and enqueues a job.  There is no other state: what a pod fires   *)
(* depends on its clock, on last_tick and on the lock (catalerum-bus).      *)
(*                                                                         *)
(* Times are whole seconds.  clock is the time of the lock service; a pod's *)
(* own clock is ahead of it by a fixed skew.                                *)
(***************************************************************************)
EXTENDS Integers, Sequences

CONSTANTS
    Pods,
    Autos,      \* enabled automations with a time-driven trigger
    Kind,       \* Kind[a]: what the trigger is
    Triggers,   \* cron, calendar: for each trigger of a, its instants
    Span,       \* graph, collect: the poll interval of a
    Skew,       \* Skew[p]: how far the clock of p is ahead
    MaxSkew,    \* inter-pod clock skew
    SleepTime,  \* ScheduleWorker::tick
    MaxPeriod,  \* bound: from the start of a scan to the end of the next
    FireTTL,    \* FIRE_LOCK_TTL
    Faults,     \* what can go wrong: "crash", "lock", "list", "enqueue"
    NoFire,
    Horizon     \* bound: how long time runs

Kinds    == {"cron", "calendar", "graph", "collect"}
Instants == 0..(Horizon + MaxSkew)
Fires    == Autos \X Instants

ASSUME SchedulerAssumption ==
    /\ Kind \in [Autos -> Kinds]
    /\ \A a \in Autos : Kind[a] \in {"cron", "calendar"} => Triggers[a] \in Seq(SUBSET Nat)
    /\ \A a \in Autos : Kind[a] \in {"graph", "collect"} => Span[a] \in Nat \ {0}
    /\ MaxSkew \in Nat /\ Skew \in [Pods -> 0..MaxSkew]
    /\ SleepTime \in Nat \ {0} /\ MaxPeriod \in Nat /\ FireTTL \in Nat \ {0}
    /\ NoFire \notin Fires
    /\ Horizon \in Nat

(* FIRE_LOCK_TTL is "generous vs. inter-pod clock skew / tick lag".         *)
Generous == MaxPeriod + MaxSkew <= FireTTL

VARIABLES
    clock,
    pc,         \* "asleep", "scan" or "down"
    lastTick,   \* self.last_tick
    scanNow,    \* the `now` of the scan under way
    todo,       \* the due occurrences the scan has yet to treat
    claim,      \* the occurrence it has claimed and not enqueued, or NoFire
    lockUntil,  \* the lock service: when the claim of an occurrence expires
    jobs,       \* how many jobs were enqueued for an occurrence
    failed      \* observed: whether something has gone wrong

podVars == <<pc, lastTick, scanNow, todo, claim>>
vars    == <<clock, podVars, lockUntil, jobs, failed>>

PodClock(p) == clock + Skew[p]

TypeOK ==
    /\ clock \in 0..Horizon
    /\ pc \in [Pods -> {"asleep", "scan", "down"}]
    /\ lastTick \in [Pods -> Instants]
    /\ scanNow \in [Pods -> Instants]
    /\ todo \in [Pods -> SUBSET Fires]
    /\ claim \in [Pods -> Fires \cup {NoFire}]
    /\ lockUntil \in [Fires -> Nat]
    /\ jobs \in [Fires -> Nat]
    /\ failed \in BOOLEAN

Init ==
    /\ clock = 0
    /\ pc = [p \in Pods |-> "asleep"]
    /\ lastTick = [p \in Pods |-> PodClock(p)]
    /\ scanNow = [p \in Pods |-> PodClock(p)]
    /\ todo = [p \in Pods |-> {}]
    /\ claim = [p \in Pods |-> NoFire]
    /\ lockUntil = [f \in Fires |-> 0]
    /\ jobs = [f \in Fires |-> 0]
    /\ failed = FALSE

-----------------------------------------------------------------------------
(* What is due.                                                             *)

(* due_occurrence: the first instant of the trigger in (after, now].        *)
DueOccurrence(trigger, after, now) ==
    {t \in trigger : after < t /\ t <= now /\ \A u \in trigger : after < u => t <= u}

(* first_due: of the first trigger that has one.                            *)
FirstDue(a, after, now) ==
    UNION {DueOccurrence(Triggers[a][i], after, now) : i \in
            {k \in DOMAIN Triggers[a] :
                \A j \in 1..(k - 1) : DueOccurrence(Triggers[a][j], after, now) = {}}}

(* Mutant: the window is open on both sides.                                *)
DueEventsOpen(a, after, now) ==
    {t \in (IF Triggers[a] = <<>> THEN {} ELSE Head(Triggers[a])) : after < t /\ t < now}

(* The lead instants in [after, now) of the events of the first trigger.    *)
DueEvents(a, after, now) ==
    {t \in (IF Triggers[a] = <<>> THEN {} ELSE Head(Triggers[a])) : after <= t /\ t < now}

(* due_bucket: the start of the bucket that now has crossed into.           *)
DueBucket(span, after, now) ==
    IF now \div span > after \div span THEN {(now \div span) * span} ELSE {}

Due(a, after, now) ==
    CASE Kind[a] = "cron"     -> FirstDue(a, after, now)
      [] Kind[a] = "calendar" -> DueEvents(a, after, now)
      [] OTHER                -> DueBucket(Span[a], after, now)

-----------------------------------------------------------------------------
(* The loop of a scheduler.                                                 *)

Wake(p) ==
    /\ pc[p] = "asleep"
    /\ PodClock(p) >= lastTick[p] + SleepTime
    /\ pc' = [pc EXCEPT ![p] = "scan"]
    /\ scanNow' = [scanNow EXCEPT ![p] = PodClock(p)]
    /\ todo' = [todo EXCEPT ![p] =
                    {f \in Fires : f[2] \in Due(f[1], lastTick[p], PodClock(p))}]
    /\ UNCHANGED <<clock, lastTick, claim, lockUntil, jobs, failed>>

(* The scans follow each other, one per kind.                               *)
Rank(f) == CASE Kind[f[1]] = "cron"     -> 1
             [] Kind[f[1]] = "calendar" -> 2
             [] Kind[f[1]] = "graph"    -> 3
             [] OTHER                   -> 4

Treating(p, f) ==
    /\ pc[p] = "scan"
    /\ f \in todo[p]
    /\ \A g \in todo[p] : Rank(f) <= Rank(g)

(* try_acquire                                                              *)
LockFree(f) == lockUntil[f] <= clock

TakeLock(f) == lockUntil' = [lockUntil EXCEPT ![f] = clock + FireTTL]

Claim(p, f) ==
    /\ Treating(p, f) /\ claim[p] = NoFire
    /\ LockFree(f)
    /\ TakeLock(f)
    /\ claim' = [claim EXCEPT ![p] = f]
    /\ UNCHANGED <<clock, pc, lastTick, scanNow, todo, jobs, failed>>

(* Another pod has claimed it: continue.                                    *)
AlreadyClaimed(p, f) ==
    /\ Treating(p, f) /\ claim[p] = NoFire
    /\ ~LockFree(f)
    /\ todo' = [todo EXCEPT ![p] = @ \ {f}]
    /\ UNCHANGED <<clock, pc, lastTick, scanNow, claim, lockUntil, jobs, failed>>

(* try_acquire fails, and may yet have taken the lock: continue.            *)
LockError(p, f) ==
    /\ "lock" \in Faults
    /\ Treating(p, f) /\ claim[p] = NoFire
    /\ UNCHANGED lockUntil \/ (LockFree(f) /\ TakeLock(f))
    /\ todo' = [todo EXCEPT ![p] = @ \ {f}]
    /\ UNCHANGED <<clock, pc, lastTick, scanNow, claim, jobs>>
    /\ failed' = TRUE

(* What is left of the scans when that of f's kind is given up.             *)
Beyond(p, f) == {g \in todo[p] : Rank(g) # Rank(f)}

(* The `?` of the reads of workspaces, automations and events.              *)
ListError(p, f) ==
    /\ "list" \in Faults
    /\ Treating(p, f) /\ claim[p] = NoFire
    /\ todo' = [todo EXCEPT ![p] = Beyond(p, f)]
    /\ UNCHANGED <<clock, pc, lastTick, scanNow, claim, lockUntil, jobs>>
    /\ failed' = TRUE

(* The claimed occurrence is through; todo is what the scan has left.       *)
Treated(p, left) ==
    /\ claim[p] # NoFire
    /\ claim' = [claim EXCEPT ![p] = NoFire]
    /\ todo' = [todo EXCEPT ![p] = left]
    /\ UNCHANGED <<clock, pc, lastTick, scanNow, lockUntil>>

EnqueueJob(p) == jobs' = [jobs EXCEPT ![claim[p]] = @ + 1]

Enqueue(p) == Treated(p, todo[p] \ {claim[p]}) /\ EnqueueJob(p) /\ UNCHANGED failed

(* The graph query has no rows, or cannot be evaluated: continue.           *)
PollMisses(p) ==
    /\ Treated(p, todo[p] \ {claim[p]})
    /\ Kind[claim[p][1]] = "graph"
    /\ UNCHANGED <<jobs, failed>>

(* The enqueue fails, and may yet have inserted the row.  Only the collect  *)
(* scan goes on.                                                            *)
EnqueueError(p) ==
    /\ "enqueue" \in Faults
    /\ Treated(p, IF Kind[claim[p][1]] = "collect" THEN todo[p] \ {claim[p]}
                                                   ELSE Beyond(p, claim[p]))
    /\ EnqueueJob(p) \/ UNCHANGED jobs
    /\ failed' = TRUE

(* Mutant: last_tick is the next tick.                                      *)
EndScanAhead(p) ==
    /\ pc[p] = "scan" /\ todo[p] = {}
    /\ lastTick' = [lastTick EXCEPT ![p] = scanNow[p] + SleepTime]
    /\ pc' = [pc EXCEPT ![p] = "asleep"]
    /\ UNCHANGED <<clock, scanNow, todo, claim, lockUntil, jobs, failed>>

(* last_tick advances, whether or not the scans succeeded.                  *)
EndScan(p) ==
    /\ pc[p] = "scan" /\ todo[p] = {}
    /\ lastTick' = [lastTick EXCEPT ![p] = scanNow[p]]
    /\ pc' = [pc EXCEPT ![p] = "asleep"]
    /\ UNCHANGED <<clock, scanNow, todo, claim, lockUntil, jobs, failed>>

Crash(p) ==
    /\ "crash" \in Faults
    /\ pc[p] # "down"
    /\ pc' = [pc EXCEPT ![p] = "down"]
    /\ todo' = [todo EXCEPT ![p] = {}]
    /\ claim' = [claim EXCEPT ![p] = NoFire]
    /\ UNCHANGED <<clock, lastTick, scanNow, lockUntil, jobs>>
    /\ failed' = TRUE

(* Mutant: last_tick is durable, and a restart catches up.                  *)
RestartCatchesUp(p) ==
    /\ pc[p] = "down"
    /\ pc' = [pc EXCEPT ![p] = "asleep"]
    /\ UNCHANGED <<clock, lastTick, scanNow, todo, claim, lockUntil, jobs, failed>>

(* ScheduleWorker::new: no catch-up.                                        *)
Restart(p) ==
    /\ pc[p] = "down"
    /\ pc' = [pc EXCEPT ![p] = "asleep"]
    /\ lastTick' = [lastTick EXCEPT ![p] = PodClock(p)]
    /\ UNCHANGED <<clock, scanNow, todo, claim, lockUntil, jobs, failed>>

(* Time passes; a live scheduler completes its next scan within MaxPeriod.  *)
Tick ==
    /\ clock < Horizon
    /\ \A p \in Pods : pc[p] # "down" => PodClock(p) + 1 - lastTick[p] <= MaxPeriod
    /\ clock' = clock + 1
    /\ UNCHANGED <<podVars, lockUntil, jobs, failed>>

PodStep(p) ==
    \/ Wake(p) \/ EndScan(p)
    \/ \E f \in todo[p] : Claim(p, f) \/ AlreadyClaimed(p, f) \/ LockError(p, f) \/ ListError(p, f)
    \/ Enqueue(p) \/ PollMisses(p) \/ EnqueueError(p)
    \/ Crash(p) \/ Restart(p)

Next == Tick \/ \E p \in Pods : PodStep(p)

Spec == Init /\ [][Next]_vars

-----------------------------------------------------------------------------
(* "exactly one pod enqueues it": no occurrence is ever enqueued twice, by  *)
(* whichever pods, over crashes, lock errors and lost replies, although the *)
(* claim expires and no pod remembers what it fired.                        *)
SingleFire == \A f \in Fires : jobs[f] <= 1

(* "no double-fire and no gap": as long as nothing has gone wrong, a cron   *)
(* occurrence or a reminder that the window of a scheduler has passed was   *)
(* enqueued, or is about to be.                                             *)
EveryOccurrenceFires == failed \/ \A p \in Pods : \A a \in Autos : \A t \in Instants :
    LET occurs == /\ Kind[a] \in {"cron", "calendar"}
                  /\ \E i \in DOMAIN Triggers[a] : t \in Triggers[a][i]
        passed == IF Kind[a] = "cron" THEN t <= lastTick[p] ELSE t < lastTick[p]
        since  == t > Skew[p]
    IN  occurs /\ passed /\ since =>
            jobs[<<a, t>>] > 0 \/ \E q \in Pods : claim[q] = <<a, t>>
=============================================================================

-------------------------- MODULE Scheduler_proofs --------------------------
(***************************************************************************)
(* No occurrence is enqueued twice: for any pods, automations, clock skews  *)
(* and faults, when the lock's TTL covers a scheduler's period and the skew. *)
(***************************************************************************)
EXTENDS Scheduler, WellFoundedInduction, TLAPS

(* The first second whose windows contain the occurrence: those of the      *)
(* calendar scan are closed on the left.                                    *)
At(f) == IF Kind[f[1]] = "calendar" THEN f[2] + 1 ELSE f[2]

(* A live scheduler's window reaches back at most MaxPeriod.                *)
WindowsAreShort == \A p \in Pods :
    /\ pc[p] # "down" => PodClock(p) - lastTick[p] <= MaxPeriod
    /\ pc[p] = "scan" => lastTick[p] <= scanNow[p]

(* What a scan has left to treat lies in its window.                        *)
TodoIsDue == \A p \in Pods : \A f \in todo[p] :
    pc[p] = "scan" /\ lastTick[p] < At(f) /\ At(f) <= PodClock(p)

(* A claimed occurrence is claimed by one pod, and not enqueued yet.        *)
ClaimsAreUnique == \A p \in Pods : claim[p] # NoFire =>
    /\ claim[p] \in todo[p]
    /\ lockUntil[claim[p]] > 0 /\ jobs[claim[p]] = 0
    /\ \A q \in Pods : claim[q] = claim[p] => q = p

(* An occurrence is claimed before it is enqueued, and never before it is   *)
(* due on the clock of some pod: its lock outlives every window it is in.   *)
LocksOutlive == \A f \in Fires :
    /\ lockUntil[f] > 0 => At(f) + FireTTL <= lockUntil[f] + MaxSkew
    /\ jobs[f] > 0 => lockUntil[f] > 0

FireInv == TypeOK /\ SingleFire /\ WindowsAreShort /\ TodoIsDue
                  /\ ClaimsAreUnique /\ LocksOutlive

-----------------------------------------------------------------------------
(* The start of the bucket that now has crossed into lies in (after, now].  *)
LEMMA BucketInWindow ==
    ASSUME NEW span \in Nat \ {0}, NEW after \in Nat, NEW now \in Nat,
           NEW t \in DueBucket(span, after, now)
    PROVE  after < t /\ t <= now
<1> DEFINE n == now \div span
           m == after \div span
<1>1. n \in Int /\ m \in Int /\ n > m /\ t = n * span
  BY DEF DueBucket
<1>2. n * span <= now /\ after < m * span + span
  BY SMT
<1>3. m * span + span <= n * span
  <2>1. n - m - 1 \in Nat
    BY <1>1
  <2>2. (n - m - 1) * span >= 0
    BY <2>1
  <2>3. (n - m - 1) * span = n * span - m * span - span
    BY <1>1
  <2>4. n * span \in Int /\ m * span \in Int
    BY <1>1
  <2>5. QED
    BY <2>2, <2>3, <2>4
<1>4. n * span \in Int /\ m * span \in Int
  BY <1>1
<1>5. QED
  BY <1>1, <1>2, <1>3, <1>4

(* What is due lies in the window, on the side the kind's scan closes.      *)
LEMMA DueInWindow ==
    ASSUME NEW f \in Fires, NEW after \in Nat, NEW now \in Nat,
           f[2] \in Due(f[1], after, now)
    PROVE  after < At(f) /\ At(f) <= now
<1>1. f[1] \in Autos /\ f[2] \in Int
  BY SchedulerAssumption DEF Fires, Instants
<1>2. CASE Kind[f[1]] = "cron"
  <2>1. f[2] \in FirstDue(f[1], after, now)
    BY <1>2 DEF Due
  <2>2. after < f[2] /\ f[2] <= now
    BY <2>1 DEF FirstDue, DueOccurrence
  <2>3. QED
    BY <1>2, <2>2 DEF At
<1>3. CASE Kind[f[1]] = "calendar"
  <2>1. f[2] \in DueEvents(f[1], after, now)
    BY <1>3 DEF Due
  <2>2. after <= f[2] /\ f[2] < now
    BY <2>1 DEF DueEvents
  <2>3. QED
    BY <1>1, <1>3, <2>2 DEF At
<1>4. CASE Kind[f[1]] \in {"graph", "collect"}
  <2>1. f[2] \in DueBucket(Span[f[1]], after, now) /\ Span[f[1]] \in Nat \ {0}
    BY <1>1, <1>4, SchedulerAssumption DEF Due
  <2>2. QED
    BY <1>4, <2>1, BucketInWindow DEF At
<1>5. QED
  BY <1>1, <1>2, <1>3, <1>4, SchedulerAssumption DEF Kinds

(* The clock of a pod, and the instant an occurrence is due at.             *)
LEMMA PodClockType ==
    ASSUME clock \in 0..Horizon, NEW p \in Pods
    PROVE  PodClock(p) \in Instants /\ Skew[p] \in 0..MaxSkew
<1>1. Skew[p] \in 0..MaxSkew
  BY SchedulerAssumption
<1>2. MaxSkew \in Nat /\ Horizon \in Nat
  BY SchedulerAssumption
<1>3. QED
  BY <1>1, <1>2 DEF PodClock, Instants

LEMMA AtType == ASSUME NEW f \in Fires PROVE At(f) \in Nat
<1>1. f[2] \in Nat
  BY SchedulerAssumption DEF Fires, Instants
<1>2. QED
  BY <1>1 DEF At

LEMMA FireInit == Init => FireInv
<1> SUFFICES ASSUME Init PROVE FireInv
  OBVIOUS
<1>0. clock \in 0..Horizon
  BY SchedulerAssumption DEF Init
<1>1. \A p \in Pods : PodClock(p) \in Instants
  BY <1>0, PodClockType
<1>b. failed \in BOOLEAN
  BY Zenon DEF Init
<1>2. TypeOK
  BY <1>1, <1>b, SchedulerAssumption DEF Init, TypeOK
<1>3. WindowsAreShort
  <2> SUFFICES ASSUME NEW p \in Pods
               PROVE  PodClock(p) - lastTick[p] <= MaxPeriod /\ pc[p] # "scan"
    BY DEF WindowsAreShort
  <2>1. PodClock(p) \in Int /\ MaxPeriod \in Nat
    BY <1>1, SchedulerAssumption DEF Instants
  <2>2. lastTick[p] = PodClock(p) /\ pc[p] = "asleep"
    BY DEF Init
  <2>3. QED
    BY <2>1, <2>2
<1>4. QED
  BY <1>2, <1>3, SchedulerAssumption
  DEF Init, FireInv, SingleFire, TodoIsDue, ClaimsAreUnique, LocksOutlive

-----------------------------------------------------------------------------
(* The heart of the matter: an occurrence that a scan has left to treat and *)
(* whose lock is free has never been claimed before.                        *)
LEMMA FirstClaim ==
    ASSUME Generous, FireInv, NEW p \in Pods, NEW f \in todo[p], LockFree(f)
    PROVE  lockUntil[f] = 0
<1>1. f \in Fires /\ pc[p] = "scan"
  BY DEF FireInv, TypeOK, TodoIsDue
<1>2. At(f) \in Nat /\ PodClock(p) \in Instants /\ Skew[p] \in 0..MaxSkew
  BY <1>1, AtType, PodClockType DEF FireInv, TypeOK
<1>3. clock \in Nat /\ lastTick[p] \in Nat /\ lockUntil[f] \in Nat
  BY <1>1, SchedulerAssumption DEF FireInv, TypeOK, Instants
<1>4. SUFFICES ASSUME lockUntil[f] > 0 PROVE FALSE
  BY <1>3
<1>5. At(f) + FireTTL <= lockUntil[f] + MaxSkew
  BY <1>1, <1>4 DEF FireInv, LocksOutlive
<1>6. lastTick[p] < At(f)
  BY DEF FireInv, TodoIsDue
<1>7. clock + Skew[p] - lastTick[p] <= MaxPeriod
  <2>1. PodClock(p) - lastTick[p] <= MaxPeriod
    BY <1>1 DEF FireInv, WindowsAreShort
  <2>2. QED
    BY <1>2, <1>3, <2>1, SchedulerAssumption DEF PodClock
<1>8. lockUntil[f] <= clock
  BY DEF LockFree
<1>9. QED
  BY <1>2, <1>3, <1>5, <1>6, <1>7, <1>8, SchedulerAssumption, SMTT(30) DEF Generous

(* Taking the lock of an occurrence in the window makes it outlive it.      *)
LEMMA TakenLockOutlives ==
    ASSUME Generous, FireInv, NEW p \in Pods, NEW f \in todo[p], LockFree(f), TakeLock(f),
           UNCHANGED jobs
    PROVE  LocksOutlive' /\ lockUntil' \in [Fires -> Nat] /\ lockUntil'[f] > 0
<1>1. f \in Fires /\ At(f) <= PodClock(p)
  BY DEF FireInv, TypeOK, TodoIsDue
<1>2. At(f) \in Nat /\ Skew[p] \in 0..MaxSkew /\ clock \in Nat
  BY <1>1, AtType, PodClockType DEF FireInv, TypeOK
<1>3. lockUntil'[f] = clock + FireTTL /\ clock + FireTTL \in Nat /\ clock + FireTTL > 0
  BY <1>1, <1>2, SchedulerAssumption DEF TakeLock, FireInv, TypeOK
<1>4. At(f) + FireTTL <= lockUntil'[f] + MaxSkew
  BY <1>1, <1>2, <1>3, SchedulerAssumption DEF PodClock
<1>5. \A g \in Fires : At(g)' = At(g)
  BY DEF At
<1>6. QED
  BY <1>1, <1>3, <1>4, <1>5 DEF FireInv, TypeOK, LocksOutlive, TakeLock

LEMMA FireNext == ASSUME Generous PROVE FireInv /\ [Next]_vars => FireInv'
<1> SUFFICES ASSUME FireInv, [Next]_vars
             PROVE  FireInv'
  OBVIOUS
<1> USE DEF FireInv
<1>a. \A p \in Pods : PodClock(p) \in Nat /\ lastTick[p] \in Nat /\ scanNow[p] \in Nat
                      /\ PodClock(p) \in Instants
  BY PodClockType, SchedulerAssumption DEF TypeOK, Instants
<1>1. ASSUME NEW p \in Pods, Wake(p)
      PROVE  FireInv'
  <2> DEFINE due == {f \in Fires : f[2] \in Due(f[1], lastTick[p], PodClock(p))}
  <2> USE <1>1 DEF Wake
  <2>1. todo[p] = {} /\ todo' = [todo EXCEPT ![p] = due]
    BY DEF TodoIsDue
  <2>2. \A f \in due : lastTick[p] < At(f) /\ At(f) <= PodClock(p)
    BY <1>a, DueInWindow
  <2>3. \A q \in Pods : PodClock(q)' = PodClock(q)
    BY DEF PodClock
  <2>4. TypeOK'
    BY <1>a, <2>1 DEF TypeOK
  <2>5. SingleFire' /\ LocksOutlive'
    BY DEF SingleFire, LocksOutlive, At
  <2>6. WindowsAreShort'
    BY <1>a, <2>3, SchedulerAssumption DEF WindowsAreShort, TypeOK
  <2>7. TodoIsDue'
    BY <2>1, <2>2, <2>3 DEF TodoIsDue, TypeOK, At
  <2>8. ClaimsAreUnique'
    BY <2>1 DEF ClaimsAreUnique, TypeOK
  <2>9. QED
    BY <2>4, <2>5, <2>6, <2>7, <2>8
<1>2. ASSUME NEW p \in Pods, EndScan(p)
      PROVE  FireInv'
  <2> USE <1>2 DEF EndScan
  <2>1. \A q \in Pods : PodClock(q)' = PodClock(q)
    BY DEF PodClock
  <2>2. TypeOK'
    BY DEF TypeOK
  <2>3. WindowsAreShort'
    BY <1>a, <2>1, SchedulerAssumption DEF WindowsAreShort, TypeOK
  <2>4. TodoIsDue'
    BY <2>1 DEF TodoIsDue, TypeOK, At
  <2>5. QED
    BY <2>2, <2>3, <2>4 DEF SingleFire, LocksOutlive, ClaimsAreUnique, At
<1>3. ASSUME NEW p \in Pods, NEW f \in todo[p], Claim(p, f)
      PROVE  FireInv'
  <2> USE <1>3 DEF Claim
  <2>1. lockUntil[f] = 0 /\ f \in Fires
    BY FirstClaim DEF TypeOK
  <2>2. LocksOutlive' /\ lockUntil' \in [Fires -> Nat] /\ lockUntil'[f] > 0
    BY TakenLockOutlives
  <2>3. TypeOK' /\ SingleFire'
    BY <2>1, <2>2 DEF TypeOK, SingleFire
  <2>4. WindowsAreShort' /\ TodoIsDue'
    BY DEF WindowsAreShort, TodoIsDue, PodClock, At
  <2>5. jobs[f] = 0 /\ \A q \in Pods : claim[q] # f
    <3>1. f # NoFire
      BY <2>1, SchedulerAssumption
    <3>2. jobs[f] \in Nat /\ ~(jobs[f] > 0)
      BY <2>1 DEF LocksOutlive, TypeOK
    <3>3. QED
      BY <2>1, <3>1, <3>2 DEF ClaimsAreUnique
  <2>6. ClaimsAreUnique'
    BY <2>1, <2>2, <2>5 DEF ClaimsAreUnique, TypeOK, TakeLock
  <2>7. QED
    BY <2>2, <2>3, <2>4, <2>6
<1>4. ASSUME NEW p \in Pods, NEW f \in todo[p], AlreadyClaimed(p, f) \/ ListError(p, f)
      PROVE  FireInv'
  <2>1. /\ UNCHANGED <<clock, pc, lastTick, scanNow, claim, lockUntil, jobs>>
        /\ claim[p] = NoFire
        /\ todo' \in [Pods -> SUBSET Fires]
        /\ \A q \in Pods : todo'[q] \subseteq todo[q] /\ (q # p => todo'[q] = todo[q])
    BY <1>4 DEF AlreadyClaimed, ListError, Beyond, TypeOK
  <2>b. failed' \in BOOLEAN
    BY <1>4, Zenon DEF AlreadyClaimed, ListError, TypeOK
  <2>2. QED
    BY <2>1, <2>b DEF TypeOK, SingleFire, WindowsAreShort, TodoIsDue, ClaimsAreUnique, LocksOutlive,
                PodClock, At
<1>5. ASSUME NEW p \in Pods, NEW f \in todo[p], LockError(p, f)
      PROVE  FireInv'
  <2> USE <1>5 DEF LockError
  <2>1. LocksOutlive' /\ lockUntil' \in [Fires -> Nat]
                      /\ \A g \in Fires : lockUntil[g] > 0 => lockUntil'[g] > 0
    <3>1. CASE UNCHANGED lockUntil
      BY <3>1 DEF LocksOutlive, At, TypeOK
    <3>2. CASE LockFree(f) /\ TakeLock(f)
      BY <3>2, TakenLockOutlives DEF TakeLock, TypeOK
    <3>3. QED
      BY <3>1, <3>2
  <2>2. TypeOK' /\ SingleFire'
    BY <2>1 DEF TypeOK, SingleFire
  <2>3. WindowsAreShort' /\ TodoIsDue'
    BY DEF WindowsAreShort, TodoIsDue, PodClock, At, TypeOK
  <2>4. ClaimsAreUnique'
    BY <2>1 DEF ClaimsAreUnique, TypeOK
  <2>5. QED
    BY <2>1, <2>2, <2>3, <2>4
<1>6. ASSUME NEW p \in Pods, Enqueue(p) \/ PollMisses(p) \/ EnqueueError(p)
      PROVE  FireInv'
  <2>1. /\ claim[p] # NoFire
        /\ claim' = [claim EXCEPT ![p] = NoFire]
        /\ UNCHANGED <<clock, pc, lastTick, scanNow, lockUntil>>
        /\ todo' \in [Pods -> SUBSET Fires]
        /\ \A q \in Pods : todo'[q] \subseteq todo[q] /\ (q # p => todo'[q] = todo[q])
    BY <1>6 DEF Enqueue, PollMisses, EnqueueError, Treated, Beyond, TypeOK
  <2>2. claim[p] \in Fires /\ lockUntil[claim[p]] > 0 /\ jobs[claim[p]] = 0
    BY <2>1 DEF ClaimsAreUnique, TypeOK
  <2>3. jobs' = jobs \/ jobs' = [jobs EXCEPT ![claim[p]] = @ + 1]
    BY <1>6 DEF Enqueue, PollMisses, EnqueueError, EnqueueJob
  <2>b. failed' \in BOOLEAN
    BY <1>6, Zenon DEF Enqueue, PollMisses, EnqueueError, TypeOK
  <2>4. TypeOK' /\ SingleFire' /\ LocksOutlive'
    BY <2>1, <2>2, <2>3, <2>b DEF TypeOK, SingleFire, LocksOutlive, At
  <2>5. WindowsAreShort' /\ TodoIsDue'
    BY <2>1 DEF WindowsAreShort, TodoIsDue, PodClock, At, TypeOK
  <2>6. ClaimsAreUnique'
    BY <2>1, <2>2, <2>3 DEF ClaimsAreUnique, TypeOK
  <2>7. QED
    BY <2>4, <2>5, <2>6
<1>7. ASSUME NEW p \in Pods, Crash(p)
      PROVE  FireInv'
  BY <1>7 DEF Crash, TypeOK, SingleFire, WindowsAreShort, TodoIsDue, ClaimsAreUnique,
              LocksOutlive, PodClock, At
<1>8. ASSUME NEW p \in Pods, Restart(p)
      PROVE  FireInv'
  <2> USE <1>8 DEF Restart
  <2>1. \A q \in Pods : PodClock(q)' = PodClock(q)
    BY DEF PodClock
  <2>2. TypeOK'
    BY <1>a DEF TypeOK
  <2>3. WindowsAreShort'
    BY <1>a, <2>1, SchedulerAssumption DEF WindowsAreShort, TypeOK
  <2>4. TodoIsDue'
    BY <2>1 DEF TodoIsDue, TypeOK, At
  <2>5. QED
    BY <2>2, <2>3, <2>4 DEF SingleFire, LocksOutlive, ClaimsAreUnique, At
<1>9. ASSUME Tick
      PROVE  FireInv'
  <2> USE <1>9 DEF Tick, podVars
  <2>1. \A q \in Pods : PodClock(q)' = PodClock(q) + 1
    BY SchedulerAssumption DEF PodClock, TypeOK
  <2>2. TypeOK'
    BY SchedulerAssumption DEF TypeOK
  <2>3. WindowsAreShort'
    BY <1>a, <2>1, SchedulerAssumption DEF WindowsAreShort
  <2>4. TodoIsDue'
    <3>1. ASSUME NEW q \in Pods, NEW f \in todo[q] PROVE At(f) \in Nat
      BY AtType DEF TypeOK
    <3>2. QED
      BY <1>a, <2>1, <3>1 DEF TodoIsDue, At
  <2>5. QED
    BY <2>2, <2>3, <2>4 DEF SingleFire, LocksOutlive, ClaimsAreUnique, At
<1>10. CASE UNCHANGED vars
  BY <1>10 DEF vars, podVars, TypeOK, SingleFire, WindowsAreShort, TodoIsDue, ClaimsAreUnique,
               LocksOutlive, PodClock, At
<1>11. QED
  BY <1>1, <1>2, <1>3, <1>4, <1>5, <1>6, <1>7, <1>8, <1>9, <1>10 DEF Next, PodStep

(* Every reachable state of the clock loops and of the locks is well typed. *)
THEOREM SchedulerTypes ==
    ASSUME Generous PROVE Spec => []TypeOK
<1>1. FireInv => TypeOK
  BY DEF FireInv
<1>2. QED
  BY FireInit, FireNext, <1>1, PTL DEF Spec

(* No occurrence is enqueued twice, over any number of pods, scans, crashes *)
(* and errors, as long as the claim outlives period and skew.               *)
THEOREM SchedulerSingleFires ==
    ASSUME Generous PROVE Spec => []SingleFire
<1>1. Init => FireInv
  BY FireInit
<1>2. FireInv /\ [Next]_vars => FireInv'
  BY FireNext
<1>3. FireInv => SingleFire
  BY DEF FireInv
<1>4. QED
  BY <1>1, <1>2, <1>3, PTL DEF Spec

-----------------------------------------------------------------------------
(* No gap.  As long as nothing goes wrong, every occurrence of a cron or of *)
(* a reminder that a window passes is enqueued, when a window holds one of  *)
(* them at most.                                                            *)
Timed(a) == Kind[a] \in {"cron", "calendar"}

Occurs(a, t) == \E i \in DOMAIN Triggers[a] : t \in Triggers[a][i]

(* first_due takes one instant of a window, and scan_calendar looks at the  *)
(* first trigger: the instants of a cron are a period or more apart, and a  *)
(* reminder has one trigger.                                                *)
Sparse ==
    /\ \A a \in Autos : Kind[a] = "cron" =>
          \A t, u \in Nat : Occurs(a, t) /\ Occurs(a, u) /\ t < u => u - t >= MaxPeriod
    /\ \A a \in Autos : Kind[a] = "calendar" => Len(Triggers[a]) = 1

Covered(f) == jobs[f] > 0 \/ \E q \in Pods : claim[q] = f

(* Everything behind a window is covered, what is inside is covered or yet  *)
(* to treat, and so is everything that was ever locked.                     *)
LockedIsCovered == \A f \in Fires : Timed(f[1]) /\ lockUntil[f] > 0 => Covered(f)

PassedIsCovered == \A p \in Pods, f \in Fires :
    Timed(f[1]) /\ Occurs(f[1], f[2]) /\ f[2] > Skew[p] /\ At(f) <= lastTick[p] => Covered(f)

WindowIsTreated == \A p \in Pods, f \in Fires :
    /\ Timed(f[1]) /\ Occurs(f[1], f[2]) /\ f[2] > Skew[p]
    /\ pc[p] = "scan" /\ lastTick[p] < At(f) /\ At(f) <= scanNow[p]
    => f \in todo[p] \/ Covered(f)

CoverInv == /\ \A p \in Pods : pc[p] # "down"
            /\ LockedIsCovered /\ PassedIsCovered /\ WindowIsTreated

LEMMA SmallestIndex ==
    ASSUME NEW T, T \subseteq Nat, T # {}
    PROVE  \E m \in T : \A k \in T : m <= k
<1>1. IsWellFoundedOn(OpToRel(<, Nat), Nat)
  BY NatLessThanWellFounded
<1>2. PICK m \in T : \A k \in T : ~(<<k, m>> \in OpToRel(<, Nat))
  BY <1>1, WFMin
<1>3. \A k \in T : ~(k < m)
  BY <1>2 DEF OpToRel
<1>4. QED
  BY <1>3

(* The scan of a short window finds every occurrence in it. *)
LEMMA AllDue ==
    ASSUME Sparse, NEW f \in Fires, Timed(f[1]), Occurs(f[1], f[2]),
           NEW after \in Nat, NEW now \in Nat, now - after <= MaxPeriod,
           after < At(f), At(f) <= now
    PROVE  f[2] \in Due(f[1], after, now)
<1> DEFINE a == f[1]
           t == f[2]
<1>1. a \in Autos /\ t \in Nat /\ Triggers[a] \in Seq(SUBSET Nat) /\ MaxPeriod \in Nat
  BY SchedulerAssumption DEF Fires, Instants, Timed
<1> HIDE DEF a, t
<1>2. CASE Kind[a] = "cron"
  <2>1. after < t /\ t <= now
    BY <1>2 DEF At, a, t
  <2>2. \A u \in Nat : Occurs(a, u) /\ after < u /\ u <= now => u = t
    <3> SUFFICES ASSUME NEW u \in Nat, Occurs(a, u), after < u, u <= now, u # t PROVE FALSE
      OBVIOUS
    <3>1. u < t => t - u >= MaxPeriod
      BY <1>1, <1>2 DEF Sparse, a, t
    <3>2. t < u => u - t >= MaxPeriod
      BY <1>1, <1>2 DEF Sparse, a, t
    <3>3. QED
      BY <1>1, <2>1, <3>1, <3>2
  <2>3. ASSUME NEW j \in DOMAIN Triggers[a]
        PROVE  /\ \A u \in DueOccurrence(Triggers[a][j], after, now) : u = t
               /\ t \in Triggers[a][j] => t \in DueOccurrence(Triggers[a][j], after, now)
    <3>1. Triggers[a][j] \subseteq Nat
      BY <1>1
    <3>2. \A u \in Triggers[a][j] : Occurs(a, u)
      BY DEF Occurs
    <3>3. \A u \in DueOccurrence(Triggers[a][j], after, now) : u = t
      BY <2>2, <3>1, <3>2 DEF DueOccurrence
    <3>4. \A u \in Triggers[a][j] : after < u => t <= u
      <4> SUFFICES ASSUME NEW u \in Triggers[a][j], after < u, ~(t <= u) PROVE FALSE
        OBVIOUS
      <4>1. u \in Nat /\ u <= now /\ u # t
        BY <1>1, <2>1, <3>1
      <4>2. QED
        BY <2>2, <3>2, <4>1
    <3>5. QED
      BY <2>1, <3>3, <3>4 DEF DueOccurrence
  <2> DEFINE T == {j \in DOMAIN Triggers[a] : t \in Triggers[a][j]}
  <2>4. T \subseteq Nat /\ T # {} /\ DOMAIN Triggers[a] = 1..Len(Triggers[a])
    BY <1>1 DEF Occurs, a, t
  <2>5. PICK m \in T : \A k \in T : m <= k
    BY <2>4, SmallestIndex
  <2>6. ASSUME NEW j \in 1..(m - 1)
        PROVE  DueOccurrence(Triggers[a][j], after, now) = {}
    <3>1. j \in DOMAIN Triggers[a] /\ j \notin T
      BY <1>1, <2>4, <2>5
    <3>2. t \notin DueOccurrence(Triggers[a][j], after, now)
      BY <3>1 DEF DueOccurrence
    <3>3. QED
      BY <2>3, <3>1, <3>2
  <2>7. t \in DueOccurrence(Triggers[a][m], after, now) /\ m \in DOMAIN Triggers[a]
    BY <2>3, <2>5
  <2>8. t \in FirstDue(a, after, now)
    BY <2>6, <2>7 DEF FirstDue
  <2>9. QED
    BY <1>2, <2>8 DEF Due, a, t
<1>3. CASE Kind[a] = "calendar"
  <2>1. after <= t /\ t < now
    BY <1>1, <1>3 DEF At, a, t
  <2>2. Len(Triggers[a]) = 1
    BY <1>1, <1>3 DEF Sparse
  <2>3. Triggers[a] # <<>> /\ t \in Head(Triggers[a])
    BY <1>1, <2>2 DEF Occurs, a, t
  <2>4. t \in DueEvents(a, after, now)
    BY <2>1, <2>3 DEF DueEvents
  <2>5. QED
    BY <1>3, <2>4 DEF Due, a, t
<1>4. QED
  BY <1>2, <1>3 DEF Timed, a

LEMMA CoverInit == Init => CoverInv
<1> SUFFICES ASSUME Init PROVE CoverInv
  OBVIOUS
<1>1. \A p \in Pods : pc[p] = "asleep" /\ lastTick[p] = Skew[p]
  <2>1. \A p \in Pods : 0 + Skew[p] = Skew[p]
    BY SchedulerAssumption
  <2>2. QED
    BY <2>1 DEF Init, PodClock
<1>2. \A f \in Fires : lockUntil[f] = 0
  BY DEF Init
<1>3. \A p \in Pods, f \in Fires : f[2] > Skew[p] => ~(At(f) <= lastTick[p])
  BY <1>1, SchedulerAssumption DEF At, Fires, Instants
<1>4. QED
  BY <1>1, <1>2, <1>3 DEF CoverInv, LockedIsCovered, PassedIsCovered, WindowIsTreated

LEMMA CoverNext ==
    ASSUME Sparse, FireInv, CoverInv, [Next]_vars, ~failed'
    PROVE  CoverInv'
<1>t. /\ TypeOK
      /\ \A p \in Pods : PodClock(p) \in Nat /\ lastTick[p] \in Nat /\ scanNow[p] \in Nat
      /\ \A f \in Fires : At(f) \in Nat /\ lockUntil[f] \in Nat
  BY PodClockType, AtType, SchedulerAssumption DEF FireInv, TypeOK, Instants
(* The windows stay, and what leaves them is covered. *)
<1>k. ASSUME UNCHANGED <<pc, lastTick, scanNow>>,
             \A f \in Fires : Timed(f[1]) /\ Covered(f) => Covered(f)',
             \A f \in Fires : Timed(f[1]) /\ lockUntil'[f] # lockUntil[f] => Covered(f)',
             \A p \in Pods, f \in Fires : Timed(f[1]) /\ f \in todo[p] => f \in todo'[p] \/ Covered(f)'
      PROVE  CoverInv'
  <2>1. \A f \in Fires : At(f)' = At(f) /\ Timed(f[1])' = Timed(f[1])
                         /\ Occurs(f[1], f[2])' = Occurs(f[1], f[2])
    BY DEF At, Timed, Occurs
  <2>2. LockedIsCovered'
    BY <1>k DEF CoverInv, LockedIsCovered
  <2>3. PassedIsCovered'
    BY <1>k, <2>1 DEF CoverInv, PassedIsCovered
  <2>4. WindowIsTreated'
    BY <1>k, <2>1 DEF CoverInv, WindowIsTreated
  <2>5. QED
    BY <1>k, <2>2, <2>3, <2>4 DEF CoverInv
<1>1. ASSUME NEW p \in Pods, Wake(p)
      PROVE  CoverInv'
  <2>1. /\ pc[p] = "asleep" /\ pc' = [pc EXCEPT ![p] = "scan"]
        /\ scanNow' = [scanNow EXCEPT ![p] = PodClock(p)]
        /\ todo' = [todo EXCEPT ![p] = {f \in Fires : f[2] \in Due(f[1], lastTick[p], PodClock(p))}]
        /\ UNCHANGED <<clock, lastTick, claim, lockUntil, jobs>>
    BY <1>1 DEF Wake
  <2>2. \A f \in Fires : Covered(f)' <=> Covered(f)
    BY <2>1 DEF Covered
  <2>3. PodClock(p) - lastTick[p] <= MaxPeriod
    BY <2>1 DEF FireInv, WindowsAreShort
  <2>4. LockedIsCovered' /\ PassedIsCovered'
    BY <2>1, <2>2 DEF CoverInv, LockedIsCovered, PassedIsCovered, At
  <2>5. WindowIsTreated'
    <3> SUFFICES ASSUME NEW q \in Pods, NEW f \in Fires, Timed(f[1]), Occurs(f[1], f[2]),
                        f[2] > Skew[q], pc'[q] = "scan", lastTick[q] < At(f), At(f) <= scanNow'[q]
                 PROVE  f \in todo'[q] \/ Covered(f)
      BY <2>1, <2>2 DEF WindowIsTreated, At
    <3>1. CASE q = p
      <4>1. At(f) <= PodClock(p)
        BY <2>1, <3>1 DEF TypeOK, FireInv
      <4>2. f[2] \in Due(f[1], lastTick[p], PodClock(p))
        BY <1>t, <2>3, <3>1, <4>1, AllDue
      <4>3. QED
        BY <1>t, <2>1, <3>1, <4>2 DEF TypeOK
    <3>2. CASE q # p
      BY <1>t, <2>1, <3>2 DEF TypeOK, CoverInv, WindowIsTreated
    <3>3. QED
      BY <3>1, <3>2
  <2>6. \A q \in Pods : pc'[q] # "down"
    BY <1>t, <2>1 DEF TypeOK, CoverInv
  <2>7. QED
    BY <2>4, <2>5, <2>6 DEF CoverInv
<1>2. ASSUME NEW p \in Pods, EndScan(p)
      PROVE  CoverInv'
  <2>1. /\ pc[p] = "scan" /\ todo[p] = {}
        /\ lastTick' = [lastTick EXCEPT ![p] = scanNow[p]] /\ pc' = [pc EXCEPT ![p] = "asleep"]
        /\ UNCHANGED <<clock, scanNow, todo, claim, lockUntil, jobs>>
    BY <1>2 DEF EndScan
  <2>2. \A f \in Fires : Covered(f)' <=> Covered(f)
    BY <2>1 DEF Covered
  <2>3. LockedIsCovered'
    BY <2>1, <2>2 DEF CoverInv, LockedIsCovered
  <2>4. PassedIsCovered'
    <3> SUFFICES ASSUME NEW q \in Pods, NEW f \in Fires, Timed(f[1]), Occurs(f[1], f[2]),
                        f[2] > Skew[q], At(f) <= lastTick'[q]
                 PROVE  Covered(f)
      BY <2>2 DEF PassedIsCovered, At
    <3>1. CASE q = p
      <4>1. At(f) <= scanNow[p]
        BY <1>t, <2>1, <3>1 DEF TypeOK
      <4>2. CASE At(f) <= lastTick[p]
        BY <3>1, <4>2 DEF CoverInv, PassedIsCovered
      <4>3. CASE lastTick[p] < At(f)
        BY <2>1, <3>1, <4>1, <4>3 DEF CoverInv, WindowIsTreated
      <4>4. QED
        BY <1>t, <4>2, <4>3
    <3>2. CASE q # p
      BY <1>t, <2>1, <3>2 DEF TypeOK, CoverInv, PassedIsCovered
    <3>3. QED
      BY <3>1, <3>2
  <2>5. WindowIsTreated'
    BY <1>t, <2>1, <2>2 DEF TypeOK, CoverInv, WindowIsTreated, At
  <2>6. \A q \in Pods : pc'[q] # "down"
    BY <1>t, <2>1 DEF TypeOK, CoverInv
  <2>7. QED
    BY <2>3, <2>4, <2>5, <2>6 DEF CoverInv
<1>3. ASSUME NEW p \in Pods, NEW f \in todo[p], Claim(p, f)
      PROVE  CoverInv'
  <2>1. /\ claim[p] = NoFire /\ claim' = [claim EXCEPT ![p] = f] /\ f \in Fires
        /\ lockUntil' = [lockUntil EXCEPT ![f] = clock + FireTTL]
        /\ UNCHANGED <<clock, pc, lastTick, scanNow, todo, jobs>>
    BY <1>t, <1>3 DEF Claim, TakeLock, TypeOK
  <2>2. \A g \in Fires : g # NoFire
    BY SchedulerAssumption
  <2>3. \A g \in Fires : Covered(g) => Covered(g)'
    BY <1>t, <2>1, <2>2 DEF Covered, TypeOK
  <2>4. Covered(f)'
    BY <1>t, <2>1 DEF Covered, TypeOK
  <2>5. \A g \in Fires : g # f => lockUntil'[g] = lockUntil[g]
    BY <1>t, <2>1 DEF TypeOK
  <2>6. QED
    BY <1>k, <2>1, <2>3, <2>4, <2>5
<1>4. ASSUME NEW p \in Pods, NEW f \in todo[p], AlreadyClaimed(p, f)
      PROVE  CoverInv'
  <2>1. /\ ~LockFree(f) /\ todo' = [todo EXCEPT ![p] = @ \ {f}] /\ f \in Fires
        /\ UNCHANGED <<clock, pc, lastTick, scanNow, claim, lockUntil, jobs>>
    BY <1>t, <1>4 DEF AlreadyClaimed, TypeOK
  <2>2. \A g \in Fires : Covered(g)' <=> Covered(g)
    BY <2>1 DEF Covered
  <2>3. lockUntil[f] > 0
    BY <1>t, <2>1 DEF LockFree, TypeOK
  <2>4. Timed(f[1]) => Covered(f)
    BY <2>1, <2>3 DEF CoverInv, LockedIsCovered
  <2>5. \A q \in Pods, g \in Fires : g \in todo[q] => g \in todo'[q] \/ g = f
    BY <1>t, <2>1 DEF TypeOK
  <2>6. QED
    BY <1>k, <2>1, <2>2, <2>4, <2>5
<1>5. ASSUME NEW p \in Pods, Enqueue(p) \/ PollMisses(p)
      PROVE  CoverInv'
  <2> DEFINE c == claim[p]
  <2>1. /\ c # NoFire /\ claim' = [claim EXCEPT ![p] = NoFire]
        /\ todo' = [todo EXCEPT ![p] = todo[p] \ {c}]
        /\ UNCHANGED <<clock, pc, lastTick, scanNow, lockUntil>>
        /\ jobs' = [jobs EXCEPT ![c] = @ + 1] \/ (jobs' = jobs /\ Kind[c[1]] = "graph")
    BY <1>5 DEF Enqueue, PollMisses, Treated, EnqueueJob
  <2>2. c \in Fires /\ jobs \in [Fires -> Nat]
    BY <1>t, <2>1 DEF TypeOK
  <2>3. Timed(c[1]) => jobs'[c] > 0
    BY <2>1, <2>2 DEF Timed
  <2>4. \A g \in Fires : jobs[g] > 0 => jobs'[g] > 0
    BY <2>1, <2>2
  <2>5. \A q \in Pods : claim'[q] = claim[q] \/ claim[q] = c
    BY <1>t, <2>1 DEF TypeOK
  <2>6. \A g \in Fires : Timed(g[1]) /\ Covered(g) => Covered(g)'
    BY <2>3, <2>4, <2>5 DEF Covered
  <2>7. \A q \in Pods, g \in Fires : g \in todo[q] => g \in todo'[q] \/ g = c
    BY <1>t, <2>1 DEF TypeOK
  <2>8. \A g \in Fires : g = c /\ Timed(g[1]) => Covered(g)'
    BY <2>3 DEF Covered
  <2>9. \A q \in Pods, g \in Fires : Timed(g[1]) /\ g \in todo[q] => g \in todo'[q] \/ Covered(g)'
    BY <2>7, <2>8
  <2>10. UNCHANGED <<pc, lastTick, scanNow>> /\ \A g \in Fires : lockUntil'[g] = lockUntil[g]
    BY <2>1
  <2>11. QED
    BY <1>k, <2>6, <2>9, <2>10
<1>6. CASE Tick \/ UNCHANGED vars
  <2>1. UNCHANGED <<pc, lastTick, scanNow, todo, claim, lockUntil, jobs>>
    BY <1>6 DEF Tick, podVars, vars
  <2>2. \A g \in Fires : Covered(g)' <=> Covered(g)
    BY <2>1 DEF Covered
  <2>3. QED
    BY <1>k, <2>1, <2>2
<1>7. ASSUME NEW p \in Pods, PodStep(p)
      PROVE  \/ Wake(p) \/ EndScan(p) \/ Enqueue(p) \/ PollMisses(p)
             \/ \E f \in todo[p] : Claim(p, f) \/ AlreadyClaimed(p, f)
  <2>1. ~EnqueueError(p) /\ ~Crash(p) /\ \A f \in todo[p] : ~LockError(p, f) /\ ~ListError(p, f)
    BY DEF EnqueueError, Crash, LockError, ListError
  <2>2. ~Restart(p)
    BY DEF Restart, CoverInv
  <2>3. QED
    BY <1>7, <2>1, <2>2 DEF PodStep
<1>8. QED
  BY <1>1, <1>2, <1>3, <1>4, <1>5, <1>6, <1>7 DEF Next

(* What has gone wrong has. *)
LEMMA FailedStays == failed /\ [Next]_vars => failed'
  BY DEF Next, PodStep, Tick, Wake, EndScan, Claim, AlreadyClaimed, LockError, ListError, Enqueue,
         PollMisses, EnqueueError, Crash, Restart, vars

(* "no gap": as long as nothing has gone wrong, every occurrence of a cron  *)
(* or of a reminder that the window of some scheduler has passed was        *)
(* enqueued or is claimed by a pod about to enqueue it, for any number of   *)
(* pods, skews and ticks, when no window holds two instants of one cron.    *)
THEOREM SchedulerCovers ==
    ASSUME Generous, Sparse PROVE Spec => []EveryOccurrenceFires
<1>1. Init => FireInv /\ (failed \/ CoverInv)
  BY FireInit, CoverInit
<1>2. FireInv /\ (failed \/ CoverInv) /\ [Next]_vars => FireInv' /\ (failed \/ CoverInv)'
  BY FireNext, CoverNext, FailedStays
<1>3. ASSUME FireInv, failed \/ CoverInv
      PROVE  EveryOccurrenceFires
  <2>0. SUFFICES ASSUME ~failed, CoverInv
                 PROVE  EveryOccurrenceFires
    BY <1>3 DEF EveryOccurrenceFires
  <2> SUFFICES ASSUME NEW p \in Pods, NEW a \in Autos, NEW t \in Instants,
                      Timed(a), Occurs(a, t), t > Skew[p],
                      IF Kind[a] = "cron" THEN t <= lastTick[p] ELSE t < lastTick[p]
               PROVE  jobs[<<a, t>>] > 0 \/ \E q \in Pods : claim[q] = <<a, t>>
    BY DEF EveryOccurrenceFires, Timed, Occurs
  <2> DEFINE f == <<a, t>>
  <2>1. f \in Fires /\ f[1] = a /\ f[2] = t
    BY DEF Fires
  <2>2. t \in Nat /\ lastTick[p] \in Nat
    BY <1>3, SchedulerAssumption DEF FireInv, TypeOK, Instants
  <2>3. At(f) <= lastTick[p]
    BY <2>1, <2>2 DEF At, Timed
  <2> HIDE DEF f
  <2>4. Covered(f)
    BY <2>0, <2>1, <2>3 DEF CoverInv, PassedIsCovered
  <2>5. QED
    BY <2>4 DEF Covered, f
<1>4. QED
  BY <1>1, <1>2, <1>3, PTL DEF Spec
=============================================================================

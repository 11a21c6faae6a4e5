---------------------------- MODULE Collect_proofs ----------------------------
(***************************************************************************)
(* Proofs about Collect for any number of workers, items and faults.        *)
(***************************************************************************)
EXTENDS Collect, FiniteSetTheorems, NaturalsInduction, WellFoundedInduction, TLAPS

(* The variables of a job are those of NoJob. *)
JobShape ==
    /\ DOMAIN pc = Workers /\ DOMAIN job = Workers
    /\ \A w \in Workers : DOMAIN job[w] = DOMAIN NoJob

(* A job that is under way holds the lock, and refreshes it. *)
Guarded ==
    \A w \in Workers : pc[w] # "idle" => lock = w /\ job[w].held /\ job[w].refreshing

LockInv == JobShape /\ (busFailed \/ Guarded)

(* What the steps between acquire and release leave alone. *)
Inside(w) ==
    /\ pc[w] # "idle" /\ lock' = lock
    /\ \A v \in Workers \ {w} : pc'[v] = pc[v] /\ job'[v] = job[v]
    /\ DOMAIN pc' = Workers /\ DOMAIN job' = Workers /\ DOMAIN job'[w] = DOMAIN NoJob
    /\ job'[w].held = job[w].held /\ job'[w].refreshing = job[w].refreshing

LEMMA CollectInit == Init => LockInv
  BY DEF Init, LockInv, JobShape, Guarded

LEMMA Fields == DOMAIN NoJob = {"held", "refreshing", "state", "page", "pages", "full", "ups",
                                "dels", "todo", "cut", "all", "advance", "item", "fresh",
                                "ok"}
  BY DEF NoJob

LEMMA CollectInside ==
    ASSUME JobShape, NEW w \in Workers,
           Load(w) \/ Drain(w) \/ DeleteNamed(w) \/ ListForReconcile(w) \/ Reconcile(w)
           \/ Partition(w) \/ Anchor(w) \/ PollRows(w) \/ Write(w) \/ StartRow(w)
           \/ Effect(w) \/ Verdict(w) \/ Advance(w) \/ NotToday(w) \/ Fail(w)
    PROVE  Inside(w)
<1> USE Fields DEF JobShape, Goto, Set, Inside
<1>1. CASE Load(w)
  BY <1>1 DEF Load
<1>2. CASE Drain(w)
  BY <1>2 DEF Drain
<1>3. CASE DeleteNamed(w)
  BY <1>3 DEF DeleteNamed
<1>4. CASE ListForReconcile(w)
  BY <1>4 DEF ListForReconcile
<1>5. CASE Reconcile(w)
  BY <1>5 DEF Reconcile
<1>6. CASE Partition(w)
  BY <1>6 DEF Partition
<1>7. CASE Anchor(w)
  BY <1>7 DEF Anchor, Return
<1>8. CASE PollRows(w)
  BY <1>8 DEF PollRows
<1>9. CASE Write(w)
  <2>1. /\ pc[w] = "run" /\ lock' = lock
        /\ pc' = [pc EXCEPT ![w] = "effect"] \/ pc' = [pc EXCEPT ![w] = "verdict"]
    BY <1>9 DEF Write
  <2>2. \/ job' = [job EXCEPT ![w] = [job[w] EXCEPT !.item = Min(job[w].todo), !.fresh = Min(job[w].todo) \notin stored]]
        \/ job' = [job EXCEPT ![w] = [job[w] EXCEPT !.item = Min(job[w].todo), !.fresh = TRUE]]
        \/ job' = [job EXCEPT ![w] = [job[w] EXCEPT !.item = Min(job[w].todo), !.ok = FALSE]]
    BY <1>9 DEF Write
  <2>3. CASE job' = [job EXCEPT ![w] = [job[w] EXCEPT !.item = Min(job[w].todo), !.fresh = Min(job[w].todo) \notin stored]]
    BY <2>1, <2>3
  <2>4. CASE job' = [job EXCEPT ![w] = [job[w] EXCEPT !.item = Min(job[w].todo), !.fresh = TRUE]]
    BY <2>1, <2>4
  <2>5. CASE job' = [job EXCEPT ![w] = [job[w] EXCEPT !.item = Min(job[w].todo), !.ok = FALSE]]
    BY <2>1, <2>5
  <2>6. QED
    BY <2>2, <2>3, <2>4, <2>5
<1>10. CASE StartRow(w)
  BY <1>10 DEF StartRow
<1>11. CASE Effect(w)
  BY <1>11 DEF Effect
<1>12. CASE Verdict(w)
  BY <1>12 DEF Verdict
<1>13. CASE Advance(w) \/ NotToday(w) \/ Fail(w)
  <2>1. pc[w] # "idle" /\ lock' = lock /\ Return(w)
    BY <1>13 DEF Advance, NotToday, Fail
  <2>2. QED
    BY <2>1 DEF Return
<1>14. QED
  BY <1>1, <1>2, <1>3, <1>4, <1>5, <1>6, <1>7, <1>8, <1>9, <1>10, <1>11, <1>12, <1>13

(* While the lock service fails nobody, a step keeps the lock with the job  *)
(* that is under way.                                                       *)
LEMMA CollectGuarded ==
    ASSUME JobShape, [Next]_vars
    PROVE  JobShape' /\ (Guarded /\ ~busFailed' => Guarded')
<1> USE Fields DEF JobShape, Goto, Set
<1>0. None \notin Workers /\ Orphan \notin Workers
  BY CollectAssumption
<1>1. ASSUME UNCHANGED <<pc, job, lock>>
      PROVE  JobShape' /\ (Guarded => Guarded')
  BY <1>1 DEF Guarded
<1>2. ASSUME NEW i \in Items, Arrive(i) \/ Vanish(i) \/ Touch(i) \/ Age(i)
      PROVE  JobShape' /\ (Guarded => Guarded')
  <2>1. UNCHANGED <<pc, job, lock>>
    BY <1>2 DEF Arrive, Vanish, Touch, Age
  <2>2. QED
    BY <1>1, <2>1
<1>3. ASSUME NEW w \in Workers, Inside(w)
      PROVE  JobShape' /\ (Guarded => Guarded')
  BY <1>3 DEF Inside, Guarded
<1>4. ASSUME NEW w \in Workers, Acquire(w)
      PROVE  JobShape' /\ (Guarded => Guarded')
  <2>1. /\ lock = None /\ lock' = w
        /\ pc' = [pc EXCEPT ![w] = "load"]
        /\ job' = [job EXCEPT ![w] = [NoJob EXCEPT !.held = TRUE, !.refreshing = TRUE]]
    BY <1>4 DEF Acquire
  <2>2. JobShape' /\ job'[w].held /\ job'[w].refreshing
    BY <2>1
  <2>3. Guarded => \A v \in Workers : pc[v] = "idle"
    BY <1>0, <2>1 DEF Guarded
  <2>4. QED
    BY <2>1, <2>2, <2>3 DEF Guarded
<1>5. ASSUME NEW w \in Workers, AcquireFails(w) \/ RefreshFails(w)
      PROVE  JobShape' /\ busFailed'
  BY <1>5 DEF AcquireFails, RefreshFails
<1>6. ASSUME NEW w \in Workers, Release(w) \/ Crash(w)
      PROVE  JobShape' /\ (Guarded => Guarded')
  <2>1. /\ pc[w] # "idle" /\ pc' = [pc EXCEPT ![w] = "idle"]
        /\ job' = [job EXCEPT ![w] = NoJob]
    BY <1>6 DEF Release, Crash
  <2>2. Guarded => \A v \in Workers : pc'[v] = "idle"
    BY <2>1 DEF Guarded
  <2>3. QED
    BY <2>1, <2>2 DEF Guarded
<1>7. CASE Expire
  <2>1. /\ UNCHANGED <<pc, job>>
        /\ lock \in Workers => ~job[lock].refreshing
    BY <1>7 DEF Expire
  <2>2. Guarded => \A v \in Workers : pc[v] = "idle"
    BY <2>1 DEF Guarded
  <2>3. QED
    BY <2>1, <2>2 DEF Guarded
<1>8. CASE UNCHANGED vars
  BY <1>1, <1>8 DEF vars
<1>9. QED
  BY <1>2, <1>3, <1>4, <1>5, <1>6, <1>7, <1>8, CollectInside DEF Next, Step

(* Two jobs never collect one connection at a time unless the lock service  *)
(* has failed one of them: the lock is refreshed until the job releases it. *)
THEOREM CollectOneCollector == Spec => []OneCollector
<1>1. LockInv /\ [Next]_vars => LockInv'
  <2> SUFFICES ASSUME LockInv, [Next]_vars PROVE LockInv'
    OBVIOUS
  <2>1. busFailed' = TRUE \/ busFailed' = busFailed
    BY ZenonT(60) DEF Next, Step, vars, Arrive, Vanish, Touch, Age, Acquire, AcquireFails, RefreshFails, Expire,
           Release, Load, NotToday, Drain, DeleteNamed, ListForReconcile, Reconcile, Partition,
           Anchor, PollRows, Write, StartRow, Effect, Verdict, Advance, Fail, Crash
  <2>2. QED
    BY <2>1, CollectGuarded DEF LockInv
<1>2. LockInv => OneCollector
  BY DEF LockInv, Guarded, OneCollector
<1>3. QED
  BY CollectInit, <1>1, <1>2, PTL DEF Spec

-----------------------------------------------------------------------------
(* What the steps of a job do, field by field. *)

LEMMA LoadStep ==
    ASSUME JobShape, NEW w \in Workers, Load(w)
    PROVE  /\ pc[w] = "load"
           /\ \/ kind # "table" /\ pc'[w] = "drain"
              \/ kind = "table" /\ pc'[w] \in {"poll", "anchor"}
           /\ job'[w].state = ledger /\ job'[w].page = ledger.cursor
           /\ UNCHANGED <<job[w].pages, job[w].full, job[w].ups, job[w].dels, job[w].todo,
                          job[w].cut, job[w].all, job[w].advance, job[w].item, job[w].fresh,
                          job[w].ok>>
           /\ UNCHANGED <<setup, outside, ledger, stored, seen>>
<1>1. /\ pc[w] = "load" /\ UNCHANGED <<setup, outside, ledger, stored, seen>>
      /\ job' = [job EXCEPT ![w] = [job[w] EXCEPT !.state = ledger, !.page = ledger.cursor]]
      /\ \/ kind # "table" /\ pc' = [pc EXCEPT ![w] = "drain"]
         \/ kind = "table" /\ pc' = [pc EXCEPT ![w] = "poll"]
         \/ kind = "table" /\ pc' = [pc EXCEPT ![w] = "anchor"]
  <2>1. CASE kind # "table"
    BY <2>1 DEF Load, Goto, Set
  <2>2. CASE kind = "table" /\ ledger.initialized
    BY <2>2 DEF Load, Goto, Set
  <2>3. CASE kind = "table" /\ ~ledger.initialized
    BY <2>3 DEF Load, Goto, Set
  <2>4. QED
    BY <2>1, <2>2, <2>3
<1>2. QED
  BY <1>1, Fields DEF JobShape

LEMMA DrainStep ==
    ASSUME JobShape, NEW w \in Workers, Drain(w),
           NEW b, b = Sync(job[w].page)
    PROVE  /\ pc[w] = "drain"
           /\ pc'[w] \in {"drain", "delete"}
           /\ pc'[w] = "drain" => b.more
           /\ job'[w].ups = job[w].ups \cup b.ups
           /\ job'[w].dels = job[w].dels \cup b.dels
           /\ job'[w].page = b.next
           /\ job'[w].full \in BOOLEAN
           /\ job'[w].full => ~b.more
           /\ UNCHANGED <<job[w].state, job[w].todo, job[w].cut, job[w].all, job[w].advance,
                          job[w].item, job[w].fresh, job[w].ok>>
           /\ UNCHANGED <<setup, outside, ledger, stored, seen>>
<1> DEFINE stop == ~b.more \/ job[w].pages + 1 >= MaxPages \/ job[w].page = b.next
           pages == IF stop THEN 0 ELSE job[w].pages + 1
           full == stop /\ ~b.more
<1>1. /\ pc[w] = "drain" /\ pc' = [pc EXCEPT ![w] = IF stop THEN "delete" ELSE "drain"]
      /\ UNCHANGED <<setup, outside, ledger, stored, seen>>
  BY DEF Drain, Goto
<1>2. job' = [job EXCEPT ![w] = [job[w] EXCEPT !.ups = @ \cup b.ups, !.dels = @ \cup b.dels,
                                              !.page = b.next, !.pages = pages, !.full = full]]
  BY DEF Drain, Set
<1>3. stop \in BOOLEAN /\ full \in BOOLEAN /\ (full => ~b.more) /\ (~stop => b.more)
  OBVIOUS
<1> HIDE DEF stop, pages, full
<1>4. QED
  BY <1>1, <1>2, <1>3, Fields DEF JobShape

LEMMA DeleteNamedStep ==
    ASSUME JobShape, NEW w \in Workers, DeleteNamed(w), job[w].state \in States(kind)
    PROVE  \E i : /\ pc[w] = "delete" /\ pc'[w] = "delete" /\ job[w].dels # {}
                  /\ i = Min(job[w].dels) /\ DeleteRow(i)
                  /\ job'[w].dels = job[w].dels \ {i}
                  /\ job'[w].state = [job[w].state EXCEPT !.committed = @ \ {i}]
                  /\ UNCHANGED <<job[w].page, job[w].pages, job[w].full, job[w].ups,
                                 job[w].todo, job[w].cut, job[w].all, job[w].advance,
                                 job[w].item, job[w].fresh, job[w].ok>>
                  /\ UNCHANGED <<setup, outside, ledger>>
<1> DEFINE i == Min(job[w].dels)
<1>1. /\ pc[w] = "delete" /\ job[w].dels # {} /\ DeleteRow(i) /\ pc' = pc
      /\ UNCHANGED <<setup, outside, ledger>>
  BY DEF DeleteNamed
<1>2. job' = [job EXCEPT ![w] = [job[w] EXCEPT !.dels = @ \ {i}, !.state.committed = @ \ {i}]]
  BY DEF DeleteNamed, Set
<1> HIDE DEF i
<1>3. i = Min(job[w].dels)
  BY DEF i
<1>4. /\ job'[w].dels = job[w].dels \ {i}
      /\ job'[w].state = [job[w].state EXCEPT !.committed = @ \ {i}]
      /\ UNCHANGED <<job[w].page, job[w].pages, job[w].full, job[w].ups, job[w].todo,
                     job[w].cut, job[w].all, job[w].advance, job[w].item, job[w].fresh,
                     job[w].ok>>
  BY <1>2, Fields DEF JobShape
<1>5. QED
  BY <1>1, <1>3, <1>4

LEMMA ListForReconcileStep ==
    ASSUME JobShape, NEW w \in Workers, ListForReconcile(w)
    PROVE  /\ pc[w] = "delete" /\ job[w].dels = {}
           /\ pc'[w] = IF job'[w].dels = {} THEN "partition" ELSE "reconcile"
           /\ job'[w].dels = IF kind = "snapshot" /\ job[w].full /\ CursorChanged(job[w])
                                /\ job[w].ups # {}
                             THEN stored \ job[w].ups ELSE {}
           /\ UNCHANGED <<job[w].state, job[w].page, job[w].pages, job[w].full, job[w].ups,
                          job[w].todo, job[w].cut, job[w].all, job[w].advance, job[w].item,
                          job[w].fresh, job[w].ok>>
           /\ UNCHANGED <<setup, outside, ledger, stored, seen>>
<1> DEFINE dead == IF kind = "snapshot" /\ job[w].full /\ CursorChanged(job[w]) /\ job[w].ups # {}
                   THEN stored \ job[w].ups ELSE {}
<1>1. /\ pc[w] = "delete" /\ job[w].dels = {}
      /\ job' = [job EXCEPT ![w] = [job[w] EXCEPT !.dels = dead]]
      /\ pc' = [pc EXCEPT ![w] = IF dead = {} THEN "partition" ELSE "reconcile"]
      /\ UNCHANGED <<setup, outside, ledger, stored, seen>>
  BY DEF ListForReconcile, Goto, Set
<1>2. dead = IF kind = "snapshot" /\ job[w].full /\ CursorChanged(job[w]) /\ job[w].ups # {}
             THEN stored \ job[w].ups ELSE {}
  OBVIOUS
<1> HIDE DEF dead
<1>3. QED
  BY <1>1, <1>2, Fields DEF JobShape

LEMMA ReconcileStep ==
    ASSUME JobShape, NEW w \in Workers, Reconcile(w)
    PROVE  \E i : /\ pc[w] = "reconcile" /\ i = Min(job[w].dels) /\ DeleteRow(i)
                  /\ pc'[w] = IF job[w].dels = {i} THEN "partition" ELSE "reconcile"
                  /\ job'[w].dels = job[w].dels \ {i}
                  /\ UNCHANGED <<job[w].state, job[w].page, job[w].pages, job[w].full, job[w].ups,
                                 job[w].todo, job[w].cut, job[w].all, job[w].advance,
                                 job[w].item, job[w].fresh, job[w].ok>>
                  /\ UNCHANGED <<setup, outside, ledger>>
<1> DEFINE i == Min(job[w].dels)
<1>1. /\ pc[w] = "reconcile" /\ DeleteRow(i)
      /\ job' = [job EXCEPT ![w] = [job[w] EXCEPT !.dels = @ \ {i}]]
      /\ pc' = [pc EXCEPT ![w] = IF job[w].dels = {i} THEN "partition" ELSE "reconcile"]
      /\ UNCHANGED <<setup, outside, ledger>>
  BY DEF Reconcile, Goto, Set
<1>2. i = Min(job[w].dels)
  OBVIOUS
<1> HIDE DEF i
<1>3. QED
  BY <1>1, <1>2, Fields DEF JobShape

(* What is new to a job, and what of it is too old. *)
New(w) == (job[w].ups \cap Matching) \ job[w].state.committed
CutOff(w) == {i \in New(w) : ~PassesCutoff(i, job[w].state.initialized)}

LEMMA PartitionStep ==
    ASSUME JobShape, NEW w \in Workers, Partition(w), job[w].state \in States(kind)
    PROVE  /\ pc[w] = "partition"
           /\ pc'[w] = IF job'[w].todo = {} THEN "advance" ELSE "run"
           /\ job'[w].state = [job[w].state EXCEPT !.committed = @ \cup CutOff(w)]
           /\ job'[w].todo \subseteq New(w) \ CutOff(w)
           /\ job'[w].cut = CutOff(w)
           /\ job'[w].all \in BOOLEAN
           /\ job'[w].all => job[w].full /\ job'[w].todo = New(w) \ CutOff(w)
           /\ UNCHANGED <<job[w].page, job[w].pages, job[w].full, job[w].ups, job[w].dels,
                          job[w].advance, job[w].item, job[w].fresh, job[w].ok>>
           /\ UNCHANGED <<setup, outside, ledger, stored, seen>>
<1> DEFINE cut  == CutOff(w)
           cap  == IF job[w].state.initialized THEN SteadyCap ELSE FirstCap
           todo == FirstOf(New(w) \ cut, cap)
           all  == job[w].full /\ todo = New(w) \ cut
<1>1. /\ pc[w] = "partition" /\ UNCHANGED <<setup, outside, ledger, stored, seen>>
      /\ pc' = [pc EXCEPT ![w] = IF todo = {} THEN "advance" ELSE "run"]
      /\ job' = [job EXCEPT ![w] = [job[w] EXCEPT !.state.committed = @ \cup cut, !.todo = todo,
                                                  !.cut = cut, !.all = all]]
  BY DEF Partition, Goto, Set, New, CutOff
<1>2. todo \subseteq New(w) \ cut /\ all \in BOOLEAN /\ (all => job[w].full /\ todo = New(w) \ cut)
  BY DEF FirstOf
<1>3. cut = CutOff(w)
  OBVIOUS
<1> HIDE DEF cut, cap, todo, all
<1>4. QED
  BY <1>1, <1>2, <1>3, Fields DEF JobShape

(* The rows at or past the cursor of a job. *)
RowsFor(w) == {i \in source : job[w].state.cursor = None \/ Stamp[i] >= job[w].state.cursor}

LEMMA PollRowsStep ==
    ASSUME JobShape, NEW w \in Workers, PollRows(w)
    PROVE  /\ pc[w] = "poll"
           /\ pc'[w] = IF job'[w].todo = {} THEN "advance" ELSE "run"
           /\ job'[w].todo = FirstOf(RowsFor(w), SteadyCap) \ job[w].state.committed
           /\ job'[w].all \in BOOLEAN
           /\ job'[w].all => Cardinality(RowsFor(w)) <= SteadyCap
           /\ UNCHANGED <<job[w].state, job[w].page, job[w].pages, job[w].full, job[w].ups,
                          job[w].dels, job[w].cut, job[w].advance, job[w].item, job[w].fresh,
                          job[w].ok>>
           /\ UNCHANGED <<setup, outside, ledger, stored, seen>>
<1> DEFINE todo == FirstOf(RowsFor(w), SteadyCap) \ job[w].state.committed
           all  == Cardinality(RowsFor(w)) <= SteadyCap
<1>1. /\ pc[w] = "poll" /\ UNCHANGED <<setup, outside, ledger, stored, seen>>
      /\ pc' = [pc EXCEPT ![w] = IF todo = {} THEN "advance" ELSE "run"]
      /\ job' = [job EXCEPT ![w] = [job[w] EXCEPT !.todo = todo, !.all = all]]
  BY DEF PollRows, Goto, Set, RowsFor
<1>2. /\ todo = FirstOf(RowsFor(w), SteadyCap) \ job[w].state.committed
      /\ all \in BOOLEAN /\ (all => Cardinality(RowsFor(w)) <= SteadyCap)
  OBVIOUS
<1> HIDE DEF todo, all
<1>3. QED
  BY <1>1, <1>2, Fields DEF JobShape

LEMMA WriteStep ==
    ASSUME JobShape, NEW w \in Workers, Write(w)
    PROVE  /\ pc[w] = "run" /\ kind # "table"
           /\ job'[w].item = Min(job[w].todo)
           /\ pc'[w] \in {"effect", "verdict"}
           /\ job'[w].fresh \in {TRUE, FALSE, job[w].fresh}
           /\ job'[w].ok \in {job[w].ok, FALSE}
           /\ stored' \in {stored, stored \cup {job'[w].item}}
           /\ blind' \in {blind, blind \cup {job'[w].item}}
           /\ pc'[w] = "effect" =>
                 /\ stored' = stored \cup {job'[w].item}
                 /\ job'[w].fresh => job'[w].item \in blind' \/ job'[w].item \notin stored
           /\ UNCHANGED <<job[w].state, job[w].page, job[w].pages, job[w].full, job[w].ups,
                          job[w].dels, job[w].todo, job[w].cut, job[w].all, job[w].advance>>
           /\ UNCHANGED <<setup, outside, ledger, done, spent, touched>>
<1>0. PICK i : i = Min(job[w].todo)
  OBVIOUS
<1> DEFINE new == i \notin stored
<1>1. /\ pc[w] = "run" /\ kind # "table" /\ UNCHANGED <<setup, outside, ledger, done, spent, touched>>
      /\ \/ /\ pc' = [pc EXCEPT ![w] = "effect"] /\ stored' = stored \cup {i} /\ blind' = blind
            /\ job' = [job EXCEPT ![w] = [job[w] EXCEPT !.item = i, !.fresh = new]]
         \/ /\ pc' = [pc EXCEPT ![w] = "effect"] /\ stored' = stored \cup {i}
            /\ blind' = blind \cup {i}
            /\ job' = [job EXCEPT ![w] = [job[w] EXCEPT !.item = i, !.fresh = TRUE]]
         \/ /\ pc' = [pc EXCEPT ![w] = "verdict"] /\ stored' \in {stored, stored \cup {i}}
            /\ blind' = blind
            /\ job' = [job EXCEPT ![w] = [job[w] EXCEPT !.item = i, !.ok = FALSE]]
  BY <1>0 DEF Write, Goto, Set
<1>2. new \in {TRUE, FALSE} /\ (new => i \notin stored)
  OBVIOUS
<1> HIDE DEF new
<1> USE Fields DEF JobShape
<1>3. CASE /\ pc' = [pc EXCEPT ![w] = "effect"] /\ stored' = stored \cup {i} /\ blind' = blind
           /\ job' = [job EXCEPT ![w] = [job[w] EXCEPT !.item = i, !.fresh = new]]
  <2>1. /\ pc'[w] = "effect" /\ job'[w].item = i /\ job'[w].fresh = new
        /\ UNCHANGED <<job[w].state, job[w].page, job[w].pages, job[w].full, job[w].ups,
                       job[w].dels, job[w].todo, job[w].cut, job[w].all, job[w].advance,
                       job[w].ok>>
    BY <1>3
  <2>2. QED
    BY <1>0, <1>1, <1>2, <1>3, <2>1
<1>4. CASE /\ pc' = [pc EXCEPT ![w] = "effect"] /\ stored' = stored \cup {i}
           /\ blind' = blind \cup {i}
           /\ job' = [job EXCEPT ![w] = [job[w] EXCEPT !.item = i, !.fresh = TRUE]]
  <2>1. /\ pc'[w] = "effect" /\ job'[w].item = i /\ job'[w].fresh = TRUE
        /\ UNCHANGED <<job[w].state, job[w].page, job[w].pages, job[w].full, job[w].ups,
                       job[w].dels, job[w].todo, job[w].cut, job[w].all, job[w].advance,
                       job[w].ok>>
    BY <1>4
  <2>2. QED
    BY <1>0, <1>1, <1>4, <2>1
<1>5. CASE /\ pc' = [pc EXCEPT ![w] = "verdict"] /\ stored' \in {stored, stored \cup {i}}
           /\ blind' = blind
           /\ job' = [job EXCEPT ![w] = [job[w] EXCEPT !.item = i, !.ok = FALSE]]
  <2>1. /\ pc'[w] = "verdict" /\ job'[w].item = i /\ job'[w].ok = FALSE
        /\ UNCHANGED <<job[w].state, job[w].page, job[w].pages, job[w].full, job[w].ups,
                       job[w].dels, job[w].todo, job[w].cut, job[w].all, job[w].advance,
                       job[w].fresh>>
    BY <1>5
  <2>2. QED
    BY <1>0, <1>1, <1>5, <2>1
<1>6. QED
  BY <1>1, <1>3, <1>4, <1>5

LEMMA StartRowStep ==
    ASSUME JobShape, NEW w \in Workers, StartRow(w)
    PROVE  /\ pc[w] = "run" /\ kind = "table" /\ pc'[w] = "effect"
           /\ job'[w].item = Min(job[w].todo) /\ job'[w].fresh = TRUE
           /\ UNCHANGED <<job[w].state, job[w].page, job[w].pages, job[w].full, job[w].ups,
                          job[w].dels, job[w].todo, job[w].cut, job[w].all, job[w].advance,
                          job[w].ok>>
           /\ UNCHANGED <<setup, outside, ledger, stored, seen>>
  BY Fields DEF JobShape, Goto, Set, StartRow

LEMMA EffectStep ==
    ASSUME JobShape, NEW w \in Workers, Effect(w)
    PROVE  /\ pc[w] = "effect" /\ pc'[w] = "verdict"
           /\ spent' = [spent EXCEPT ![job[w].item] = IF job[w].fresh /\ @ < 2 THEN @ + 1 ELSE @]
           /\ job'[w].ok \in BOOLEAN
           /\ UNCHANGED <<job[w].state, job[w].page, job[w].pages, job[w].full, job[w].ups,
                          job[w].dels, job[w].todo, job[w].cut, job[w].all, job[w].advance,
                          job[w].item, job[w].fresh>>
           /\ UNCHANGED <<setup, outside, ledger, stored, blind, done, touched>>
<1>1. /\ pc[w] = "effect" /\ pc' = [pc EXCEPT ![w] = "verdict"]
      /\ spent' = [spent EXCEPT ![job[w].item] = IF job[w].fresh /\ @ < 2 THEN @ + 1 ELSE @]
      /\ UNCHANGED <<setup, outside, ledger, stored, blind, done, touched>>
      /\ \E ok \in BOOLEAN : job' = [job EXCEPT ![w] = [job[w] EXCEPT !.ok = ok]]
  BY DEF Effect, Goto, Set
<1>2. PICK ok \in BOOLEAN : job' = [job EXCEPT ![w] = [job[w] EXCEPT !.ok = ok]]
  BY <1>1
<1>3. /\ job'[w].ok = ok
      /\ UNCHANGED <<job[w].state, job[w].page, job[w].pages, job[w].full, job[w].ups,
                     job[w].dels, job[w].todo, job[w].cut, job[w].all, job[w].advance,
                     job[w].item, job[w].fresh>>
  BY <1>2, Fields DEF JobShape
<1>4. QED
  BY <1>1, <1>2, <1>3, Fields DEF JobShape

(* Whether the run of an item commits it. *)
Commits(w) == ~commitOn \/ job[w].ok

(* What is entered with it. *)
Enters(w) == job[w].cut \cup (IF Commits(w) THEN {job[w].item} ELSE {})

LEMMA VerdictStep ==
    ASSUME JobShape, NEW w \in Workers, Verdict(w)
    PROVE  /\ pc[w] = "verdict"
           /\ pc'[w] = IF job[w].todo = {job[w].item} THEN "advance" ELSE "run"
           /\ job'[w].state = IF Commits(w)
                              THEN [job[w].state EXCEPT !.committed = @ \cup {job[w].item}]
                              ELSE job[w].state
           /\ ledger' = job'[w].state
           /\ done' = done \cup Enters(w) /\ touched' = touched \ Enters(w)
           /\ job'[w].todo = job[w].todo \ {job[w].item}
           /\ job'[w].all = (job[w].all /\ Commits(w))
           /\ job'[w].advance = IF Commits(w) THEN Stamp[job[w].item] ELSE job[w].advance
           /\ job'[w].item = NoItem /\ job'[w].fresh = FALSE /\ job'[w].ok = FALSE
           /\ UNCHANGED <<job[w].page, job[w].pages, job[w].full, job[w].ups, job[w].dels,
                          job[w].cut>>
           /\ UNCHANGED <<setup, outside, stored, blind, spent>>
<1> DEFINE i == job[w].item
           state == IF Commits(w) THEN [job[w].state EXCEPT !.committed = @ \cup {i}]
                    ELSE job[w].state
           all == job[w].all /\ Commits(w)
           advance == IF Commits(w) THEN Stamp[i] ELSE job[w].advance
           half == [job[w] EXCEPT !.state = state, !.todo = @ \ {i}, !.all = all]
<1>1. /\ pc[w] = "verdict" /\ ledger' = state
      /\ pc' = [pc EXCEPT ![w] = IF job[w].todo = {i} THEN "advance" ELSE "run"]
      /\ done' = done \cup Enters(w) /\ touched' = touched \ Enters(w)
      /\ UNCHANGED <<setup, outside, stored, blind, spent>>
  BY DEF Verdict, Goto, Commits, Enter, Enters
<1>2. job' = [job EXCEPT ![w] = [half EXCEPT !.advance = advance, !.item = NoItem, !.fresh = FALSE,
                                            !.ok = FALSE]]
  BY DEF Verdict, Set, Commits
<1>3. /\ half.state = state /\ half.todo = job[w].todo \ {i} /\ half.all = all
      /\ half.page = job[w].page /\ half.pages = job[w].pages /\ half.full = job[w].full
      /\ half.ups = job[w].ups /\ half.dels = job[w].dels /\ half.cut = job[w].cut
      /\ DOMAIN half = DOMAIN NoJob
  BY Fields DEF JobShape
<1>4. /\ state = IF Commits(w) THEN [job[w].state EXCEPT !.committed = @ \cup {i}] ELSE job[w].state
      /\ all = (job[w].all /\ Commits(w))
      /\ advance = IF Commits(w) THEN Stamp[i] ELSE job[w].advance
  OBVIOUS
<1> HIDE DEF half, state, all, advance
<1>5. /\ job'[w].state = state /\ job'[w].todo = job[w].todo \ {i} /\ job'[w].all = all
      /\ job'[w].advance = advance
      /\ job'[w].item = NoItem /\ job'[w].fresh = FALSE /\ job'[w].ok = FALSE
      /\ UNCHANGED <<job[w].page, job[w].pages, job[w].full, job[w].ups, job[w].dels, job[w].cut>>
  BY <1>2, <1>3, Fields DEF JobShape
<1>6. pc'[w] = IF job[w].todo = {i} THEN "advance" ELSE "run"
  BY <1>1 DEF JobShape
<1>7. QED
  BY <1>1, <1>4, <1>5, <1>6

(* A job at rest has no variables but those of the lock. *)
Resting(j) ==
    /\ j.state = NewState /\ j.page = None /\ j.pages = 0 /\ j.full = FALSE
    /\ j.ups = {} /\ j.dels = {} /\ j.todo = {} /\ j.cut = {} /\ j.all = FALSE
    /\ j.advance = None /\ j.item = NoItem /\ j.fresh = FALSE /\ j.ok = FALSE

LEMMA CollectEnds ==
    ASSUME JobShape, NEW w \in Workers,
           Anchor(w) \/ Advance(w) \/ NotToday(w) \/ Fail(w) \/ Release(w) \/ Crash(w)
    PROVE  /\ pc'[w] \in {"idle", "release"} /\ Resting(job'[w])
           /\ \A v \in Workers \ {w} : pc'[v] = pc[v] /\ job'[v] = job[v]
           /\ UNCHANGED <<setup, outside, stored, blind, spent>>
<1>1. UNCHANGED <<setup, outside, stored, blind, spent>>
  BY DEF Anchor, Advance, NotToday, Fail, Release, Crash, seen
<1>2. CASE Return(w)
  BY <1>1, <1>2 DEF Return, Goto, Set, JobShape, Resting, NoJob
<1>3. CASE pc' = [pc EXCEPT ![w] = "idle"] /\ job' = [job EXCEPT ![w] = NoJob]
  BY <1>1, <1>3 DEF JobShape, Resting, NoJob
<1>4. QED
  BY <1>2, <1>3 DEF Anchor, Advance, NotToday, Fail, Release, Crash, Goto, Set

-----------------------------------------------------------------------------
(* Smallest and largest items. *)

LEMMA Least ==
    ASSUME NEW S, S \subseteq Nat, S # {}
    PROVE  \E x \in S : \A y \in S : x <= y
<1> DEFINE R == {ss \in Nat \X Nat : ss[1] < ss[2]}
<1>1. IsWellFoundedOn(R, Nat)
  BY NatLessThanWellFounded DEF OpToRel
<1>2. \A y, x \in Nat : y < x => <<y, x>> \in R
  OBVIOUS
<1> HIDE DEF R
<1>3. PICK x \in S : \A y \in S : ~ (<<y, x>> \in R)
  BY <1>1, WFMin
<1>4. \A y \in S : ~ (y < x)
  BY <1>2, <1>3
<1>5. QED
  BY <1>3, <1>4

LEMMA MinItem ==
    ASSUME NEW S, S \subseteq Items, S # {}
    PROVE  Min(S) \in S /\ \A y \in S : Min(S) <= y
<1>1. S \subseteq Nat
  BY CollectAssumption
<1>2. \E x \in S : \A y \in S : x <= y
  BY <1>1, Least
<1>3. QED
  BY <1>2 DEF Min

(* A finite set of numbers has a largest member: one with the fewest above  *)
(* it.                                                                     *)
LEMMA Largest ==
    ASSUME NEW S, S \subseteq Items, S # {}
    PROVE  \E x \in S : \A y \in S : y <= x
<1> DEFINE Above(a) == {b \in S : b > a}
           Counts == {Cardinality(Above(x)) : x \in S}
<1>1. S \subseteq Nat /\ IsFiniteSet(S)
  BY CollectAssumption, FS_Subset
<1>2. \A x \in S : IsFiniteSet(Above(x)) /\ Cardinality(Above(x)) \in Nat
  BY <1>1, FS_Subset, FS_CardinalityType
<1>3. Counts \subseteq Nat /\ Counts # {}
  BY <1>2
<1>4. PICK c \in Counts : \A d \in Counts : c <= d
  BY <1>3, Least
<1>5. PICK x \in S : c = Cardinality(Above(x))
  BY <1>4
<1>6. ASSUME NEW y \in S, ~ (y <= x) PROVE FALSE
  <2>0. x \in Nat /\ y \in Nat /\ y > x /\ \A z \in S : z > y => z > x
    BY <1>1, <1>5, <1>6
  <2>1. Above(y) \subseteq Above(x) /\ y \in Above(x) /\ y \notin Above(y)
    <3>1. y \in Above(x)
      BY <2>0
    <3>2. y \notin Above(y)
      BY <2>0
    <3>3. Above(y) \subseteq Above(x)
      BY <2>0
    <3>4. QED
      BY <3>1, <3>2, <3>3
  <2>2. Cardinality(Above(y)) <= Cardinality(Above(x)) /\ Above(x) # Above(y)
    BY <1>2, <2>1, FS_Subset
  <2>3. Cardinality(Above(y)) # Cardinality(Above(x))
    BY <1>2, <2>1, <2>2, FS_Subset
  <2>4. Cardinality(Above(y)) \in Counts
    OBVIOUS
  <2>5. c <= Cardinality(Above(y))
    BY <1>4, <2>4
  <2>6. Cardinality(Above(y)) \in Nat /\ Cardinality(Above(x)) \in Nat
    BY <1>2
  <2>7. PICK m, n \in Nat : m = Cardinality(Above(y)) /\ n = Cardinality(Above(x))
    BY <2>6
  <2>8. m <= n /\ m # n /\ n <= m
    BY <1>5, <2>2, <2>3, <2>5, <2>7
  <2>9. QED
    BY <2>8
<1>7. QED
  BY <1>6

(* The largest stamp is that of an item. *)
LEMMA TopStamp ==
    ASSUME NEW S, S \subseteq Items, S # {}
    PROVE  \E k \in S : /\ Max({Stamp[i] : i \in S}) = Stamp[k]
                        /\ \A i \in S : Stamp[i] <= Stamp[k]
<1>1. PICK x \in S : \A y \in S : y <= x
  BY Largest
<1>2. \A y \in S : Stamp[y] \in Nat /\ Stamp[y] <= Stamp[x]
  BY <1>1, CollectAssumption
<1> DEFINE T == {Stamp[i] : i \in S}
<1>3. \E t \in T : \A u \in T : t >= u
  BY <1>2
<1>4. Max(T) \in T /\ \A u \in T : Max(T) >= u
  BY <1>3 DEF Max
<1>5. PICK k \in S : Max(T) = Stamp[k]
  BY <1>4
<1>6. QED
  BY <1>2, <1>4, <1>5

(* A cap that is not exceeded cuts nothing. *)
LEMMA FirstOfAll ==
    ASSUME NEW S, S \subseteq Items, NEW n \in Nat, Cardinality(S) <= n
    PROVE  FirstOf(S, n) = S
<1> SUFFICES ASSUME NEW i \in S PROVE Cardinality({j \in S : j < i}) < n
  BY DEF FirstOf
<1> DEFINE B == {j \in S : j < i}
<1>1. S \subseteq Nat /\ IsFiniteSet(S)
  BY CollectAssumption, FS_Subset
<1>2. B \subseteq S /\ B # S
  BY <1>1
<1>3. Cardinality(B) <= Cardinality(S) /\ Cardinality(B) # Cardinality(S) /\ IsFiniteSet(B)
  BY <1>1, <1>2, FS_Subset
<1>4. Cardinality(B) \in Nat /\ Cardinality(S) \in Nat
  BY <1>1, <1>3, FS_CardinalityType
<1> HIDE DEF B
<1>5. Cardinality(B) < n
  BY <1>3, <1>4
<1>6. QED
  BY <1>5 DEF B

-----------------------------------------------------------------------------
(* What the ledger and the jobs know of: items that are or were at the      *)
(* source.                                                                 *)
Known == source \cup gone

Cursors(k, K) == {None} \cup (IF k = "table" THEN {Stamp[i] : i \in K} ELSE Maps(K))
Ledgers(k, K) == [cursor : Cursors(k, K), committed : SUBSET K, initialized : BOOLEAN]

JobKnown(k, K, j) ==
    /\ j.state \in Ledgers(k, K) /\ j.page \in Cursors(k, K)
    /\ j.ups \subseteq K /\ j.dels \subseteq K /\ j.todo \subseteq K /\ j.cut \subseteq K
    /\ j.advance \in {None} \cup {Stamp[i] : i \in K}
    /\ j.item \in Items \cup {NoItem}
    /\ j.full \in BOOLEAN /\ j.all \in BOOLEAN /\ j.fresh \in BOOLEAN /\ j.ok \in BOOLEAN

(* What holds of a job where it is. *)
Placed(k, p, j) ==
    /\ p \in {"idle", "load", "release"} => Resting(j)
    /\ p \in {"drain", "delete", "reconcile", "partition", "anchor", "poll"} => j.cut = {}
    /\ p = "run" => j.todo # {}
    /\ p = "reconcile" => j.dels # {}
    /\ p \in {"effect", "verdict"} => j.item \in j.todo
    /\ p = "advance" => j.todo = {}
    /\ p \in {"anchor", "poll"} => k = "table"
    /\ p \in {"drain", "delete", "reconcile", "partition"} => k # "table"
    /\ p \in {"delete", "reconcile", "partition", "run", "effect", "verdict", "advance"}
          /\ k # "table" => j.page # None

GlobalTypes ==
    /\ kind \in Kinds /\ commitOn \in CommitOns /\ window \in Windows
    /\ source \subseteq Items /\ gone \subseteq Items /\ old \subseteq Items
    /\ flags \in [Items -> {0, 1}]
    /\ blind \subseteq Items /\ done \subseteq Items /\ touched \subseteq done
    /\ lock \in Workers \cup {Orphan, None}
    /\ busFailed \in BOOLEAN /\ faults \in 0..MaxFaults /\ spent \in [Items -> 0..2]

JobsKnown == \A w \in Workers : JobKnown(kind, Known, job[w]) /\ Placed(kind, pc[w], job[w])

TypeInv ==
    /\ GlobalTypes /\ JobShape /\ JobsKnown
    /\ ledger \in Ledgers(kind, Known) /\ stored \subseteq Known

(* The cursor of a provider is a function on some of the known items. *)
LEMMA MapsOf ==
    ASSUME NEW K, NEW c
    PROVE  c \in Maps(K) <=> /\ c \in [DOMAIN c -> {0, 1}]
                             /\ DOMAIN c \subseteq K
  BY DEF Maps

LEMMA KnownMore ==
    ASSUME NEW k, NEW K, NEW L, K \subseteq L
    PROVE  /\ \A s \in Ledgers(k, K) : s \in Ledgers(k, L)
           /\ \A j : JobKnown(k, K, j) => JobKnown(k, L, j)
<1>0. Maps(K) \subseteq Maps(L)
  BY MapsOf
<1>1. Cursors(k, K) \subseteq Cursors(k, L)
  BY <1>0 DEF Cursors
<1>2. Ledgers(k, K) \subseteq Ledgers(k, L)
  BY <1>1 DEF Ledgers
<1>3. {Stamp[i] : i \in K} \subseteq {Stamp[i] : i \in L}
  OBVIOUS
<1>4. QED
  BY <1>1, <1>2, <1>3 DEF JobKnown

LEMMA RestingKnown ==
    ASSUME NEW k, NEW K, NEW p \in {"idle", "load", "release"}, NEW j, Resting(j)
    PROVE  JobKnown(k, K, j) /\ Placed(k, p, j)
<1>1. NewState \in Ledgers(k, K)
  BY DEF Ledgers, Cursors, NewState
<1>2. JobKnown(k, K, j)
  BY <1>1 DEF Resting, JobKnown, Cursors
<1>3. QED
  BY <1>2 DEF Placed

LEMMA KnownTyped ==
    ASSUME NEW k, NEW K, K \subseteq Items
    PROVE  Ledgers(k, K) \subseteq States(k)
<1>0. Maps(K) \subseteq Maps(Items)
  BY MapsOf
<1>1. Cursors(k, K) \subseteq {None} \cup (IF k = "table" THEN {Stamp[i] : i \in Items} ELSE Maps(Items))
  BY <1>0 DEF Cursors
<1>2. QED
  BY <1>1 DEF Ledgers, States

(* What no step does to the variables outside the jobs. *)
LEMMA CollectOutside ==
    ASSUME [Next]_vars, GlobalTypes
    PROVE  /\ UNCHANGED setup
           /\ source' \subseteq Items /\ gone' \subseteq Items /\ old' \subseteq Items
           /\ flags' \in [Items -> {0, 1}]
           /\ Known \subseteq Known' /\ Known' \subseteq Items
           /\ lock' \in Workers \cup {Orphan, None}
           /\ busFailed' \in BOOLEAN /\ faults' \in 0..MaxFaults
<1> USE DEF GlobalTypes, Known
<1>1. ASSUME UNCHANGED <<setup, outside>>
      PROVE  /\ UNCHANGED setup
             /\ source' \subseteq Items /\ gone' \subseteq Items /\ old' \subseteq Items
             /\ flags' \in [Items -> {0, 1}]
             /\ Known \subseteq Known' /\ Known' \subseteq Items
  BY <1>1 DEF outside, setup
<1>2. CASE \E i \in Items : Arrive(i) \/ Vanish(i) \/ Age(i)
  BY <1>2 DEF Arrive, Vanish, Age, setup
<1>20. CASE \E i \in Items : Touch(i)
  <2>1. PICK i \in Items : Touch(i)
    BY <1>20
  <2>2. /\ flags' = [flags EXCEPT ![i] = 1 - @] /\ Fault(FlagChange)
        /\ UNCHANGED <<setup, source, gone, old, lock, busFailed>>
    BY <2>1 DEF Touch
  <2>3. flags' \in [Items -> {0, 1}]
    BY <2>2
  <2>4. faults' \in 0..MaxFaults
    BY <2>2, CollectAssumption DEF Fault
  <2>5. QED
    BY <2>2, <2>3, <2>4
<1>3. CASE \E w \in Workers : Step(w)
  <2>1. PICK w \in Workers : Step(w)
    BY <1>3
  <2>2. UNCHANGED <<setup, outside, busFailed>>
    BY <2>1 DEF Step, Load, Drain, DeleteNamed, ListForReconcile, Reconcile, Partition, Anchor,
           PollRows, Write, StartRow, Effect, Verdict, Advance, Release
  <2>3. faults' = faults \/ Fault(1)
    BY <2>1 DEF Step, Load, Drain, DeleteNamed, ListForReconcile, Reconcile, Partition, Anchor,
           PollRows, Write, StartRow, Effect, Verdict, Advance, Release
  <2>4. lock' \in {lock, None}
    BY <2>1 DEF Step, Load, Drain, DeleteNamed, ListForReconcile, Reconcile, Partition, Anchor,
           PollRows, Write, StartRow, Effect, Verdict, Advance, Release
  <2>5. faults' \in 0..MaxFaults
    BY <2>3, CollectAssumption DEF Fault
  <2>6. QED
    BY <1>1, <2>2, <2>4, <2>5
<1>4. CASE \E w \in Workers : Acquire(w) \/ AcquireFails(w) \/ RefreshFails(w)
                              \/ NotToday(w) \/ Fail(w) \/ Crash(w)
  <2>1. PICK w \in Workers : Acquire(w) \/ AcquireFails(w) \/ RefreshFails(w)
                              \/ NotToday(w) \/ Fail(w) \/ Crash(w)
    BY <1>4
  <2>2. /\ UNCHANGED <<setup, outside>> /\ busFailed' \in {busFailed, TRUE}
        /\ lock' \in {lock, w, Orphan, None}
        /\ faults' = faults \/ Fault(1) \/ Fault(BusFault)
    BY <2>1 DEF Acquire, AcquireFails, RefreshFails, NotToday, Fail, Crash
  <2>3. faults' \in 0..MaxFaults
    BY <2>2, CollectAssumption DEF Fault
  <2>4. QED
    BY <1>1, <2>2, <2>3
<1>5. CASE Expire
  BY <1>1, <1>5 DEF Expire
<1>6. CASE UNCHANGED vars
  BY <1>1, <1>6 DEF vars
<1>7. QED
  BY <1>2, <1>20, <1>3, <1>4, <1>5, <1>6 DEF Next

(* What the source is asked for. *)
Told(c) == IF c = None THEN NothingTold ELSE c

(* What a digest of the source is. *)
Digest == [i \in source |-> flags[i]]

LEMMA SyncKnown ==
    ASSUME GlobalTypes, NEW c, c \in Cursors(kind, Known), kind # "table"
    PROVE  LET b == Sync(c)
           IN  /\ b.ups \subseteq source /\ b.next \in Maps(source) /\ b.dels \subseteq Known
               /\ DOMAIN b.next \subseteq DOMAIN Told(c) \cup b.ups
               /\ kind = "incremental" =>
                     /\ b.dels \cap source = {}
                     /\ \A i \in source \cap DOMAIN Told(c) :
                           Told(c)[i] = flags[i] =>
                              i \notin b.ups /\ i \in DOMAIN b.next /\ b.next[i] = flags[i]
                     /\ ~b.more => b.next = Digest
               /\ kind # "incremental" =>
                     b.dels = {} /\ b.ups = (IF c = Digest THEN {} ELSE source)
                     /\ b.next = Digest /\ ~b.more
<1>0. source \subseteq Items /\ flags \in [Items -> {0, 1}] /\ None # Digest
  <2>1. source \subseteq Items /\ flags \in [Items -> {0, 1}]
    BY DEF GlobalTypes
  <2>2. Digest \in [source -> {0, 1}]
    BY <2>1 DEF Digest
  <2>3. QED
    BY <2>1, <2>2, CollectAssumption
<1>1. Told(c) \in [DOMAIN Told(c) -> {0, 1}] /\ DOMAIN Told(c) \subseteq Known
  BY MapsOf DEF Cursors, Told, NothingTold
<1>2. CASE kind = "incremental"
  <2> DEFINE t == Told(c)
             changed == Changed(t)
             deferred == Deferred(changed)
             next == [i \in (source \ deferred) \cup (deferred \cap DOMAIN t) |->
                         IF i \in deferred THEN t[i] ELSE flags[i]]
             b == Sync(c)
  <2>1. /\ b.ups = changed \ deferred /\ b.dels = DOMAIN t \ source /\ b.next = next
        /\ b.more = (deferred # {})
    BY <1>2 DEF Sync, Delta, Told
  <2>2. deferred \subseteq changed /\ changed \subseteq source
    BY DEF Deferred, Changed
  <2>3. \A i \in source \ changed : i \in DOMAIN t /\ t[i] = flags[i]
    BY DEF Changed
  <2>4. \A i \in source \cap DOMAIN t : t[i] = flags[i] => i \notin changed
    BY DEF Changed
  <2> HIDE DEF changed, deferred, t
  <2>5. t \in [DOMAIN t -> {0, 1}] /\ DOMAIN t \subseteq Known
    BY <1>1 DEF t
  <2>6. next \in [(source \ deferred) \cup (deferred \cap DOMAIN t) -> {0, 1}]
    BY <1>0, <2>2, <2>5
  <2>7. next \in Maps(source)
    BY <2>2, <2>6, MapsOf
  <2>8. DOMAIN next \subseteq DOMAIN t \cup (changed \ deferred)
    BY <2>3
  <2>9. \A i \in source \cap DOMAIN t :
           t[i] = flags[i] => i \notin changed /\ i \in DOMAIN next /\ next[i] = flags[i]
    BY <2>2, <2>4
  <2>10. deferred = {} => next = Digest
    BY DEF Digest
  <2> HIDE DEF next, b
  <2>11. /\ b.ups \subseteq source /\ b.next \in Maps(source) /\ b.dels \subseteq Known
         /\ DOMAIN b.next \subseteq DOMAIN t \cup b.ups /\ b.dels \cap source = {}
         /\ \A i \in source \cap DOMAIN t :
               t[i] = flags[i] => i \notin b.ups /\ i \in DOMAIN b.next /\ b.next[i] = flags[i]
         /\ ~b.more => b.next = Digest
    BY <2>1, <2>2, <2>5, <2>7, <2>8, <2>9, <2>10
  <2>12. QED
    BY <1>2, <2>11 DEF b, t
<1>3. CASE kind # "incremental"
  <2>1. Sync(c) = [ups |-> IF c = Digest THEN {} ELSE source, dels |-> {}, next |-> Digest,
                   more |-> FALSE]
    BY <1>3 DEF Sync, Snapshot, Digest
  <2>2. Digest \in Maps(source) /\ DOMAIN Digest = source
    BY <1>0, MapsOf DEF Digest
  <2>3. c = Digest => DOMAIN Told(c) = source
    BY <1>0, <2>2 DEF Told
  <2>4. QED
    BY <1>3, <2>1, <2>2, <2>3
<1>4. QED
  BY <1>2, <1>3

LEMMA LedgerFields ==
    ASSUME NEW k, NEW K, NEW s \in Ledgers(k, K)
    PROVE  /\ s.committed \subseteq K /\ s.cursor \in Cursors(k, K) /\ s.initialized \in BOOLEAN
           /\ DOMAIN s = {"cursor", "committed", "initialized"}
           /\ \A T \in SUBSET K :
                 [s EXCEPT !.committed = T] \in Ledgers(k, K)
  BY DEF Ledgers

(* The steps of a job keep to known items. *)
LEMMA CollectWork ==
    ASSUME TypeInv, NEW w \in Workers, UNCHANGED setup,
           Load(w) \/ Drain(w) \/ DeleteNamed(w) \/ ListForReconcile(w) \/ Reconcile(w)
           \/ Partition(w) \/ PollRows(w) \/ Write(w) \/ StartRow(w) \/ Effect(w) \/ Verdict(w)
    PROVE  JobKnown(kind, Known, job'[w]) /\ Placed(kind, pc'[w], job'[w])
<1>0. /\ JobShape /\ JobKnown(kind, Known, job[w]) /\ Placed(kind, pc[w], job[w])
      /\ Known \subseteq Items /\ ledger \in Ledgers(kind, Known)
      /\ job[w].state \in Ledgers(kind, Known) /\ job[w].state \in States(kind)
      /\ stored \subseteq Known /\ source \subseteq Known
  <2>1. JobShape /\ JobKnown(kind, Known, job[w]) /\ Placed(kind, pc[w], job[w])
    BY DEF TypeInv, JobsKnown
  <2>2. Known \subseteq Items /\ ledger \in Ledgers(kind, Known) /\ stored \subseteq Known /\ source \subseteq Known
    BY DEF TypeInv, Known, GlobalTypes
  <2>3. job[w].state \in Ledgers(kind, Known)
    BY <2>1 DEF JobKnown
  <2>4. QED
    BY <2>1, <2>2, <2>3, KnownTyped
<1> DEFINE Goal == JobKnown(kind, Known, job'[w]) /\ Placed(kind, pc'[w], job'[w])
<1>1. CASE Load(w)
  <2>1. ledger.cursor \in Cursors(kind, Known)
    BY <1>0, LedgerFields
  <2>2. Resting(job[w])
    BY <1>0, <1>1, LoadStep DEF Placed
  <2>3. JobKnown(kind, Known, job'[w])
    BY <1>0, <1>1, <2>1, <2>2, LoadStep DEF JobKnown
  <2>4. Placed(kind, pc'[w], job'[w])
    <3>1. \/ kind # "table" /\ pc'[w] = "drain"
          \/ kind = "table" /\ pc'[w] \in {"poll", "anchor"}
      BY <1>0, <1>1, LoadStep
    <3>2. job'[w].cut = {}
      BY <1>0, <1>1, <2>2, LoadStep DEF Resting
    <3>3. QED
      BY <3>1, <3>2 DEF Placed
  <2>5. QED
    BY <2>3, <2>4
<1>2. CASE Drain(w)
  <2>1. PICK b : b = Sync(job[w].page)
    OBVIOUS
  <2>2. kind # "table" /\ job[w].page \in Cursors(kind, Known)
    BY <1>0, <1>2, <2>1, DrainStep DEF Placed, JobKnown
  <2>3. b.ups \subseteq Known /\ b.next \in Maps(source) /\ b.dels \subseteq Known
    BY <1>0, <2>1, <2>2, SyncKnown DEF TypeInv
  <2>4. b.next # None /\ b.next \in Cursors(kind, Known)
    <3>1. /\ b.next \in [DOMAIN b.next -> {0, 1}] /\ DOMAIN b.next \subseteq Known
          /\ DOMAIN b.next \subseteq Items
      BY <1>0, <2>3, MapsOf
    <3>2. b.next # None
      BY <3>1, CollectAssumption
    <3>3. b.next \in Maps(Known)
      BY <3>1, MapsOf
    <3>4. QED
      BY <2>2, <3>2, <3>3 DEF Cursors
  <2>5. JobKnown(kind, Known, job'[w])
    BY <1>0, <1>2, <2>1, <2>3, <2>4, DrainStep DEF JobKnown
  <2>6. Placed(kind, pc'[w], job'[w])
    BY <1>0, <1>2, <2>1, <2>2, <2>4, DrainStep DEF Placed
  <2>7. QED
    BY <2>5, <2>6
<1>3. CASE DeleteNamed(w)
  <2>1. PICK i : /\ pc[w] = "delete" /\ pc'[w] = "delete"
                 /\ job'[w].dels = job[w].dels \ {i}
                 /\ job'[w].state = [job[w].state EXCEPT !.committed = @ \ {i}]
                 /\ UNCHANGED <<job[w].page, job[w].pages, job[w].full, job[w].ups, job[w].todo,
                                job[w].cut, job[w].all, job[w].advance, job[w].item,
                                job[w].fresh, job[w].ok>>
    BY <1>0, <1>3, DeleteNamedStep
  <2>2. job'[w].state \in Ledgers(kind, Known)
    <3>1. PICK T : T = job[w].state.committed \ {i}
      OBVIOUS
    <3>2. job'[w].state = [job[w].state EXCEPT !.committed = T] /\ T \in SUBSET Known
      BY <1>0, <2>1, <3>1, LedgerFields
    <3>3. QED
      BY <1>0, <3>2 DEF Ledgers
  <2>3. JobKnown(kind, Known, job'[w])
    BY <1>0, <2>1, <2>2 DEF JobKnown
  <2>4. Placed(kind, pc'[w], job'[w])
    BY <1>0, <2>1 DEF Placed
  <2>5. QED
    BY <2>3, <2>4
<1>4. CASE ListForReconcile(w)
  <2>1. job'[w].dels \subseteq Known
    BY <1>0, <1>4, ListForReconcileStep, ZenonT(60)
  <2>2. JobKnown(kind, Known, job'[w])
    BY <1>0, <1>4, <2>1, ListForReconcileStep DEF JobKnown
  <2>3. Placed(kind, pc'[w], job'[w])
    BY <1>0, <1>4, ListForReconcileStep DEF Placed
  <2>4. QED
    BY <2>2, <2>3
<1>5. CASE Reconcile(w)
  <2>1. PICK i : /\ pc[w] = "reconcile" /\ i = Min(job[w].dels)
                 /\ pc'[w] = IF job[w].dels = {i} THEN "partition" ELSE "reconcile"
                 /\ job'[w].dels = job[w].dels \ {i}
                 /\ UNCHANGED <<job[w].state, job[w].page, job[w].pages, job[w].full, job[w].ups,
                                job[w].todo, job[w].cut, job[w].all, job[w].advance,
                                job[w].item, job[w].fresh, job[w].ok>>
    BY <1>0, <1>5, ReconcileStep
  <2>2. i \in job[w].dels
    BY <1>0, <2>1, MinItem DEF Placed, JobKnown
  <2>3. JobKnown(kind, Known, job'[w])
    BY <1>0, <2>1 DEF JobKnown
  <2>4. Placed(kind, pc'[w], job'[w])
    BY <1>0, <2>1, <2>2 DEF Placed
  <2>5. QED
    BY <2>3, <2>4
<1>6. CASE Partition(w)
  <2>1. New(w) \subseteq Known /\ CutOff(w) \subseteq New(w)
    BY <1>0 DEF New, CutOff, JobKnown
  <2>2. job'[w].state \in Ledgers(kind, Known)
    <3>1. PICK T : T = job[w].state.committed \cup CutOff(w)
      OBVIOUS
    <3>2. job'[w].state = [job[w].state EXCEPT !.committed = T] /\ T \in SUBSET Known
      BY <1>0, <1>6, <2>1, <3>1, LedgerFields, PartitionStep
    <3>3. QED
      BY <1>0, <3>2 DEF Ledgers
  <2>3. JobKnown(kind, Known, job'[w])
    BY <1>0, <1>6, <2>1, <2>2, PartitionStep, ZenonT(60) DEF JobKnown
  <2>4. Placed(kind, pc'[w], job'[w])
    BY <1>0, <1>6, PartitionStep DEF Placed
  <2>5. QED
    BY <2>3, <2>4
<1>7. CASE PollRows(w)
  <2>1. job'[w].todo \subseteq Known
    BY <1>0, <1>7, PollRowsStep, ZenonT(60) DEF FirstOf, RowsFor
  <2>2. job'[w].all \in BOOLEAN
    BY <1>0, <1>7, PollRowsStep
  <2>3. JobKnown(kind, Known, job'[w])
    BY <1>0, <1>7, <2>1, <2>2, PollRowsStep DEF JobKnown
  <2>4. Placed(kind, pc'[w], job'[w])
    BY <1>0, <1>7, PollRowsStep DEF Placed
  <2>5. QED
    BY <2>3, <2>4
<1>8. CASE Write(w)
  <2>1. pc[w] = "run" /\ kind # "table" /\ pc'[w] \in {"effect", "verdict"}
    BY <1>0, <1>8, WriteStep
  <2>2. job'[w].item = Min(job[w].todo)
    BY <1>0, <1>8, WriteStep
  <2>3. UNCHANGED <<job[w].state, job[w].page, job[w].full, job[w].ups, job[w].dels, job[w].todo,
                    job[w].cut, job[w].all, job[w].advance>>
    BY <1>0, <1>8, WriteStep
  <2>4. job'[w].item \in job[w].todo /\ job'[w].item \in Items /\ job[w].page # None
    <3>1. job[w].todo # {} /\ job[w].todo \subseteq Items
      BY <1>0, <2>1 DEF Placed, JobKnown
    <3>2. Min(job[w].todo) \in job[w].todo
      BY <3>1, MinItem
    <3>3. QED
      BY <1>0, <2>1, <2>2, <3>1, <3>2 DEF Placed
  <2>5. job'[w].fresh \in BOOLEAN /\ job'[w].ok \in BOOLEAN
    BY <1>0, <1>8, WriteStep DEF JobKnown
  <2>6. JobKnown(kind, Known, job'[w])
    BY <1>0, <2>3, <2>4, <2>5 DEF JobKnown
  <2>7. Placed(kind, pc'[w], job'[w])
    BY <2>1, <2>3, <2>4 DEF Placed
  <2>8. QED
    BY <2>6, <2>7
<1>9. CASE StartRow(w)
  <2>1. job'[w].item \in job[w].todo /\ job'[w].item \in Items
    <3>1. /\ job'[w].item = Min(job[w].todo) /\ job[w].todo # {} /\ job[w].todo \subseteq Items
      BY <1>0, <1>9, StartRowStep DEF Placed, JobKnown
    <3>2. QED
      BY <3>1, MinItem
  <2>2. JobKnown(kind, Known, job'[w])
    BY <1>0, <1>9, <2>1, StartRowStep DEF JobKnown
  <2>3. Placed(kind, pc'[w], job'[w])
    BY <1>0, <1>9, <2>1, StartRowStep DEF Placed
  <2>4. QED
    BY <2>2, <2>3
<1>10. CASE Effect(w)
  <2>1. JobKnown(kind, Known, job'[w])
    BY <1>0, <1>10, EffectStep DEF JobKnown
  <2>2. Placed(kind, pc'[w], job'[w])
    BY <1>0, <1>10, EffectStep DEF Placed
  <2>3. QED
    BY <2>1, <2>2
<1>11. CASE Verdict(w)
  <2>1. job[w].item \in job[w].todo /\ job[w].todo \subseteq Known
    BY <1>0, <1>11, VerdictStep DEF Placed, JobKnown
  <2>2. job'[w].state \in Ledgers(kind, Known)
    <3>1. CASE Commits(w)
      <4>1. PICK T : T = job[w].state.committed \cup {job[w].item}
        OBVIOUS
      <4>2. job'[w].state = [job[w].state EXCEPT !.committed = T]
        BY <1>0, <1>11, <3>1, <4>1, VerdictStep
      <4> T \in SUBSET Known
        BY <1>0, <2>1, <4>1, LedgerFields
      <4>3. QED
        BY <1>0, <4>2 DEF Ledgers
    <3>2. CASE ~Commits(w)
      BY <1>0, <1>11, <3>2, VerdictStep
    <3>3. QED
      BY <3>1, <3>2
  <2>3. job'[w].advance \in {None} \cup {Stamp[i] : i \in Known}
    <3>1. CASE Commits(w)
      <4>1. job'[w].advance = Stamp[job[w].item]
        BY <1>0, <1>11, <3>1, VerdictStep
      <4>2. QED
        BY <2>1, <4>1
    <3>2. CASE ~Commits(w)
      BY <1>0, <1>11, <3>2, VerdictStep DEF JobKnown
    <3>3. QED
      BY <3>1, <3>2
  <2>4. job'[w].all \in BOOLEAN
    BY <1>0, <1>11, VerdictStep
  <2>5. JobKnown(kind, Known, job'[w])
    BY <1>0, <1>11, <2>2, <2>3, <2>4, VerdictStep, ZenonT(60) DEF JobKnown
  <2>6. Placed(kind, pc'[w], job'[w])
    <3>1. /\ pc[w] = "verdict" /\ pc'[w] = IF job[w].todo = {job[w].item} THEN "advance" ELSE "run"
          /\ job'[w].todo = job[w].todo \ {job[w].item} /\ UNCHANGED job[w].page
      BY <1>0, <1>11, VerdictStep
    <3>2. kind # "table" => job'[w].page # None
      BY <1>0, <3>1 DEF Placed
    <3>3. pc'[w] \in {"run", "advance"} /\ (pc'[w] = "run" => job'[w].todo # {})
          /\ (pc'[w] = "advance" => job'[w].todo = {})
      BY <1>0, <3>1 DEF Placed
    <3>4. QED
      BY <3>2, <3>3 DEF Placed
  <2>7. QED
    BY <2>5, <2>6
<1>12. QED
  BY <1>1, <1>2, <1>3, <1>4, <1>5, <1>6, <1>7, <1>8, <1>9, <1>10, <1>11

(* The lock changes nothing else of a job. *)
LEMMA CollectLocks ==
    ASSUME TypeInv, NEW w \in Workers, Acquire(w) \/ AcquireFails(w) \/ RefreshFails(w)
    PROVE  /\ \/ pc[w] = "idle" /\ pc'[w] = "load" /\ Resting(job[w]) /\ Resting(job'[w])
              \/ /\ pc'[w] = pc[w]
                 /\ UNCHANGED <<job[w].state, job[w].page, job[w].pages, job[w].full, job[w].ups,
                                job[w].dels, job[w].todo, job[w].cut, job[w].all, job[w].advance,
                                job[w].item, job[w].fresh, job[w].ok>>
           /\ \A v \in Workers \ {w} : pc'[v] = pc[v] /\ job'[v] = job[v]
           /\ UNCHANGED <<setup, outside, ledger, stored, seen>>
<1>0. JobShape /\ (pc[w] = "idle" => Resting(job[w]))
  BY DEF TypeInv, JobsKnown, Placed
<1> USE <1>0, Fields DEF JobShape, Goto, Set
<1>1. CASE Acquire(w)
  <2>1. /\ pc[w] = "idle" /\ pc' = [pc EXCEPT ![w] = "load"]
        /\ job' = [job EXCEPT ![w] = [NoJob EXCEPT !.held = TRUE, !.refreshing = TRUE]]
        /\ UNCHANGED <<setup, outside, ledger, stored, seen>>
    BY <1>1 DEF Acquire
  <2>2. Resting([NoJob EXCEPT !.held = TRUE, !.refreshing = TRUE])
    BY DEF Resting, NoJob
  <2>3. QED
    BY <2>1, <2>2
<1>2. CASE AcquireFails(w)
  BY <1>2 DEF AcquireFails
<1>3. CASE RefreshFails(w)
  BY <1>3 DEF RefreshFails
<1>4. QED
  BY <1>1, <1>2, <1>3

LEMMA LocksKnown ==
    ASSUME TypeInv, NEW w \in Workers, Acquire(w) \/ AcquireFails(w) \/ RefreshFails(w)
    PROVE  JobKnown(kind, Known, job'[w]) /\ Placed(kind, pc'[w], job'[w])
<1>0. JobKnown(kind, Known, job[w]) /\ Placed(kind, pc[w], job[w])
  BY DEF TypeInv, JobsKnown
<1>1. CASE pc'[w] = "load" /\ Resting(job'[w])
  BY <1>1, RestingKnown
<1>2. CASE /\ pc'[w] = pc[w]
           /\ UNCHANGED <<job[w].state, job[w].page, job[w].pages, job[w].full, job[w].ups,
                          job[w].dels, job[w].todo, job[w].cut, job[w].all, job[w].advance,
                          job[w].item, job[w].fresh, job[w].ok>>
  <2>1. JobKnown(kind, Known, job'[w])
    BY <1>0, <1>2 DEF JobKnown
  <2>2. Placed(kind, pc'[w], job'[w])
    BY <1>0, <1>2 DEF Placed, Resting
  <2>3. QED
    BY <2>1, <2>2
<1>3. QED
  BY <1>1, <1>2, CollectLocks

LEMMA AdvanceKnown ==
    ASSUME NEW j, JobKnown(kind, Known, j), kind # "table" => j.page # None
    PROVE  /\ kind # "table" => AdvanceSource(j) \in Ledgers(kind, Known)
           /\ kind = "table" => AdvanceTable(j) \in Ledgers(kind, Known)
<1>1. j.state \in Ledgers(kind, Known) /\ j.page \in Cursors(kind, Known)
  BY DEF JobKnown
<1>2. ASSUME kind # "table" PROVE AdvanceSource(j) \in Ledgers(kind, Known)
  <2> DEFINE state == [j.state EXCEPT !.initialized = TRUE]
             com == IF kind = "incremental" THEN {}
                    ELSE IF CursorChanged(j) THEN state.committed \cap j.ups ELSE state.committed
  <2>1. state \in Ledgers(kind, Known)
    BY <1>1 DEF Ledgers
  <2>2. com \subseteq Known
    BY <2>1 DEF Ledgers
  <2>3. AdvanceSource(j) = IF ~j.all THEN state ELSE [state EXCEPT !.cursor = j.page, !.committed = com]
    BY <1>1 DEF AdvanceSource, Ledgers
  <2> HIDE DEF state, com
  <2>4. [state EXCEPT !.cursor = j.page, !.committed = com] \in Ledgers(kind, Known)
    BY <1>1, <2>1, <2>2 DEF Ledgers
  <2>5. QED
    BY <2>1, <2>3, <2>4
<1>3. ASSUME kind = "table" PROVE AdvanceTable(j) \in Ledgers(kind, Known)
  <2> DEFINE com == {i \in j.state.committed : Stamp[i] = j.advance}
  <2>1. CASE ~j.all \/ j.advance = None
    BY <1>1, <2>1 DEF AdvanceTable
  <2>2. CASE ~ (~j.all \/ j.advance = None)
    <3>1. com \subseteq Known
      BY <1>1 DEF Ledgers
    <3>2. AdvanceTable(j) = [j.state EXCEPT !.cursor = j.advance, !.committed = com]
      BY <1>1, <2>2 DEF AdvanceTable, Ledgers
    <3>3. j.advance \in Cursors(kind, Known)
      BY <1>3, <2>2 DEF Cursors, JobKnown
    <3> HIDE DEF com
    <3>4. QED
      BY <1>1, <3>1, <3>2, <3>3 DEF Ledgers
  <2>3. QED
    BY <2>1, <2>2
<1>4. QED
  BY <1>2, <1>3

(* The anchor of a table: the stamp of a newest row, and the rows with it. *)
Top == IF source = {} THEN None ELSE Max({Stamp[i] : i \in source})

LEMMA AnchorKnown ==
    ASSUME TypeInv, NEW w \in Workers, Anchor(w)
    PROVE  /\ kind = "table" /\ ledger' \in Ledgers(kind, Known) /\ ledger'.cursor = Top
           /\ ledger'.committed \subseteq {i \in source : Stamp[i] = Top}
           /\ \E S \in SUBSET source :
                 /\ done' = done \cup S /\ touched' = touched \ S /\ ledger'.committed \subseteq S
                 /\ \A i \in source : Stamp[i] # Top => i \in S
<1> DEFINE boundary == {i \in source : Stamp[i] = Top}
<1>1. PICK rows \in SUBSET boundary :
         /\ ledger' = [cursor |-> Top, committed |-> rows, initialized |-> TRUE]
         /\ Enter((source \ boundary) \cup rows)
  BY DEF Anchor, Top
<1>2. kind = "table" /\ source \subseteq Items
  <2>1. pc[w] = "anchor"
    BY DEF Anchor
  <2>2. QED
    BY <2>1 DEF TypeInv, JobsKnown, Placed, GlobalTypes
<1>3. Top = None \/ \E k \in source : Top = Stamp[k]
  BY <1>2, TopStamp DEF Top
<1>4. Top \in Cursors(kind, Known)
  BY <1>2, <1>3 DEF Cursors, Known
<1>5. rows \subseteq Known
  BY DEF Known
<1>6. ledger' \in Ledgers(kind, Known)
  BY <1>1, <1>4, <1>5 DEF Ledgers
<1>7. (source \ boundary) \cup rows \in SUBSET source
  OBVIOUS
<1>8. QED
  BY <1>1, <1>2, <1>6, <1>7 DEF Enter

(* What a step of worker w does to the ledger, the rows and the             *)
(* observations.                                                           *)
LEMMA CollectShared ==
    ASSUME TypeInv, NEW w \in Workers, Step(w)
    PROVE  /\ ledger' \in Ledgers(kind, Known) /\ stored' \subseteq Known
           /\ blind' \subseteq Items /\ done' \subseteq Items /\ touched' \subseteq done'
           /\ spent' \in [Items -> 0..2]
<1>0. /\ JobShape /\ JobKnown(kind, Known, job[w]) /\ Placed(kind, pc[w], job[w])
      /\ ledger \in Ledgers(kind, Known) /\ stored \subseteq Known /\ Known \subseteq Items
      /\ blind \subseteq Items /\ done \subseteq Items /\ spent \in [Items -> 0..2]
      /\ touched \subseteq done /\ source \subseteq Items
      /\ job[w].state \in Ledgers(kind, Known) /\ job[w].state \in States(kind)
  <2>1. JobShape /\ JobKnown(kind, Known, job[w]) /\ Placed(kind, pc[w], job[w])
    BY DEF TypeInv, JobsKnown
  <2>2. /\ ledger \in Ledgers(kind, Known) /\ stored \subseteq Known /\ Known \subseteq Items
        /\ blind \subseteq Items /\ done \subseteq Items /\ spent \in [Items -> 0..2]
        /\ touched \subseteq done /\ source \subseteq Items
    BY DEF TypeInv, GlobalTypes, Known
  <2>3. job[w].state \in Ledgers(kind, Known)
    BY <2>1 DEF JobKnown
  <2>4. QED
    BY <2>1, <2>2, <2>3, KnownTyped
<1>1. ASSUME NEW i, DeleteRow(i)
      PROVE  /\ stored' \subseteq Known /\ blind' \subseteq Items /\ done' \subseteq Items
             /\ touched' \subseteq done' /\ spent' \in [Items -> 0..2]
  <2>1. 0 \in 0..2
    OBVIOUS
  <2>2. [spent EXCEPT ![i] = 0] \in [Items -> 0..2]
    BY <1>0, <2>1
  <2>3. QED
    BY <1>0, <1>1, <2>2 DEF DeleteRow
<1>2. CASE Load(w) \/ Drain(w) \/ ListForReconcile(w) \/ Partition(w) \/ PollRows(w)
           \/ StartRow(w) \/ Release(w)
  <2>1. UNCHANGED <<ledger, stored, seen>>
    BY <1>2 DEF Load, Drain, ListForReconcile, Partition, PollRows, StartRow, Release
  <2>2. QED
    BY <1>0, <2>1 DEF seen
<1>3. CASE DeleteNamed(w)
  <2>1. ledger' = ledger /\ \E i : DeleteRow(i)
    BY <1>3 DEF DeleteNamed
  <2>2. QED
    BY <1>0, <1>1, <2>1
<1>4. CASE Reconcile(w)
  <2>1. ledger' = ledger /\ \E i : DeleteRow(i)
    BY <1>4 DEF Reconcile
  <2>2. QED
    BY <1>0, <1>1, <2>1
<1>5. CASE Anchor(w)
  <2>1. UNCHANGED <<stored, blind, spent>>
    BY <1>5 DEF Anchor
  <2>2. QED
    BY <1>0, <1>5, <2>1, AnchorKnown
<1>6. CASE Write(w)
  <2>1. UNCHANGED <<ledger, done, spent, touched>> /\ pc[w] = "run" /\ job'[w].item = Min(job[w].todo)
    BY <1>0, <1>6, WriteStep
  <2>2. /\ stored' \in {stored, stored \cup {job'[w].item}}
        /\ blind' \in {blind, blind \cup {job'[w].item}}
    BY <1>0, <1>6, WriteStep
  <2>3. job[w].todo # {} /\ job[w].todo \subseteq Known
    BY <1>0, <2>1 DEF Placed, JobKnown
  <2>4. job'[w].item \in Known
    BY <1>0, <2>1, <2>3, MinItem
  <2>5. QED
    BY <1>0, <2>1, <2>2, <2>4
<1>7. CASE Effect(w)
  <2>1. /\ UNCHANGED <<ledger, stored, blind, done, touched>>
        /\ spent' = [spent EXCEPT ![job[w].item] = IF job[w].fresh /\ @ < 2 THEN @ + 1 ELSE @]
    BY <1>0, <1>7, EffectStep
  <2>2. \A n \in 0..2 : (IF job[w].fresh /\ n < 2 THEN n + 1 ELSE n) \in 0..2
    OBVIOUS
  <2>3. spent' \in [Items -> 0..2]
    BY <1>0, <2>1, <2>2
  <2>4. QED
    BY <1>0, <2>1, <2>3
<1>8. CASE Verdict(w)
  <2>1. job[w].item \in job[w].todo /\ job[w].todo \subseteq Known /\ job[w].cut \subseteq Known
    BY <1>0, <1>8, VerdictStep DEF Placed, JobKnown
  <2>2. /\ done' = done \cup Enters(w) /\ touched' = touched \ Enters(w)
        /\ UNCHANGED <<stored, blind, spent>> /\ ledger' = job'[w].state
    BY <1>0, <1>8, VerdictStep
  <2>3. JobKnown(kind, Known, job'[w])
    BY <1>8, CollectWork DEF Verdict
  <2>4. ledger' \in Ledgers(kind, Known)
    BY <2>2, <2>3 DEF JobKnown
  <2>5. QED
    BY <1>0, <2>1, <2>2, <2>4 DEF Enters
<1>9. CASE Advance(w)
  <2>1. /\ ledger' = IF kind = "table" THEN AdvanceTable(job[w]) ELSE AdvanceSource(job[w])
        /\ done' = done \cup job[w].cut /\ touched' = touched \ job[w].cut
        /\ UNCHANGED <<stored, blind, spent>> /\ pc[w] = "advance"
    BY <1>9 DEF Advance, Enter
  <2>2. kind # "table" => job[w].page # None
    BY <1>0, <2>1 DEF Placed
  <2>3. ledger' \in Ledgers(kind, Known)
    BY <1>0, <2>1, <2>2, AdvanceKnown
  <2>4. job[w].cut \subseteq Known
    BY <1>0 DEF JobKnown
  <2>5. QED
    BY <1>0, <2>1, <2>3, <2>4
<1>10. QED
  BY <1>2, <1>3, <1>4, <1>5, <1>6, <1>7, <1>8, <1>9 DEF Step

(* Every step: who acts, and that all jobs stay with known items. *)
LEMMA CollectTypeNext == TypeInv /\ [Next]_vars => TypeInv'
<1> SUFFICES ASSUME TypeInv, [Next]_vars PROVE TypeInv'
  OBVIOUS
<1>0. /\ JobShape /\ JobShape' /\ GlobalTypes /\ kind' = kind /\ Known \subseteq Known'
      /\ UNCHANGED setup
  BY CollectGuarded, CollectOutside DEF TypeInv, setup
<1> DEFINE Shared == /\ ledger' \in Ledgers(kind, Known) /\ stored' \subseteq Known
                     /\ blind' \subseteq Items /\ done' \subseteq Items /\ touched' \subseteq done'
                     /\ spent' \in [Items -> 0..2]
           Jobs == \A v \in Workers : JobKnown(kind, Known, job'[v]) /\ Placed(kind, pc'[v], job'[v])
<1>1. ASSUME Shared, Jobs PROVE TypeInv'
  <2>1. GlobalTypes'
    BY <1>0, <1>1, CollectOutside DEF GlobalTypes, setup
  <2>2. JobsKnown'
    BY <1>0, <1>1, KnownMore DEF JobsKnown
  <2>3. (ledger \in Ledgers(kind, Known))' /\ (stored \subseteq Known)'
    BY <1>0, <1>1, KnownMore
  <2>4. QED
    BY <1>0, <2>1, <2>2, <2>3 DEF TypeInv
<1>2. ASSUME UNCHANGED <<ledger, stored, seen>> PROVE Shared
  BY <1>2 DEF seen, TypeInv, GlobalTypes
<1>3. ASSUME NEW w \in Workers,
             \A v \in Workers \ {w} : pc'[v] = pc[v] /\ job'[v] = job[v],
             JobKnown(kind, Known, job'[w]) /\ Placed(kind, pc'[w], job'[w])
      PROVE  Jobs
  BY <1>3 DEF TypeInv, JobsKnown
<1>4. ASSUME UNCHANGED <<pc, job>> PROVE Jobs
  BY <1>4 DEF TypeInv, JobsKnown
<1>5. CASE \E i \in Items : Arrive(i) \/ Vanish(i) \/ Touch(i) \/ Age(i)
  <2>1. UNCHANGED <<pc, job, ledger, stored, blind, done, spent>> /\ touched' \subseteq done
    BY <1>5 DEF Arrive, Vanish, Touch, Age, seen, TypeInv, GlobalTypes
  <2>2. Shared
    BY <2>1 DEF TypeInv, GlobalTypes
  <2>3. QED
    BY <1>1, <1>4, <2>1, <2>2
<1>6. ASSUME NEW w \in Workers, Step(w) PROVE TypeInv'
  <2>1. Shared
    BY <1>6, CollectShared
  <2>2. CASE Anchor(w) \/ Advance(w) \/ Release(w)
    <3>1. /\ pc'[w] \in {"idle", "release"} /\ Resting(job'[w])
          /\ \A v \in Workers \ {w} : pc'[v] = pc[v] /\ job'[v] = job[v]
      BY <1>0, <2>2, CollectEnds
    <3>2. JobKnown(kind, Known, job'[w]) /\ Placed(kind, pc'[w], job'[w])
      BY <3>1, RestingKnown
    <3>3. Jobs
      BY <1>3, <3>1, <3>2
    <3>4. QED
      BY <1>1, <2>1, <3>3
  <2>3. CASE Load(w) \/ Drain(w) \/ DeleteNamed(w) \/ ListForReconcile(w) \/ Reconcile(w)
             \/ Partition(w) \/ PollRows(w) \/ Write(w) \/ StartRow(w) \/ Effect(w) \/ Verdict(w)
    <3>1. \A v \in Workers \ {w} : pc'[v] = pc[v] /\ job'[v] = job[v]
      BY <1>0, <2>3, CollectInside DEF Inside
    <3>2. JobKnown(kind, Known, job'[w]) /\ Placed(kind, pc'[w], job'[w])
      BY <1>0, <2>3, CollectWork
    <3>3. Jobs
      BY <1>3, <3>1, <3>2
    <3>4. QED
      BY <1>1, <2>1, <3>3
  <2>4. QED
    BY <1>6, <2>2, <2>3 DEF Step
<1>7. ASSUME NEW w \in Workers, Acquire(w) \/ AcquireFails(w) \/ RefreshFails(w) PROVE TypeInv'
  <2>1. /\ \A v \in Workers \ {w} : pc'[v] = pc[v] /\ job'[v] = job[v]
        /\ UNCHANGED <<ledger, stored, seen>>
    BY <1>7, CollectLocks
  <2>2. JobKnown(kind, Known, job'[w]) /\ Placed(kind, pc'[w], job'[w])
    BY <1>7, LocksKnown
  <2>3. Jobs
    BY <1>3, <2>1, <2>2
  <2>4. QED
    BY <1>1, <1>2, <2>1, <2>3
<1>8. ASSUME NEW w \in Workers, NotToday(w) \/ Fail(w) \/ Crash(w) PROVE TypeInv'
  <2>1. /\ pc'[w] \in {"idle", "release"} /\ Resting(job'[w])
        /\ \A v \in Workers \ {w} : pc'[v] = pc[v] /\ job'[v] = job[v]
    BY <1>0, <1>8, CollectEnds
  <2>2. JobKnown(kind, Known, job'[w]) /\ Placed(kind, pc'[w], job'[w])
    BY <2>1, RestingKnown
  <2>3. Jobs
    BY <1>3, <2>1, <2>2
  <2>4. UNCHANGED <<ledger, stored, seen>>
    BY <1>8 DEF NotToday, Fail, Crash
  <2>5. QED
    BY <1>1, <1>2, <2>3, <2>4
<1>9. CASE Expire
  <2>1. UNCHANGED <<pc, job, ledger, stored, seen>>
    BY <1>9 DEF Expire
  <2>2. QED
    BY <1>1, <1>2, <1>4, <2>1
<1>10. CASE UNCHANGED vars
  <2>1. UNCHANGED <<pc, job, ledger, stored, seen>>
    BY <1>10 DEF vars
  <2>2. QED
    BY <1>1, <1>2, <1>4, <2>1
<1>11. QED
  BY <1>5, <1>6, <1>7, <1>8, <1>9, <1>10 DEF Next

LEMMA CollectTypeInit == Init => TypeInv
<1> SUFFICES ASSUME Init PROVE TypeInv
  OBVIOUS
<1>1. GlobalTypes /\ JobShape
  <2>1. 0 \in 0..2 /\ 0 \in 0..MaxFaults
    BY CollectAssumption
  <2>2. spent \in [Items -> 0..2]
    BY <2>1 DEF Init
  <2>3. JobShape
    BY DEF Init, JobShape
  <2>4. flags \in [Items -> {0, 1}]
    BY DEF Init
  <2>5. QED
    BY <2>1, <2>2, <2>3, <2>4 DEF Init, GlobalTypes
<1>2. \A w \in Workers : pc[w] = "idle" /\ Resting(job[w])
  BY DEF Init, Resting, NoJob
<1>3. JobsKnown
  BY <1>2, RestingKnown DEF JobsKnown
<1>4. ledger \in Ledgers(kind, Known) /\ stored \subseteq Known
  BY DEF Init, Ledgers, Cursors, NewState
<1>5. QED
  BY <1>1, <1>3, <1>4 DEF TypeInv

(* Every variable keeps its type: ledgers and jobs name items that are or   *)
(* were at the source and cursors of their kind of source, and a job runs   *)
(* an item it chose.                                                       *)
THEOREM CollectTyped == Spec => []TypeOK
<1>1. TypeInv => TypeOK
  <2> SUFFICES ASSUME TypeInv PROVE TypeOK
    OBVIOUS
  <2>1. GlobalTypes /\ JobShape /\ Known \subseteq Items /\ stored \subseteq Items
    BY DEF TypeInv, GlobalTypes, Known
  <2>2. ledger \in States(kind)
    BY <2>1, KnownTyped DEF TypeInv
  <2>3. ASSUME NEW w \in Workers
        PROVE  /\ job[w].state \in States(kind)
               /\ job[w].item \in IF pc[w] \in {"effect", "verdict"} THEN Items ELSE Items \cup {NoItem}
    <3>1. JobKnown(kind, Known, job[w]) /\ Placed(kind, pc[w], job[w])
      BY DEF TypeInv, JobsKnown
    <3>2. job[w].state \in States(kind)
      BY <2>1, <3>1, KnownTyped DEF JobKnown
    <3>3. QED
      BY <2>1, <3>1, <3>2 DEF JobKnown, Placed
  <2>4. QED
    BY <2>1, <2>2, <2>3 DEF TypeOK, GlobalTypes, JobShape
<1>2. QED
  BY <1>1, CollectTypeInit, CollectTypeNext, PTL DEF Spec

-----------------------------------------------------------------------------
(* Nothing is lost. *)

(* Items that vanished do not come back, and rows do not vanish. *)
Apart == source \cap gone = {} /\ (kind = "table" => gone = {})

Drained == {"delete", "reconcile", "partition", "run", "effect", "verdict", "advance"}
Chosen  == {"run", "effect", "verdict", "advance"}

(* What a job that is alone knows of a snapshot: all that is at the source, *)
(* S, and its digest, d.                                                   *)
Whole(S, d, p, j) ==
    /\ p = "drain" => j.ups = {} /\ j.page = j.state.cursor
    /\ p \in Drained => j.page = d /\ (j.ups = S \/ (j.ups = {} /\ j.page = j.state.cursor))

WholeInv ==
    kind = "snapshot" /\ ~busFailed => \A w \in Workers : Whole(source, Digest, pc[w], job[w])

LEMMA CollectApart == ASSUME ~Returns, TypeInv, Apart, [Next]_vars PROVE Apart'
<1>1. ASSUME UNCHANGED <<setup, outside>> PROVE Apart'
  BY <1>1 DEF Apart, setup, outside
<1>2. ASSUME NEW i \in Items, Arrive(i) \/ Vanish(i) \/ Touch(i) \/ Age(i) PROVE Apart'
  <2>1. CASE Arrive(i)
    BY <2>1 DEF Arrive, Apart, setup
  <2>2. CASE Vanish(i)
    <3>1. PICK w \in Workers : pc[w] = "drain"
      BY <2>2 DEF Vanish, About
    <3>2. kind # "table"
      BY <3>1 DEF TypeInv, JobsKnown, Placed
    <3>3. QED
      BY <2>2, <3>2 DEF Vanish, Apart, setup
  <2>3. CASE Touch(i) \/ Age(i)
    BY <2>3 DEF Touch, Age, Apart, setup
  <2>4. QED
    BY <1>2, <2>1, <2>2, <2>3
<1>3. CASE UNCHANGED vars
  BY <1>1, <1>3 DEF vars
<1>4. CASE \E w \in Workers : Step(w)
  <2>1. UNCHANGED <<setup, outside>>
    BY <1>4, ZenonT(60) DEF Step, Load, Drain, DeleteNamed, ListForReconcile, Reconcile, Partition, Anchor,
           PollRows, Write, StartRow, Effect, Verdict, Advance, Release
  <2>2. QED
    BY <1>1, <2>1
<1>5. CASE \/ Expire
           \/ \E w \in Workers : Acquire(w) \/ AcquireFails(w) \/ RefreshFails(w)
                                 \/ NotToday(w) \/ Fail(w) \/ Crash(w)
  <2>1. UNCHANGED <<setup, outside>>
    BY <1>5 DEF Expire, Acquire, AcquireFails, RefreshFails, NotToday, Fail, Crash
  <2>2. QED
    BY <1>1, <2>1
<1>6. QED
  BY <1>2, <1>3, <1>4, <1>5 DEF Next

(* The steps of a job that is alone with a snapshot. *)
LEMMA WholeWork ==
    ASSUME TypeInv, NEW w \in Workers, kind = "snapshot", Whole(source, Digest, pc[w], job[w]),
           Load(w) \/ Drain(w) \/ DeleteNamed(w) \/ ListForReconcile(w) \/ Reconcile(w)
           \/ Partition(w) \/ PollRows(w) \/ Write(w) \/ StartRow(w) \/ Effect(w) \/ Verdict(w)
    PROVE  Whole(source, Digest, pc'[w], job'[w])
<1>0. /\ JobShape /\ JobKnown(kind, Known, job[w]) /\ Placed(kind, pc[w], job[w])
      /\ job[w].state \in Ledgers(kind, Known) /\ job[w].state \in States(kind)
  <2>1. JobShape /\ JobKnown(kind, Known, job[w]) /\ Placed(kind, pc[w], job[w])
    BY DEF TypeInv, JobsKnown
  <2>2. Known \subseteq Items
    BY DEF TypeInv, Known, GlobalTypes
  <2>3. job[w].state \in Ledgers(kind, Known)
    BY <2>1 DEF JobKnown
  <2>4. QED
    BY <2>1, <2>2, <2>3, KnownTyped
<1> USE DEF Whole, Drained
<1>1. CASE Load(w)
  <2>1. Resting(job[w])
    BY <1>0, <1>1, LoadStep DEF Placed
  <2>2. pc'[w] = "drain" /\ job'[w].state = ledger /\ job'[w].page = ledger.cursor
        /\ job'[w].ups = job[w].ups
    BY <1>0, <1>1, LoadStep
  <2>3. QED
    BY <2>1, <2>2 DEF Resting
<1>2. CASE Drain(w)
  <2>1. PICK b : b = Sync(job[w].page)
    OBVIOUS
  <2>2. /\ b.ups = (IF job[w].page = Digest THEN {} ELSE source) /\ b.next = Digest /\ ~b.more
    BY <1>0, <2>1, SyncKnown DEF TypeInv, JobKnown
  <2>3. /\ pc[w] = "drain" /\ pc'[w] \in {"drain", "delete"} /\ (pc'[w] = "drain" => b.more)
        /\ job'[w].ups = job[w].ups \cup b.ups /\ job'[w].page = b.next
        /\ job'[w].state = job[w].state
    BY <1>0, <1>2, <2>1, DrainStep
  <2>4. QED
    BY <2>2, <2>3
<1>3. CASE DeleteNamed(w)
  <2>1. PICK i : /\ pc[w] = "delete" /\ pc'[w] = "delete"
                 /\ job'[w].state = [job[w].state EXCEPT !.committed = @ \ {i}]
                 /\ UNCHANGED <<job[w].page, job[w].ups>>
    BY <1>0, <1>3, DeleteNamedStep
  <2>2. job'[w].state.cursor = job[w].state.cursor
    BY <1>0, <2>1 DEF Ledgers
  <2>3. QED
    BY <2>1, <2>2
<1>4. CASE ListForReconcile(w)
  BY <1>0, <1>4, ListForReconcileStep
<1>5. CASE Reconcile(w)
  <2>1. pc[w] = "reconcile" /\ pc'[w] \in {"partition", "reconcile"}
        /\ UNCHANGED <<job[w].state, job[w].page, job[w].ups>>
    BY <1>0, <1>5, ReconcileStep
  <2>2. QED
    BY <2>1
<1>6. CASE Partition(w)
  <2>1. /\ pc[w] = "partition" /\ pc'[w] \in {"advance", "run"}
        /\ job'[w].state = [job[w].state EXCEPT !.committed = @ \cup CutOff(w)]
        /\ UNCHANGED <<job[w].page, job[w].ups>>
    BY <1>0, <1>6, PartitionStep
  <2>2. job'[w].state.cursor = job[w].state.cursor
    BY <1>0, <2>1 DEF Ledgers
  <2>3. QED
    BY <2>1, <2>2
<1>7. CASE PollRows(w)
  <2>1. pc[w] = "poll"
    BY <1>0, <1>7, PollRowsStep
  <2>2. QED
    BY <1>0, <2>1 DEF Placed
<1>8. CASE Write(w)
  <2>1. pc[w] = "run" /\ pc'[w] \in {"effect", "verdict"}
    BY <1>0, <1>8, WriteStep
  <2>2. UNCHANGED <<job[w].state, job[w].page, job[w].ups>>
    BY <1>0, <1>8, WriteStep
  <2>3. QED
    BY <2>1, <2>2
<1>9. CASE StartRow(w)
  BY <1>9 DEF StartRow
<1>10. CASE Effect(w)
  BY <1>0, <1>10, EffectStep
<1>11. CASE Verdict(w)
  <2>1. /\ pc[w] = "verdict" /\ pc'[w] \in {"advance", "run"} /\ UNCHANGED <<job[w].page, job[w].ups>>
        /\ job'[w].state = IF Commits(w)
                           THEN [job[w].state EXCEPT !.committed = @ \cup {job[w].item}]
                           ELSE job[w].state
    BY <1>0, <1>11, VerdictStep
  <2>2. job'[w].state.cursor = job[w].state.cursor
    BY <1>0, <2>1 DEF Ledgers
  <2>3. QED
    BY <2>1, <2>2
<1>12. QED
  BY <1>1, <1>2, <1>3, <1>4, <1>5, <1>6, <1>7, <1>8, <1>9, <1>10, <1>11

LEMMA CollectWhole ==
    ASSUME TypeInv, Guarded, \A w \in Workers : Whole(source, Digest, pc[w], job[w]), kind = "snapshot",
           [Next]_vars
    PROVE  \A w \in Workers : Whole(source', Digest', pc'[w], job'[w])
<1>0. JobShape
  BY DEF TypeInv
<1>1. ASSUME NEW w \in Workers, source' = source, flags' = flags, Whole(source, Digest, pc'[w], job'[w]),
             \A v \in Workers \ {w} : pc'[v] = pc[v] /\ job'[v] = job[v]
      PROVE  \A v \in Workers : Whole(source', Digest', pc'[v], job'[v])
  <2>1. Digest' = Digest
    BY <1>1 DEF Digest
  <2>2. QED
    BY <1>1, <2>1
<1>2. ASSUME source' = source, flags' = flags, UNCHANGED <<pc, job>>
      PROVE  \A v \in Workers : Whole(source', Digest', pc'[v], job'[v])
  <2>1. Digest' = Digest
    BY <1>2 DEF Digest
  <2>2. QED
    BY <1>2, <2>1
<1>3. ASSUME NEW i \in Items, Arrive(i) \/ Vanish(i) \/ Touch(i)
      PROVE  \A v \in Workers : Whole(source', Digest', pc'[v], job'[v])
  <2>1. PICK w \in Workers : pc[w] \in {"drain", "anchor", "poll"}
    BY <1>3 DEF Arrive, Vanish, Touch, About
  <2>2. UNCHANGED <<pc, job>>
    BY <1>3 DEF Arrive, Vanish, Touch
  <2>3. \A v \in Workers : v # w => pc[v] = "idle"
    BY <2>1 DEF Guarded
  <2>4. QED
    BY <2>1, <2>2, <2>3 DEF Whole, Drained
<1>4. ASSUME NEW i \in Items, Age(i)
      PROVE  \A v \in Workers : Whole(source', Digest', pc'[v], job'[v])
  <2>1. source' = source /\ flags' = flags /\ UNCHANGED <<pc, job>>
    BY <1>4 DEF Age
  <2>2. QED
    BY <1>2, <2>1
<1>5. ASSUME NEW w \in Workers,
             Load(w) \/ Drain(w) \/ DeleteNamed(w) \/ ListForReconcile(w) \/ Reconcile(w)
             \/ Partition(w) \/ PollRows(w) \/ Write(w) \/ StartRow(w) \/ Effect(w) \/ Verdict(w)
      PROVE  \A v \in Workers : Whole(source', Digest', pc'[v], job'[v])
  <2>1. \A v \in Workers \ {w} : pc'[v] = pc[v] /\ job'[v] = job[v]
    BY <1>0, <1>5, CollectInside DEF Inside
  <2>2. source' = source /\ flags' = flags
    BY <1>5 DEF Load, Drain, DeleteNamed, ListForReconcile, Reconcile, Partition, PollRows, Write,
           StartRow, Effect, Verdict, outside
  <2>3. Whole(source, Digest, pc'[w], job'[w])
    BY <1>5, WholeWork
  <2>4. QED
    BY <1>1, <2>1, <2>2, <2>3
<1>6. ASSUME NEW w \in Workers,
             Anchor(w) \/ Advance(w) \/ NotToday(w) \/ Fail(w) \/ Release(w) \/ Crash(w)
      PROVE  \A v \in Workers : Whole(source', Digest', pc'[v], job'[v])
  <2>1. /\ pc'[w] \in {"idle", "release"}
        /\ \A v \in Workers \ {w} : pc'[v] = pc[v] /\ job'[v] = job[v]
        /\ UNCHANGED outside
    BY <1>0, <1>6, CollectEnds
  <2>2. Whole(source, Digest, pc'[w], job'[w])
    BY <2>1 DEF Whole, Drained
  <2>3. QED
    BY <1>1, <2>1, <2>2 DEF outside
<1>7. ASSUME NEW w \in Workers, Acquire(w) \/ AcquireFails(w) \/ RefreshFails(w)
      PROVE  \A v \in Workers : Whole(source', Digest', pc'[v], job'[v])
  <2>1. /\ pc'[w] = "load" \/ (pc'[w] = pc[w] /\ UNCHANGED <<job[w].state, job[w].page, job[w].ups>>)
        /\ \A v \in Workers \ {w} : pc'[v] = pc[v] /\ job'[v] = job[v]
        /\ UNCHANGED outside
    BY <1>7, CollectLocks
  <2>2. Whole(source, Digest, pc'[w], job'[w])
    BY <2>1 DEF Whole, Drained
  <2>3. QED
    BY <1>1, <2>1, <2>2 DEF outside
<1>8. CASE Expire \/ UNCHANGED vars
  <2>1. source' = source /\ flags' = flags /\ UNCHANGED <<pc, job>>
    BY <1>8 DEF Expire, vars, outside
  <2>2. QED
    BY <1>2, <2>1
<1>9. QED
  BY <1>3, <1>4, <1>5, <1>6, <1>7, <1>8 DEF Next, Step

(* The items a state of the ledger passes over, for a kind of source. *)
PassedFrom(k, s) ==
    s.committed \cup (IF s.cursor = None THEN {}
                      ELSE IF k = "table" THEN {i \in Items : Stamp[i] < s.cursor}
                      ELSE DOMAIN s.cursor)

Named(s) == DOMAIN Told(s.cursor)

(* While all a job has chosen is committed, the rest is still to be run: of *)
(* a table, what is not done is to be run or newer than what was.           *)
Settles(k, S, D, j) ==
    IF k # "table" THEN j.ups \cap Matching \subseteq j.state.committed \cup j.todo
    ELSE \A i \in S \cap Matching :
            \/ i \in D \cup j.todo
            \/ /\ \A t \in j.todo : t < i
               /\ j.advance # None => j.advance <= Stamp[i]

(* S is at the source, G has vanished and D is done. *)
JobSound(k, S, G, D, p, j) ==
    /\ PassedFrom(k, j.state) \cap S \cap Matching \subseteq D \cup j.cut
    /\ j.dels \subseteq G
    /\ k # "table" /\ j.page # None => DOMAIN j.page \subseteq Named(j.state) \cup j.ups
    /\ p \in Chosen /\ j.all => Settles(k, S, D, j)

(* Jobs may be many, except for a snapshot. *)
Reliable == kind = "snapshot" => ~busFailed

SoundInv ==
    Reliable =>
       /\ PassedOver \cap source \cap Matching \subseteq done
       /\ \A w \in Workers : JobSound(kind, source, gone, done, pc[w], job[w])

LossInv == TypeInv /\ LockInv /\ Apart /\ WholeInv /\ SoundInv

(* What comes to the source later is not passed over by what was known      *)
(* before.                                                                 *)
LEMMA PassedStays ==
    ASSUME NEW k, NEW K \in SUBSET Items, NEW s \in Ledgers(k, K), NEW i \in Items \ K,
           k = "table" => \A t \in K : t < i
    PROVE  i \notin PassedFrom(k, s)
<1>1. s.committed \subseteq K /\ s.cursor \in Cursors(k, K)
  BY LedgerFields
<1>2. CASE k # "table"
  <2>1. s.cursor = None \/ DOMAIN s.cursor \subseteq K
    BY <1>1, <1>2, MapsOf DEF Cursors
  <2>2. QED
    BY <1>1, <1>2, <2>1 DEF PassedFrom
<1>3. CASE k = "table" /\ s.cursor # None
  <2>1. PICK t \in K : s.cursor = Stamp[t]
    BY <1>1, <1>3 DEF Cursors
  <2>2. t < i /\ t \in Items
    BY <1>3
  <2>3. Stamp[t] <= Stamp[i] /\ Stamp[t] \in Nat /\ Stamp[i] \in Nat
    BY <2>2, CollectAssumption
  <2>4. QED
    BY <1>1, <1>3, <2>1, <2>3 DEF PassedFrom
<1>4. CASE k = "table" /\ s.cursor = None
  BY <1>1, <1>4 DEF PassedFrom
<1>5. QED
  BY <1>2, <1>3, <1>4

(* What holds of a job is not disturbed by what happens around it. *)
LEMMA SoundStays ==
    ASSUME NEW k, NEW K \in SUBSET Items, NEW S, NEW G, NEW D, NEW p, NEW j,
           JobKnown(k, K, j), JobSound(k, S, G, D, p, j),
           NEW S2 \in SUBSET Items, NEW G2, NEW D2, G \subseteq G2, D \cap S2 \subseteq D2,
           \A i \in S2 \ S : i \notin K /\ (k = "table" => \A t \in K : t < i)
    PROVE  JobSound(k, S2, G2, D2, p, j)
<1>1. j.state \in Ledgers(k, K) /\ j.todo \subseteq K /\ j.advance \in {None} \cup {Stamp[i] : i \in K}
  BY DEF JobKnown
<1>2. PassedFrom(k, j.state) \cap S2 \cap Matching \subseteq D2 \cup j.cut
  <2> SUFFICES ASSUME NEW i \in PassedFrom(k, j.state) \cap S2 \cap Matching
               PROVE  i \in D2 \cup j.cut
    OBVIOUS
  <2>1. i \in S
    BY <1>1, PassedStays
  <2>2. i \in D \cup j.cut
    BY <2>1 DEF JobSound
  <2>3. QED
    BY <2>2
<1>3. ASSUME p \in Chosen, j.all PROVE Settles(k, S2, D2, j)
  <2>1. Settles(k, S, D, j)
    BY <1>3 DEF JobSound
  <2>2. CASE k # "table"
    BY <2>1, <2>2 DEF Settles
  <2>3. CASE k = "table"
    <3> SUFFICES ASSUME NEW i \in S2 \cap Matching
                 PROVE  \/ i \in D2 \cup j.todo
                        \/ /\ \A t \in j.todo : t < i
                           /\ j.advance # None => j.advance <= Stamp[i]
      BY <2>3 DEF Settles
    <3>1. CASE i \in S
      BY <2>1, <2>3, <3>1 DEF Settles
    <3>2. CASE i \notin S
      <4>1. \A t \in K : t < i
        BY <2>3, <3>2
      <4>2. \A t \in K : Stamp[t] <= Stamp[i]
        BY <4>1, CollectAssumption
      <4>3. QED
        BY <1>1, <4>1, <4>2
    <3>3. QED
      BY <3>1, <3>2
  <2>4. QED
    BY <2>2, <2>3
<1>4. QED
  BY <1>2, <1>3 DEF JobSound

(* The steps of a job: what it leaves the job, the ledger and done with. *)
LEMMA SoundWork ==
    ASSUME TypeInv, Apart, NEW w \in Workers,
           JobSound(kind, source, gone, done, pc[w], job[w]),
           PassedOver \cap source \cap Matching \subseteq done,
           kind = "snapshot" => Whole(source, Digest, pc[w], job[w]),
           Load(w) \/ Drain(w) \/ DeleteNamed(w) \/ ListForReconcile(w) \/ Reconcile(w)
           \/ Partition(w) \/ PollRows(w) \/ Write(w) \/ StartRow(w) \/ Effect(w) \/ Verdict(w)
    PROVE  JobSound(kind, source, gone, done', pc'[w], job'[w])
<1>0. /\ JobShape /\ JobKnown(kind, Known, job[w]) /\ Placed(kind, pc[w], job[w])
      /\ job[w].state \in Ledgers(kind, Known) /\ job[w].state \in States(kind)
      /\ ledger \in Ledgers(kind, Known) /\ Known \subseteq Items
      /\ stored \subseteq Known
  <2>1. JobShape /\ JobKnown(kind, Known, job[w]) /\ Placed(kind, pc[w], job[w])
    BY DEF TypeInv, JobsKnown
  <2>2. Known \subseteq Items /\ stored \subseteq Known /\ ledger \in Ledgers(kind, Known)
    BY DEF TypeInv, Known, GlobalTypes
  <2>3. job[w].state \in Ledgers(kind, Known)
    BY <2>1 DEF JobKnown
  <2>4. QED
    BY <2>1, <2>2, <2>3, KnownTyped
<1>00. kind \in {"incremental", "snapshot", "table"}
  BY CollectAssumption DEF TypeInv, GlobalTypes
<1>1. CASE Load(w)
  <2>1. Resting(job[w])
    BY <1>0, <1>1, LoadStep DEF Placed
  <2>2. /\ job'[w].state = ledger /\ job'[w].page = ledger.cursor
        /\ pc'[w] \in {"drain", "poll", "anchor"} /\ done' = done
        /\ UNCHANGED <<job[w].dels, job[w].cut, job[w].ups>>
    BY <1>0, <1>1, LoadStep DEF seen
  <2>3. PassedFrom(kind, ledger) = PassedOver
    BY DEF PassedFrom, PassedOver, PassedBy
  <2>4. QED
    BY <2>1, <2>2, <2>3 DEF JobSound, Named, Told, Chosen, Resting
<1>2. CASE Drain(w)
  <2>1. PICK b : b = Sync(job[w].page)
    OBVIOUS
  <2>2. /\ pc[w] = "drain" /\ pc'[w] \in {"drain", "delete"} /\ done' = done
        /\ job'[w].ups = job[w].ups \cup b.ups /\ job'[w].page = b.next
        /\ job'[w].dels = job[w].dels \cup b.dels
        /\ UNCHANGED <<job[w].state, job[w].cut>>
    BY <1>0, <1>2, <2>1, DrainStep DEF seen
  <2>3. kind # "table" /\ job[w].page \in Cursors(kind, Known)
    BY <1>0, <2>2 DEF Placed, JobKnown
  <2>4. b.dels \subseteq gone
    <3>1. b.dels \subseteq Known \ source
      BY <2>1, <2>3, SyncKnown DEF TypeInv
    <3>2. QED
      BY <3>1 DEF Known
  <2>5. DOMAIN b.next \subseteq DOMAIN Told(job[w].page) \cup b.ups
    BY <2>1, <2>3, SyncKnown DEF TypeInv
  <2>6. DOMAIN job'[w].page \subseteq Named(job'[w].state) \cup job'[w].ups
    BY <2>2, <2>3, <2>5 DEF JobSound, Told, NothingTold
  <2>7. QED
    BY <2>2, <2>4, <2>6 DEF JobSound, Chosen
<1>3. CASE DeleteNamed(w)
  <2>1. PICK i : /\ pc[w] = "delete" /\ pc'[w] = "delete" /\ i = Min(job[w].dels)
                 /\ job[w].dels # {} /\ DeleteRow(i)
                 /\ job'[w].dels = job[w].dels \ {i}
                 /\ job'[w].state = [job[w].state EXCEPT !.committed = @ \ {i}]
                 /\ UNCHANGED <<job[w].page, job[w].ups, job[w].cut>>
    BY <1>0, <1>3, DeleteNamedStep
  <2>2. i \in gone /\ done' = done \ {i}
    <3>1. i \in job[w].dels
      BY <1>0, <2>1, MinItem DEF JobKnown
    <3>2. QED
      BY <2>1, <3>1 DEF JobSound, DeleteRow
  <2>3. /\ job'[w].state.cursor = job[w].state.cursor
        /\ job'[w].state.committed = job[w].state.committed \ {i}
    BY <1>0, <2>1 DEF Ledgers
  <2>4. PassedFrom(kind, job'[w].state) \subseteq PassedFrom(kind, job[w].state)
    BY <2>3 DEF PassedFrom
  <2>5. PassedFrom(kind, job'[w].state) \cap source \cap Matching \subseteq done' \cup job'[w].cut
    BY <2>1, <2>2, <2>4 DEF JobSound, Apart
  <2>6. Named(job'[w].state) = Named(job[w].state)
    BY <2>3 DEF Named
  <2>7. QED
    BY <2>1, <2>5, <2>6 DEF JobSound, Chosen
<1>4. CASE ListForReconcile(w)
  <2>1. /\ pc[w] = "delete" /\ pc'[w] \in {"partition", "reconcile"} /\ done' = done
        /\ job'[w].dels = IF kind = "snapshot" /\ job[w].full /\ CursorChanged(job[w])
                                /\ job[w].ups # {}
                          THEN stored \ job[w].ups ELSE {}
        /\ UNCHANGED <<job[w].page, job[w].ups, job[w].cut, job[w].state>>
    BY <1>0, <1>4, ListForReconcileStep DEF seen
  <2>2. job'[w].dels \subseteq gone
    <3>1. CASE kind = "snapshot" /\ job[w].ups # {}
      <4>1. job[w].ups = source
        BY <2>1, <3>1 DEF Whole, Drained
      <4>2. QED
        BY <1>0, <2>1, <4>1 DEF Known
    <3>2. CASE ~ (kind = "snapshot" /\ job[w].ups # {})
      BY <2>1, <3>2
    <3>3. QED
      BY <3>1, <3>2
  <2>3. QED
    BY <2>1, <2>2 DEF JobSound, Chosen
<1>5. CASE Reconcile(w)
  <2>1. PICK i : /\ pc[w] = "reconcile" /\ i = Min(job[w].dels) /\ DeleteRow(i)
                 /\ pc'[w] \in {"partition", "reconcile"}
                 /\ job'[w].dels = job[w].dels \ {i}
                 /\ UNCHANGED <<job[w].page, job[w].ups, job[w].cut, job[w].state>>
    BY <1>0, <1>5, ReconcileStep
  <2>2. i \in gone /\ done' = done \ {i}
    <3>1. i \in job[w].dels
      BY <1>0, <2>1, MinItem DEF JobKnown, Placed
    <3>2. QED
      BY <2>1, <3>1 DEF JobSound, DeleteRow
  <2>3. PassedFrom(kind, job'[w].state) \cap source \cap Matching \subseteq done' \cup job'[w].cut
    BY <2>1, <2>2 DEF JobSound, Apart
  <2>4. QED
    BY <2>1, <2>3 DEF JobSound, Chosen
<1>6. CASE Partition(w)
  <2>1. /\ pc[w] = "partition" /\ done' = done
        /\ job'[w].state = [job[w].state EXCEPT !.committed = @ \cup CutOff(w)]
        /\ job'[w].cut = CutOff(w)
        /\ job'[w].all => job'[w].todo = New(w) \ CutOff(w)
        /\ UNCHANGED <<job[w].page, job[w].ups, job[w].dels>>
    BY <1>0, <1>6, PartitionStep DEF seen
  <2>2. kind # "table"
    BY <1>0, <2>1 DEF Placed
  <2>3. /\ job'[w].state.cursor = job[w].state.cursor
        /\ job'[w].state.committed = job[w].state.committed \cup CutOff(w)
    BY <1>0, <2>1 DEF Ledgers
  <2>4. PassedFrom(kind, job'[w].state) = PassedFrom(kind, job[w].state) \cup CutOff(w)
    BY <2>3 DEF PassedFrom
  <2>5. Named(job'[w].state) = Named(job[w].state)
    BY <2>3 DEF Named
  <2>6. job'[w].all => Settles(kind, source, done', job'[w])
    BY <2>1, <2>2, <2>3 DEF Settles, New
  <2>7. job[w].cut = {}
    BY <1>0, <2>1 DEF Placed
  <2>8. PassedFrom(kind, job'[w].state) \cap source \cap Matching \subseteq done' \cup job'[w].cut
    BY <2>1, <2>4, <2>7 DEF JobSound
  <2>9. QED
    BY <2>1, <2>5, <2>6, <2>8 DEF JobSound
<1>7. CASE PollRows(w)
  <2>1. /\ pc[w] = "poll" /\ done' = done
        /\ job'[w].todo = FirstOf(RowsFor(w), SteadyCap) \ job[w].state.committed
        /\ job'[w].all => Cardinality(RowsFor(w)) <= SteadyCap
        /\ UNCHANGED <<job[w].state, job[w].page, job[w].ups, job[w].dels, job[w].cut,
                       job[w].advance>>
    BY <1>0, <1>7, PollRowsStep DEF seen
  <2>2. kind = "table" /\ job[w].cut = {}
    BY <1>0, <2>1 DEF Placed
  <2>3. ASSUME job'[w].all PROVE Settles(kind, source, done', job'[w])
    <3>1. source \subseteq Items /\ RowsFor(w) \subseteq Items /\ SteadyCap \in Nat
      BY CollectAssumption DEF TypeInv, GlobalTypes, RowsFor
    <3>2. FirstOf(RowsFor(w), SteadyCap) = RowsFor(w)
      BY <2>1, <2>3, <3>1, FirstOfAll
    <3>3. ASSUME NEW i \in source \cap Matching PROVE i \in done' \cup job'[w].todo
      <4>1. CASE i \in PassedFrom(kind, job[w].state)
        BY <2>1, <2>2, <4>1 DEF JobSound
      <4>2. CASE i \notin PassedFrom(kind, job[w].state)
        <5>1. i \notin job[w].state.committed
          BY <4>2 DEF PassedFrom
        <5>2. i \in RowsFor(w)
          <6>1. CASE job[w].state.cursor = None
            BY <6>1 DEF RowsFor
          <6>2. CASE job[w].state.cursor # None
            <7>1. job[w].state.cursor \in {Stamp[t] : t \in Known}
              BY <1>0, <2>2, <6>2, LedgerFields DEF Cursors
            <7>2. job[w].state.cursor \in Nat /\ Stamp[i] \in Nat
              BY <1>0, <3>1, <7>1, CollectAssumption
            <7>3. ~ (Stamp[i] < job[w].state.cursor)
              BY <2>2, <3>1, <4>2, <6>2 DEF PassedFrom
            <7>4. QED
              BY <7>2, <7>3 DEF RowsFor
          <6>3. QED
            BY <6>1, <6>2
        <5>3. QED
          BY <2>1, <3>2, <5>1, <5>2
      <4>3. QED
        BY <4>1, <4>2
    <3>4. QED
      BY <2>2, <3>3 DEF Settles
  <2>4. QED
    BY <2>1, <2>2, <2>3 DEF JobSound
<1>8. CASE Write(w)
  <2>1. pc[w] = "run" /\ UNCHANGED <<done>>
    BY <1>0, <1>8, WriteStep
  <2>2. UNCHANGED <<job[w].state, job[w].page, job[w].ups, job[w].dels, job[w].todo, job[w].cut,
                    job[w].all, job[w].advance>>
    BY <1>0, <1>8, WriteStep
  <2>3. QED
    BY <2>1, <2>2 DEF JobSound, Settles, Chosen
<1>9. CASE StartRow(w) \/ Effect(w)
  <2>1. /\ pc[w] \in {"run", "effect"} /\ done' = done
        /\ UNCHANGED <<job[w].state, job[w].page, job[w].ups, job[w].dels, job[w].todo,
                       job[w].cut, job[w].all, job[w].advance>>
    BY <1>0, <1>9, StartRowStep, EffectStep DEF seen
  <2>2. QED
    BY <2>1 DEF JobSound, Settles, Chosen
<1>10. CASE Verdict(w)
  <2> DEFINE i == job[w].item
             add == IF Commits(w) THEN {i} ELSE {}
  <2>1. /\ pc[w] = "verdict" /\ done' = done \cup job[w].cut \cup add
        /\ job'[w].todo = job[w].todo \ {i}
        /\ job'[w].state = IF Commits(w)
                           THEN [job[w].state EXCEPT !.committed = @ \cup {i}]
                           ELSE job[w].state
        /\ UNCHANGED <<job[w].page, job[w].ups, job[w].dels, job[w].cut>>
    BY <1>0, <1>10, VerdictStep DEF Enters
  <2>2. /\ job'[w].all = (job[w].all /\ Commits(w))
        /\ job'[w].advance = IF Commits(w) THEN Stamp[i] ELSE job[w].advance
    BY <1>0, <1>10, VerdictStep
  <2>3. /\ job'[w].state.cursor = job[w].state.cursor
        /\ job'[w].state.committed = job[w].state.committed \cup add
    BY <1>0, <2>1 DEF Ledgers
  <2>4. i \in job[w].todo /\ job[w].todo \subseteq Items
    BY <1>0, <2>1 DEF Placed, JobKnown
  <2>5. PassedFrom(kind, job'[w].state) = PassedFrom(kind, job[w].state) \cup add
    BY <2>3 DEF PassedFrom
  <2>6. Named(job'[w].state) = Named(job[w].state)
    BY <2>3 DEF Named
  <2>7. ASSUME job'[w].all PROVE Settles(kind, source, done', job'[w])
    <3>1. Commits(w) /\ job[w].all
      BY <2>2, <2>7
    <3>2. Settles(kind, source, done, job[w])
      BY <2>1, <3>1 DEF JobSound, Chosen
    <3>3. CASE kind # "table"
      BY <2>1, <2>3, <3>1, <3>2, <3>3 DEF Settles
    <3>4. CASE kind = "table"
      <4> SUFFICES ASSUME NEW n \in source \cap Matching
                   PROVE  \/ n \in done' \cup job'[w].todo
                          \/ /\ \A t \in job'[w].todo : t < n
                             /\ job'[w].advance # None => job'[w].advance <= Stamp[n]
        BY <3>4 DEF Settles
      <4>1. CASE n \in done \cup job[w].todo
        BY <2>1, <3>1, <4>1
      <4>2. CASE \A t \in job[w].todo : t < n
        <5>1. i < n /\ n \in Items /\ i \in Items
          BY <2>4, <4>2, CollectAssumption
        <5>2. Stamp[i] <= Stamp[n]
          BY <5>1, CollectAssumption
        <5>3. QED
          BY <2>1, <2>2, <3>1, <4>2, <5>2
      <4>3. QED
        BY <3>2, <3>4, <4>1, <4>2 DEF Settles
    <3>5. QED
      BY <3>3, <3>4
  <2>8. PassedFrom(kind, job'[w].state) \cap source \cap Matching \subseteq done' \cup job'[w].cut
    BY <2>1, <2>5 DEF JobSound
  <2> HIDE DEF add, i
  <2>9. QED
    BY <2>1, <2>6, <2>7, <2>8 DEF JobSound
<1>11. QED
  BY <1>1, <1>2, <1>3, <1>4, <1>5, <1>6, <1>7, <1>8, <1>9, <1>10

(* What happens around a job: items that come are new, and done keeps what  *)
(* is at the source.                                                       *)
LEMMA CollectAround ==
    ASSUME ~Returns, TypeInv, Apart, \A w \in Workers : job[w].dels \subseteq gone, [Next]_vars
    PROVE  /\ gone \subseteq gone' /\ done \cap source' \subseteq done'
           /\ \A i \in source' \ source : i \notin Known /\ (kind = "table" => \A t \in Known : t < i)
<1> DEFINE Goal == /\ gone \subseteq gone' /\ done \cap source' \subseteq done'
                   /\ \A i \in source' \ source :
                         i \notin Known /\ (kind = "table" => \A t \in Known : t < i)
<1>0. JobShape /\ \A w \in Workers : JobKnown(kind, Known, job[w]) /\ Placed(kind, pc[w], job[w])
  BY DEF TypeInv, JobsKnown
<1>1. ASSUME UNCHANGED outside, done \subseteq done' PROVE Goal
  BY <1>1 DEF outside
<1>2. ASSUME NEW i \in gone, UNCHANGED outside, DeleteRow(i) PROVE Goal
  BY <1>2 DEF outside, DeleteRow, Apart
<1>3. ASSUME NEW i \in Items, Arrive(i) PROVE Goal
  <2>1. /\ i \notin source /\ i \notin gone /\ (kind = "table" => \A t \in source : t < i)
        /\ source' = source \cup {i} /\ gone' = gone /\ done' = done
    BY <1>3 DEF Arrive, seen
  <2>2. QED
    BY <2>1 DEF Known, Apart
<1>4. ASSUME NEW i \in Items, Vanish(i) \/ Touch(i) \/ Age(i) PROVE Goal
  <2>1. source' \subseteq source /\ gone \subseteq gone' /\ done' = done
    BY <1>4 DEF Vanish, Touch, Age, seen
  <2>2. QED
    BY <2>1
<1>5. ASSUME NEW w \in Workers, DeleteNamed(w) PROVE Goal
  <2>1. DeleteRow(Min(job[w].dels)) /\ job[w].dels # {} /\ UNCHANGED outside
    BY <1>5 DEF DeleteNamed
  <2>2. job[w].dels \subseteq Items
    BY <1>0 DEF TypeInv, GlobalTypes, Known, JobKnown
  <2>3. Min(job[w].dels) \in gone
    BY <2>1, <2>2, MinItem
  <2>4. QED
    BY <1>2, <2>1, <2>3
<1>6. ASSUME NEW w \in Workers, Reconcile(w) PROVE Goal
  <2>1. DeleteRow(Min(job[w].dels)) /\ pc[w] = "reconcile" /\ UNCHANGED outside
    BY <1>6 DEF Reconcile
  <2>2. job[w].dels \subseteq Items /\ job[w].dels # {}
    BY <1>0, <2>1 DEF TypeInv, GlobalTypes, Known, JobKnown, Placed
  <2>3. Min(job[w].dels) \in gone
    BY <2>2, MinItem
  <2>4. QED
    BY <1>2, <2>1, <2>3
<1>7. ASSUME NEW w \in Workers,
             Load(w) \/ Drain(w) \/ ListForReconcile(w) \/ Partition(w) \/ PollRows(w)
             \/ StartRow(w) \/ Release(w) \/ Acquire(w) \/ AcquireFails(w) \/ RefreshFails(w)
             \/ NotToday(w) \/ Fail(w) \/ Crash(w)
      PROVE  Goal
  <2>1. UNCHANGED outside /\ UNCHANGED seen
    BY <1>7 DEF Load, Drain, ListForReconcile, Partition, PollRows, StartRow, Release, Acquire,
           AcquireFails, RefreshFails, NotToday, Fail, Crash
  <2>2. QED
    BY <1>1, <2>1 DEF seen
<1>8. ASSUME NEW w \in Workers, Anchor(w) \/ Write(w) \/ Effect(w) \/ Verdict(w) \/ Advance(w)
      PROVE  Goal
  <2>1. UNCHANGED outside /\ done \subseteq done'
    BY <1>8 DEF Anchor, Write, Effect, Verdict, Advance, Enter
  <2>2. QED
    BY <1>1, <2>1
<1>9. CASE Expire \/ UNCHANGED vars
  <2>1. UNCHANGED outside /\ UNCHANGED seen
    BY <1>9 DEF Expire, vars
  <2>2. QED
    BY <1>1, <2>1 DEF seen
<1>10. QED
  BY <1>3, <1>4, <1>5, <1>6, <1>7, <1>8, <1>9 DEF Next, Step

LEMMA RestingSound ==
    ASSUME NEW k, NEW S, NEW G, NEW D, NEW p, p \notin Chosen, NEW j, Resting(j)
    PROVE  JobSound(k, S, G, D, p, j)
  BY DEF Resting, JobSound, PassedFrom, NewState

(* What the ledger passes over after the last step of a job. *)
LEMMA SoundAdvance ==
    ASSUME TypeInv, NEW w \in Workers, Advance(w),
           JobSound(kind, source, gone, done, pc[w], job[w])
    PROVE  PassedFrom(kind, ledger') \cap source \cap Matching \subseteq done'
<1> DEFINE j == job[w]
<1>0. /\ JobKnown(kind, Known, j) /\ Placed(kind, pc[w], j) /\ j.state \in Ledgers(kind, Known)
  BY DEF TypeInv, JobsKnown, JobKnown
<1>1. /\ ledger' = IF kind = "table" THEN AdvanceTable(j) ELSE AdvanceSource(j)
      /\ done' = done \cup j.cut /\ pc[w] = "advance"
  BY DEF Advance, Enter
<1>2. PassedFrom(kind, j.state) \cap source \cap Matching \subseteq done'
  BY <1>1 DEF JobSound
<1>3. CASE kind # "table"
  <2> DEFINE st == [j.state EXCEPT !.initialized = TRUE]
  <2>1. CASE ~j.all
    <3>1. ledger' = st
      BY <1>1, <1>3, <2>1 DEF AdvanceSource
    <3>2. st.cursor = j.state.cursor /\ st.committed = j.state.committed
      BY <1>0 DEF Ledgers
    <3>3. QED
      BY <1>2, <3>1, <3>2 DEF PassedFrom
  <2>2. CASE j.all
    <3>1. ledger'.cursor = j.page /\ ledger'.committed \subseteq j.state.committed
      BY <1>0, <1>1, <1>3, <2>2 DEF AdvanceSource, Ledgers
    <3>2. j.page # None /\ j.todo = {}
      BY <1>0, <1>1, <1>3 DEF Placed
    <3>3. j.ups \cap Matching \subseteq j.state.committed
      BY <1>1, <1>3, <2>2, <3>2 DEF JobSound, Settles, Chosen
    <3>4. DOMAIN j.page \subseteq Named(j.state) \cup j.ups
      BY <1>3, <3>2 DEF JobSound
    <3>5. Named(j.state) \cup j.state.committed \subseteq PassedFrom(kind, j.state)
      BY <1>3 DEF Named, Told, NothingTold, PassedFrom
    <3>6. PassedFrom(kind, ledger') \subseteq DOMAIN j.page \cup j.state.committed
      BY <1>3, <3>1 DEF PassedFrom
    <3>7. QED
      BY <1>2, <3>3, <3>4, <3>5, <3>6
  <2>3. QED
    BY <2>1, <2>2
<1>4. CASE kind = "table"
  <2>1. CASE ~j.all \/ j.advance = None
    BY <1>1, <1>2, <1>4, <2>1 DEF AdvanceTable
  <2>2. CASE j.all /\ j.advance # None
    <3>1. ledger'.cursor = j.advance /\ ledger'.committed \subseteq j.state.committed
      BY <1>0, <1>1, <1>4, <2>2 DEF AdvanceTable, Ledgers
    <3>2. j.todo = {} /\ Settles(kind, source, done, j)
      BY <1>0, <1>1, <2>2 DEF Placed, JobSound, Chosen
    <3>3. j.state.committed \subseteq PassedFrom(kind, j.state)
      BY DEF PassedFrom
    <3>4. j.advance \in Nat /\ \A i \in Items : Stamp[i] \in Nat
      BY <1>0, <2>2, CollectAssumption DEF JobKnown, TypeInv, GlobalTypes, Known
    <3>5. ASSUME NEW i \in source \cap Matching, i \in Items, Stamp[i] < j.advance PROVE i \in done
      BY <1>4, <2>2, <3>2, <3>4, <3>5 DEF Settles
    <3>6. PassedFrom(kind, ledger') \subseteq {i \in Items : Stamp[i] < j.advance} \cup j.state.committed
      BY <1>4, <3>1 DEF PassedFrom
    <3>7. QED
      BY <1>1, <1>2, <3>3, <3>5, <3>6
  <2>3. QED
    BY <2>1, <2>2
<1>5. QED
  BY <1>3, <1>4

(* One step of the ledger. *)
LEMMA SoundLedger ==
    ASSUME ~Returns, TypeInv, Apart, [Next]_vars, PassedOver \cap source \cap Matching \subseteq done,
           \A w \in Workers : JobSound(kind, source, gone, done, pc[w], job[w]),
           \A w \in Workers : JobSound(kind, source, gone, done', pc'[w], job'[w]) \/ ~Verdict(w)
    PROVE  PassedFrom(kind, ledger') \cap source' \cap Matching \subseteq done'
<1>0. /\ Known \in SUBSET Items /\ source' \in SUBSET Items /\ ledger \in Ledgers(kind, Known)
      /\ JobShape
  BY CollectOutside DEF TypeInv, GlobalTypes, Known
<1>1. /\ gone \subseteq gone' /\ done \cap source' \subseteq done'
      /\ \A i \in source' \ source : i \notin Known /\ (kind = "table" => \A t \in Known : t < i)
  BY CollectAround DEF JobSound
<1>2. CASE ledger' = ledger
  <2> SUFFICES ASSUME NEW i \in PassedFrom(kind, ledger) \cap source' \cap Matching
               PROVE  i \in done'
    BY <1>2
  <2>1. i \in source
    BY <1>0, <1>1, PassedStays
  <2>2. i \in PassedOver
    BY DEF PassedOver, PassedBy, PassedFrom
  <2>3. QED
    BY <1>1, <2>1, <2>2
<1>3. ASSUME NEW w \in Workers, Anchor(w)
      PROVE  PassedFrom(kind, ledger') \cap source' \cap Matching \subseteq done'
  <2>1. /\ kind = "table" /\ ledger'.cursor = Top
        /\ ledger'.committed \subseteq {i \in source : Stamp[i] = Top}
    BY <1>3, AnchorKnown
  <2>2. PICK S \in SUBSET source :
           /\ done' = done \cup S /\ ledger'.committed \subseteq S
           /\ \A i \in source : Stamp[i] # Top => i \in S
    BY <1>3, AnchorKnown
  <2>3. source' = source /\ source \subseteq Items
    BY <1>0, <1>3 DEF Anchor, outside
  <2>4. \A i \in source : Top # None /\ Stamp[i] < Top => Stamp[i] # Top
    <3>1. CASE source = {}
      BY <3>1
    <3>2. CASE source # {}
      <4>1. PICK k \in source : Top = Stamp[k]
        BY <2>3, <3>2, TopStamp DEF Top
      <4>2. Top \in Nat /\ \A i \in source : Stamp[i] \in Nat
        BY <2>3, <4>1, CollectAssumption
      <4>3. QED
        BY <4>2
    <3>3. QED
      BY <3>1, <3>2
  <2>5. QED
    BY <2>1, <2>2, <2>3, <2>4 DEF PassedFrom
<1>4. ASSUME NEW w \in Workers, Verdict(w)
      PROVE  PassedFrom(kind, ledger') \cap source' \cap Matching \subseteq done'
  <2>1. ledger' = job'[w].state /\ job'[w].cut = job[w].cut /\ job[w].cut \subseteq done'
        /\ source' = source
    BY <1>0, <1>4, VerdictStep DEF outside, Enters
  <2>2. PassedFrom(kind, job'[w].state) \cap source \cap Matching \subseteq done' \cup job'[w].cut
    BY <1>4 DEF JobSound
  <2>3. QED
    BY <2>1, <2>2
<1>5. ASSUME NEW w \in Workers, Advance(w)
      PROVE  PassedFrom(kind, ledger') \cap source' \cap Matching \subseteq done'
  <2>1. source' = source
    BY <1>5 DEF Advance, outside
  <2>2. QED
    BY <1>5, <2>1, SoundAdvance
<1>6. \/ ledger' = ledger
      \/ \E w \in Workers : Anchor(w) \/ Verdict(w) \/ Advance(w)
  BY ZenonT(60) DEF Next, Step, vars, Arrive, Vanish, Touch, Age, Acquire, AcquireFails, RefreshFails, Expire,
         Release, Load, NotToday, Drain, DeleteNamed, ListForReconcile, Reconcile, Partition,
         PollRows, Write, StartRow, Effect, Fail, Crash
<1>7. QED
  BY <1>2, <1>3, <1>4, <1>5, <1>6

(* One step of the jobs. *)
LEMMA SoundJobs ==
    ASSUME ~Returns, TypeInv, Apart, [Next]_vars, PassedOver \cap source \cap Matching \subseteq done,
           kind = "snapshot" => \A w \in Workers : Whole(source, Digest, pc[w], job[w]),
           \A w \in Workers : JobSound(kind, source, gone, done, pc[w], job[w]),
           NEW v \in Workers
    PROVE  /\ JobSound(kind, source', gone', done', pc'[v], job'[v])
           /\ JobSound(kind, source, gone, done', pc'[v], job'[v]) \/ ~Verdict(v)
<1>0. /\ Known \in SUBSET Items /\ source' \in SUBSET Items /\ JobShape
      /\ JobKnown(kind, Known, job[v]) /\ Placed(kind, pc[v], job[v])
  BY CollectOutside DEF TypeInv, GlobalTypes, Known, JobsKnown
<1>1. /\ gone \subseteq gone' /\ done \cap source' \subseteq done'
      /\ \A i \in source' \ source : i \notin Known /\ (kind = "table" => \A t \in Known : t < i)
  BY CollectAround DEF JobSound
<1>2. ASSUME NEW p, NEW j, JobSound(kind, source, gone, done, p, j), JobKnown(kind, Known, j)
      PROVE  JobSound(kind, source', gone', done', p, j)
  BY <1>0, <1>1, <1>2, SoundStays
<1>3. ASSUME pc'[v] = pc[v], job'[v] = job[v]
      PROVE  JobSound(kind, source', gone', done', pc'[v], job'[v])
  BY <1>0, <1>2, <1>3
<1>4. ASSUME Load(v) \/ Drain(v) \/ DeleteNamed(v) \/ ListForReconcile(v) \/ Reconcile(v)
             \/ Partition(v) \/ PollRows(v) \/ Write(v) \/ StartRow(v) \/ Effect(v) \/ Verdict(v)
      PROVE  /\ JobSound(kind, source', gone', done', pc'[v], job'[v])
             /\ JobSound(kind, source, gone, done', pc'[v], job'[v])
  <2>1. JobSound(kind, source, gone, done', pc'[v], job'[v])
    BY <1>4, SoundWork
  <2>2. UNCHANGED outside
    BY <1>4 DEF Load, Drain, DeleteNamed, ListForReconcile, Reconcile, Partition, PollRows, Write,
           StartRow, Effect, Verdict
  <2>3. QED
    BY <2>1, <2>2 DEF outside
<1>5. ASSUME Anchor(v) \/ Advance(v) \/ NotToday(v) \/ Fail(v) \/ Release(v) \/ Crash(v)
      PROVE  JobSound(kind, source', gone', done', pc'[v], job'[v])
  <2>1. pc'[v] \in {"idle", "release"} /\ Resting(job'[v])
    BY <1>0, <1>5, CollectEnds
  <2>2. pc'[v] \notin Chosen
    BY <2>1 DEF Chosen
  <2>3. QED
    BY <2>1, <2>2, RestingSound
<1>6. ASSUME Acquire(v) \/ AcquireFails(v) \/ RefreshFails(v)
      PROVE  JobSound(kind, source', gone', done', pc'[v], job'[v])
  <2>1. CASE pc'[v] = "load" /\ Resting(job'[v])
    BY <2>1, RestingSound DEF Chosen
  <2>2. CASE /\ pc'[v] = pc[v]
             /\ UNCHANGED <<job[v].state, job[v].page, job[v].pages, job[v].full, job[v].ups,
                            job[v].dels, job[v].todo, job[v].cut, job[v].all, job[v].advance,
                            job[v].item, job[v].fresh, job[v].ok>>
    <3>1. JobSound(kind, source', gone', done', pc[v], job[v])
      BY <1>0, <1>2
    <3>2. QED
      BY <2>2, <3>1 DEF JobSound, Settles
  <2>3. QED
    BY <1>6, <2>1, <2>2, CollectLocks
<1>7. ASSUME NEW w \in Workers, w # v,
             Step(w) \/ Acquire(w) \/ AcquireFails(w) \/ RefreshFails(w)
             \/ NotToday(w) \/ Fail(w) \/ Crash(w)
      PROVE  pc'[v] = pc[v] /\ job'[v] = job[v]
  <2>1. CASE Acquire(w) \/ AcquireFails(w) \/ RefreshFails(w)
    BY <1>7, <2>1, CollectLocks
  <2>2. CASE Anchor(w) \/ Advance(w) \/ NotToday(w) \/ Fail(w) \/ Release(w) \/ Crash(w)
    BY <1>0, <1>7, <2>2, CollectEnds
  <2>3. CASE Step(w) /\ ~Release(w)
    <3>1. Inside(w)
      BY <1>0, <2>3, CollectInside DEF Step
    <3>2. QED
      BY <1>7, <3>1 DEF Inside
  <2>4. QED
    BY <1>7, <2>1, <2>2, <2>3
<1>8. CASE Expire \/ UNCHANGED vars \/ \E i \in Items : Arrive(i) \/ Vanish(i) \/ Touch(i) \/ Age(i)
  <2>1. pc' = pc /\ job' = job
    BY <1>8 DEF Expire, vars, Arrive, Vanish, Touch, Age
  <2>2. JobSound(kind, source', gone', done', pc'[v], job'[v])
    BY <1>3, <2>1
  <2>3. ~Verdict(v) \/ JobSound(kind, source, gone, done', pc'[v], job'[v])
    BY <1>4
  <2>4. QED
    BY <2>2, <2>3
<1>9. ASSUME NEW w \in Workers,
             Step(w) \/ Acquire(w) \/ AcquireFails(w) \/ RefreshFails(w)
             \/ NotToday(w) \/ Fail(w) \/ Crash(w)
      PROVE  /\ JobSound(kind, source', gone', done', pc'[v], job'[v])
             /\ JobSound(kind, source, gone, done', pc'[v], job'[v]) \/ ~Verdict(v)
  <2>1. JobSound(kind, source, gone, done', pc'[v], job'[v]) \/ ~Verdict(v)
    BY <1>4
  <2>2. CASE w # v
    BY <1>3, <1>7, <1>9, <2>1, <2>2
  <2>3. CASE w = v
    BY <1>4, <1>5, <1>6, <1>9, <2>1, <2>3 DEF Step
  <2>4. QED
    BY <2>2, <2>3
<1>10. QED
  BY <1>8, <1>9 DEF Next

LEMMA CollectBus == ASSUME [Next]_vars PROVE busFailed' = TRUE \/ busFailed' = busFailed
  BY ZenonT(60) DEF Next, Step, vars, Arrive, Vanish, Touch, Age, Acquire, AcquireFails, RefreshFails, Expire,
         Release, Load, NotToday, Drain, DeleteNamed, ListForReconcile, Reconcile, Partition,
         Anchor, PollRows, Write, StartRow, Effect, Verdict, Advance, Fail, Crash

LEMMA CollectLock == LockInv /\ [Next]_vars => LockInv'
  BY CollectBus, CollectGuarded DEF LockInv

LEMMA CollectLossInit == Init => LossInv
<1> SUFFICES ASSUME Init PROVE LossInv
  OBVIOUS
<1>1. TypeInv /\ LockInv
  BY CollectTypeInit, CollectInit
<1>2. Apart
  BY DEF Init, Apart
<1>3. \A w \in Workers : pc[w] = "idle" /\ Resting(job[w])
  BY DEF Init, Resting, NoJob
<1>4. WholeInv
  BY <1>3 DEF WholeInv, Whole, Drained
<1>5. PassedOver = {}
  BY DEF Init, PassedOver, PassedBy, NewState
<1>6. SoundInv
  BY <1>3, <1>5, RestingSound DEF SoundInv, Chosen
<1>7. QED
  BY <1>1, <1>2, <1>4, <1>6 DEF LossInv

LEMMA CollectLossNext == ASSUME ~Returns PROVE LossInv /\ [Next]_vars => LossInv'
<1> SUFFICES ASSUME LossInv, [Next]_vars PROVE LossInv'
  OBVIOUS
<1>1. TypeInv' /\ LockInv' /\ Apart' /\ kind' = kind
  BY CollectTypeNext, CollectLock, CollectApart, CollectOutside DEF LossInv, TypeInv, setup
<1>2. busFailed \in BOOLEAN /\ (busFailed' = TRUE \/ busFailed' = busFailed)
  BY CollectBus DEF LossInv, TypeInv, GlobalTypes
<1>3. WholeInv'
  <2> SUFFICES ASSUME kind = "snapshot", ~busFailed'
               PROVE  \A w \in Workers : Whole(source', Digest', pc'[w], job'[w])
    BY <1>1 DEF WholeInv
  <2>1. ~busFailed
    BY <1>2
  <2>2. Guarded /\ \A w \in Workers : Whole(source, Digest, pc[w], job[w])
    BY <2>1 DEF LossInv, LockInv, WholeInv
  <2>3. QED
    BY <2>2, CollectWhole DEF LossInv
<1>4. SoundInv'
  <2> SUFFICES ASSUME Reliable'
               PROVE  /\ (PassedOver \cap source \cap Matching \subseteq done)'
                      /\ \A w \in Workers : JobSound(kind, source', gone', done', pc'[w], job'[w])
    BY <1>1 DEF SoundInv
  <2>1. Reliable
    BY <1>1, <1>2 DEF Reliable
  <2>2. /\ PassedOver \cap source \cap Matching \subseteq done
        /\ \A w \in Workers : JobSound(kind, source, gone, done, pc[w], job[w])
    BY <2>1 DEF LossInv, SoundInv
  <2>3. kind = "snapshot" => \A w \in Workers : Whole(source, Digest, pc[w], job[w])
    BY <2>1 DEF LossInv, WholeInv, Reliable
  <2>4. \A w \in Workers :
           /\ JobSound(kind, source', gone', done', pc'[w], job'[w])
           /\ JobSound(kind, source, gone, done', pc'[w], job'[w]) \/ ~Verdict(w)
    BY <2>2, <2>3, SoundJobs DEF LossInv
  <2>5. PassedFrom(kind, ledger') \cap source' \cap Matching \subseteq done'
    BY <2>2, <2>4, SoundLedger DEF LossInv
  <2>6. PassedOver' = PassedFrom(kind, ledger')
    BY <1>1 DEF PassedOver, PassedBy, PassedFrom
  <2>7. QED
    BY <2>4, <2>5, <2>6
<1>5. QED
  BY <1>1, <1>3, <1>4 DEF LossInv

(* The ledger never passes over an item that is at the source and was       *)
(* neither committed nor cut off, whatever fails, and for an incremental    *)
(* source or a table even when several jobs write it at a time: each job's  *)
(* copy of the ledger is sound by itself.  Items that vanished do not come  *)
(* back.                                                                   *)
THEOREM CollectNothingLost == ASSUME ~Returns PROVE Spec => []NothingLost
<1>1. LossInv => NothingLost
  BY DEF LossInv, SoundInv, Reliable, NothingLost
<1>2. QED
  BY <1>1, CollectLossInit, CollectLossNext, PTL DEF Spec

-----------------------------------------------------------------------------
(* What is run, and what is paid. *)

(* A job is at an item since its write, or since the row was begun. *)
LEMMA RunsItem ==
    ASSUME TypeInv, [Next]_vars, NEW v \in Workers, pc'[v] \in {"effect", "verdict"}
    PROVE  \/ Write(v) \/ StartRow(v) \/ Effect(v)
           \/ pc'[v] = pc[v] /\ job'[v].item = job[v].item /\ job'[v].fresh = job[v].fresh
<1>0. JobShape
  BY DEF TypeInv
<1>1. CASE Expire \/ UNCHANGED vars \/ \E i \in Items : Arrive(i) \/ Vanish(i) \/ Touch(i) \/ Age(i)
  <2>1. pc' = pc /\ job' = job
    BY <1>1 DEF Expire, vars, Arrive, Vanish, Touch, Age
  <2>2. QED
    BY <2>1
<1>2. ASSUME NEW w \in Workers, Acquire(w) \/ AcquireFails(w) \/ RefreshFails(w)
      PROVE  pc'[v] = pc[v] /\ job'[v].item = job[v].item /\ job'[v].fresh = job[v].fresh
  <2>1. CASE w = v
    <3>1. \/ pc'[v] = "load"
          \/ pc'[v] = pc[v] /\ UNCHANGED <<job[v].item, job[v].fresh>>
      BY <1>2, <2>1, CollectLocks
    <3>2. QED
      BY <3>1
  <2>2. CASE w # v
    <3>1. pc'[v] = pc[v] /\ job'[v] = job[v]
      BY <1>2, <2>2, CollectLocks
    <3>2. QED
      BY <3>1
  <2>3. QED
    BY <2>1, <2>2
<1>3. ASSUME NEW w \in Workers,
             Anchor(w) \/ Advance(w) \/ NotToday(w) \/ Fail(w) \/ Release(w) \/ Crash(w)
      PROVE  pc'[v] = pc[v] /\ job'[v].item = job[v].item /\ job'[v].fresh = job[v].fresh
  <2>1. /\ pc'[w] \in {"idle", "release"}
        /\ \A u \in Workers \ {w} : pc'[u] = pc[u] /\ job'[u] = job[u]
    BY <1>0, <1>3, CollectEnds
  <2>2. QED
    BY <2>1
<1>4. ASSUME NEW w \in Workers,
             Load(w) \/ Drain(w) \/ DeleteNamed(w) \/ ListForReconcile(w) \/ Reconcile(w)
             \/ Partition(w) \/ PollRows(w) \/ Write(w) \/ StartRow(w) \/ Effect(w) \/ Verdict(w)
      PROVE  \/ Write(v) \/ StartRow(v) \/ Effect(v)
             \/ pc'[v] = pc[v] /\ job'[v].item = job[v].item /\ job'[v].fresh = job[v].fresh
  <2>1. CASE w # v
    <3>1. pc'[v] = pc[v] /\ job'[v] = job[v]
      BY <1>0, <1>4, <2>1, CollectInside DEF Inside
    <3>2. QED
      BY <3>1
  <2>2. CASE w = v /\ ~Write(v) /\ ~StartRow(v) /\ ~Effect(v)
    <3>1. CASE Drain(v)
      <4>1. PICK b : b = Sync(job[v].page)
        OBVIOUS
      <4>2. pc'[v] \in {"drain", "delete"}
        BY <1>0, <3>1, <4>1, DrainStep
      <4>3. QED
        BY <4>2
    <3>2. CASE DeleteNamed(v)
      BY <3>2 DEF DeleteNamed
    <3>3. CASE Load(v) \/ ListForReconcile(v) \/ Partition(v) \/ PollRows(v) \/ Verdict(v)
               \/ Reconcile(v)
      <4>1. pc'[v] \in {"drain", "poll", "anchor", "partition", "reconcile", "advance", "run"}
        BY <1>0, <3>3 DEF Load, ListForReconcile, Partition, PollRows, Verdict, Reconcile, Goto,
               JobShape
      <4>2. QED
        BY <4>1
    <3>4. QED
      BY <1>4, <2>2, <3>1, <3>2, <3>3
  <2>3. QED
    BY <2>1, <2>2
<1>5. QED
  BY <1>1, <1>2, <1>3, <1>4 DEF Next, Step

(* An item that was paid for has a row. *)
PaidRow(i) == spent[i] = 0 \/ (spent[i] = 1 /\ i \in stored)

(* A job that is about to pay for an item pays for the first time. *)
Unpaid(w) ==
    pc[w] = "effect" /\ job[w].fresh /\ job[w].item \notin blind =>
       spent[job[w].item] = 0 /\ job[w].item \in stored

PaidInv ==
    kind # "table" /\ ~busFailed =>
       (\A i \in Items \ blind : PaidRow(i)) /\ \A w \in Workers : Unpaid(w)

LEMMA CollectPaid ==
    ASSUME TypeInv, Guarded, kind # "table", [Next]_vars,
           \A i \in Items \ blind : PaidRow(i), \A w \in Workers : Unpaid(w)
    PROVE  (\A i \in Items \ blind' : PaidRow(i)') /\ \A w \in Workers : Unpaid(w)'
<1>0. /\ JobShape /\ spent \in [Items -> 0..2]
      /\ \A w \in Workers : JobKnown(kind, Known, job[w]) /\ Placed(kind, pc[w], job[w])
      /\ Known \subseteq Items
  BY DEF TypeInv, GlobalTypes, JobsKnown, Known
<1>1. ASSUME UNCHANGED <<stored, blind, spent>>,
             \A w \in Workers : ~Write(w) /\ ~StartRow(w) /\ ~Effect(w)
      PROVE  (\A i \in Items \ blind' : PaidRow(i)') /\ \A w \in Workers : Unpaid(w)'
  <2>1. \A i \in Items \ blind' : PaidRow(i)'
    BY <1>1 DEF PaidRow
  <2>2. ASSUME NEW w \in Workers, pc'[w] = "effect"
        PROVE  pc[w] = "effect" /\ job'[w].item = job[w].item /\ job'[w].fresh = job[w].fresh
    BY <1>1, <2>2, RunsItem
  <2>3. \A w \in Workers : Unpaid(w)'
    BY <1>1, <2>2 DEF Unpaid
  <2>4. QED
    BY <2>1, <2>3
<1>2. ASSUME NEW w \in Workers, DeleteNamed(w) \/ Reconcile(w)
      PROVE  (\A i \in Items \ blind' : PaidRow(i)') /\ \A v \in Workers : Unpaid(v)'
  <2>1. PICK i : DeleteRow(i)
    BY <1>2 DEF DeleteNamed, Reconcile
  <2>2. \A n \in Items \ blind' : PaidRow(n)'
    BY <1>0, <2>1 DEF DeleteRow, PaidRow
  <2>3. pc'[w] # "effect" /\ \A v \in Workers \ {w} : pc'[v] = "idle"
    BY <1>0, <1>2 DEF DeleteNamed, Reconcile, Goto, JobShape, Guarded
  <2>4. QED
    BY <2>2, <2>3 DEF Unpaid
<1>3. ASSUME NEW w \in Workers, Write(w)
      PROVE  (\A i \in Items \ blind' : PaidRow(i)') /\ \A v \in Workers : Unpaid(v)'
  <2>1. spent' = spent /\ pc[w] = "run"
    BY <1>0, <1>3, WriteStep
  <2>2. stored \subseteq stored' /\ blind \subseteq blind'
    BY <1>0, <1>3, WriteStep, ZenonT(60)
  <2>3. \A n \in Items \ blind' : PaidRow(n)'
    BY <2>1, <2>2 DEF PaidRow
  <2>4. \A v \in Workers \ {w} : pc'[v] = "idle"
    <3>1. \A v \in Workers \ {w} : pc'[v] = pc[v]
      BY <1>0, <1>3, CollectInside DEF Inside
    <3>2. QED
      BY <2>1, <3>1 DEF Guarded
  <2>5. Unpaid(w)'
    <3> SUFFICES ASSUME pc'[w] = "effect", job'[w].fresh, job'[w].item \notin blind'
                 PROVE  spent'[job'[w].item] = 0 /\ job'[w].item \in stored'
      BY DEF Unpaid
    <3>1. stored' = stored \cup {job'[w].item} /\ job'[w].item \notin stored
      BY <1>0, <1>3, WriteStep
    <3>2. job'[w].item = Min(job[w].todo)
      BY <1>0, <1>3, WriteStep
    <3>3. job'[w].item \in Items
      BY <1>0, <2>1, <3>2, MinItem DEF Placed, JobKnown
    <3>4. QED
      BY <2>1, <2>2, <3>1, <3>3 DEF PaidRow
  <2>6. QED
    BY <2>3, <2>4, <2>5 DEF Unpaid
<1>4. ASSUME NEW w \in Workers, Effect(w)
      PROVE  (\A i \in Items \ blind' : PaidRow(i)') /\ \A v \in Workers : Unpaid(v)'
  <2>1. /\ pc[w] = "effect" /\ pc'[w] = "verdict" /\ UNCHANGED <<stored, blind>>
        /\ spent' = [spent EXCEPT ![job[w].item] = IF job[w].fresh /\ @ < 2 THEN @ + 1 ELSE @]
    BY <1>0, <1>4, EffectStep
  <2>2. \A v \in Workers \ {w} : pc'[v] = "idle"
    <3>1. \A v \in Workers \ {w} : pc'[v] = pc[v]
      BY <1>0, <1>4, CollectInside DEF Inside
    <3>2. QED
      BY <2>1, <3>1 DEF Guarded
  <2>3. ASSUME NEW n \in Items \ blind PROVE PaidRow(n)'
    <3>1. CASE n # job[w].item \/ ~job[w].fresh
      <4>1. spent'[n] = spent[n]
        BY <1>0, <2>1, <3>1
      <4>2. QED
        BY <2>1, <4>1 DEF PaidRow
    <3>2. CASE n = job[w].item /\ job[w].fresh
      <4>1. spent[n] = 0 /\ n \in stored
        BY <2>1, <3>2 DEF Unpaid
      <4>2. spent'[n] = 1
        BY <1>0, <2>1, <3>2, <4>1
      <4>3. QED
        BY <2>1, <4>1, <4>2 DEF PaidRow
    <3>3. QED
      BY <3>1, <3>2
  <2>4. QED
    BY <2>1, <2>2, <2>3 DEF Unpaid
<1>5. ASSUME NEW w \in Workers PROVE ~StartRow(w)
  BY DEF StartRow
<1>6. \/ UNCHANGED <<stored, blind, spent>>
      \/ \E w \in Workers : DeleteNamed(w) \/ Reconcile(w) \/ Write(w) \/ Effect(w)
  <2>1. ASSUME NEW i \in Items, Arrive(i) \/ Vanish(i) \/ Touch(i) \/ Age(i)
        PROVE  UNCHANGED <<stored, blind, spent>>
    BY <2>1 DEF Arrive, Vanish, Touch, Age, seen
  <2>2. ASSUME NEW w \in Workers, Load(w) \/ Drain(w) \/ ListForReconcile(w) \/ Partition(w)
        PROVE  UNCHANGED <<stored, blind, spent>>
    BY <2>2 DEF Load, Drain, ListForReconcile, Partition, seen
  <2>3. ASSUME NEW w \in Workers, PollRows(w) \/ StartRow(w) \/ Release(w) \/ Acquire(w)
                                  \/ AcquireFails(w) \/ RefreshFails(w)
        PROVE  UNCHANGED <<stored, blind, spent>>
    BY <2>3 DEF PollRows, StartRow, Release, Acquire, AcquireFails, RefreshFails, seen
  <2>4. ASSUME NEW w \in Workers, NotToday(w) \/ Fail(w) \/ Crash(w)
        PROVE  UNCHANGED <<stored, blind, spent>>
    BY <2>4 DEF NotToday, Fail, Crash, seen
  <2>5. ASSUME NEW w \in Workers, Anchor(w) \/ Verdict(w) \/ Advance(w)
        PROVE  UNCHANGED <<stored, blind, spent>>
    BY <2>5 DEF Anchor, Verdict, Advance
  <2>6. CASE Expire \/ UNCHANGED vars
    BY <2>6 DEF Expire, vars, seen
  <2>7. QED
    BY <2>1, <2>2, <2>3, <2>4, <2>5, <2>6 DEF Next, Step
<1>7. QED
  BY <1>1, <1>2, <1>3, <1>4, <1>5, <1>6

(* What costs is paid once for an item as long as its writes can tell       *)
(* whether it was stored and the lock service fails nobody: after a crash   *)
(* the row shows that the item was run.                                     *)
THEOREM CollectPaidOnce == Spec => []PaidOnce
<1> DEFINE Inv == TypeInv /\ LockInv /\ PaidInv
<1>1. Init => Inv
  <2>1. Init => PaidInv
    BY DEF Init, PaidInv, PaidRow, Unpaid
  <2>2. QED
    BY <2>1, CollectInit, CollectTypeInit
<1>2. Inv /\ [Next]_vars => Inv'
  <2> SUFFICES ASSUME Inv, [Next]_vars PROVE Inv'
    OBVIOUS
  <2>1. TypeInv' /\ LockInv' /\ kind' = kind
    BY CollectTypeNext, CollectLock, CollectOutside DEF TypeInv, setup
  <2>2. busFailed \in BOOLEAN /\ (busFailed' = TRUE \/ busFailed' = busFailed)
    BY CollectBus DEF TypeInv, GlobalTypes
  <2>3. PaidInv'
    <3> SUFFICES ASSUME kind # "table", ~busFailed'
                 PROVE  (\A i \in Items \ blind' : PaidRow(i)') /\ \A w \in Workers : Unpaid(w)'
      BY <2>1 DEF PaidInv
    <3>1. ~busFailed
      BY <2>2
    <3>2. Guarded
      BY <3>1 DEF LockInv
    <3>3. (\A i \in Items \ blind : PaidRow(i)) /\ \A w \in Workers : Unpaid(w)
      BY <3>1 DEF PaidInv
    <3>4. QED
      BY <3>2, <3>3, CollectPaid
  <2>4. QED
    BY <2>1, <2>3
<1>3. Inv => PaidOnce
  BY DEF PaidInv, PaidRow, PaidOnce
<1>4. QED
  BY <1>1, <1>2, <1>3, PTL DEF Spec

-----------------------------------------------------------------------------
(* What is entered is not run again. *)

(* The items that the cursor c has with the flags F. *)
Current(F, c) == {i \in DOMAIN Told(c) : Told(c)[i] = F[i]}

(* The items a ledger of the kind k keeps from being run. *)
Entered(k, F, s) ==
    IF k = "snapshot" THEN s.committed ELSE s.committed \cup Current(F, s.cursor)

(* Item i is kept from being run by the cursor the job began with: it is in *)
(* the page the job has reached as well, and was not told again.            *)
Skipped(k, F, j, i) ==
    /\ k = "incremental"
    /\ i \in Current(F, j.state.cursor) \cap Current(F, j.page) /\ i \notin j.ups

(* What a job knows of the items D that are settled and of those that are   *)
(* at the source, S, with the flags F.                                      *)
JobKnows(k, S, F, D, p, j) ==
    /\ p \in {"drain"} \cup Drained =>
          \A i \in D \cap S : i \in j.state.committed \/ Skipped(k, F, j, i)
    /\ k = "incremental" /\ p \in Drained /\ j.full =>
          (j.state.committed \cup j.ups) \cap S \subseteq Current(F, j.page)
    /\ j.cut \cap j.todo = {} /\ j.cut \subseteq j.state.committed
    /\ p \in Chosen => (j.all => j.full) /\ j.todo \subseteq j.ups
    /\ p = "run" => j.todo \cap D \cap S = {}
    /\ p \in {"effect", "verdict"} => (j.todo \ {j.item}) \cap D \cap S = {}

KnowsInv ==
    kind # "table" /\ ~busFailed =>
       /\ done \subseteq Known /\ Settled \cap source \subseteq Entered(kind, flags, ledger)
       /\ \A w \in Workers : JobKnows(kind, source, flags, Settled, pc[w], job[w])

LEMMA RestingKnows ==
    ASSUME NEW k, NEW S, NEW F, NEW D, NEW p \in {"idle", "load", "release"}, NEW j, Resting(j)
    PROVE  JobKnows(k, S, F, D, p, j)
  BY DEF Resting, JobKnows, NewState, Drained, Chosen

(* What is settled after a step. *)
LEMMA SettledNext ==
    ASSUME kind' = kind, touched \subseteq done
    PROVE  /\ UNCHANGED <<done, touched>> => Settled' = Settled
           /\ \A i : DeleteRow(i) => Settled' = Settled \ {i}
           /\ \A E : Enter(E) => Settled' = Settled \cup E
           /\ Settled \subseteq done
  BY DEF Settled, DeleteRow, Enter

(* A job that goes on with the same variables knows the same. *)
LEMMA KnowsSame ==
    ASSUME NEW k, NEW S, NEW F, NEW D, NEW E, E \cap S \subseteq D, NEW p, NEW q, NEW j, NEW l,
           JobKnows(k, S, F, D, p, j),
           l.state = j.state, l.page = j.page, l.ups = j.ups, l.cut = j.cut, l.todo = j.todo,
           l.full = j.full, l.all = j.all, l.item = j.item,
           \/ p = q
           \/ p \in Drained \ Chosen /\ q \in Drained \ Chosen
           \/ p = "effect" /\ q = "verdict"
    PROVE  JobKnows(k, S, F, E, q, l)
  BY DEF JobKnows, Skipped, Drained, Chosen

(* What comes to the source later is unknown to the jobs. *)
LEMMA KnowsStays ==
    ASSUME NEW k, k # "table", NEW K, NEW S, NEW F, NEW D, D \subseteq K, NEW p, NEW j,
           JobKnown(k, K, j), JobKnows(k, S, F, D, p, j), NEW S2, S2 \cap K \subseteq S
    PROVE  JobKnows(k, S2, F, D, p, j)
<1>1. j.state.committed \subseteq K /\ j.ups \subseteq K /\ j.todo \subseteq K
  BY DEF JobKnown, Ledgers
<1>2. D \cap S2 \subseteq D \cap S
  OBVIOUS
<1>3. p \in {"drain"} \cup Drained =>
         \A i \in D \cap S2 : i \in j.state.committed \/ Skipped(k, F, j, i)
  BY <1>2 DEF JobKnows
<1>4. k = "incremental" /\ p \in Drained /\ j.full =>
         (j.state.committed \cup j.ups) \cap S2 \subseteq Current(F, j.page)
  BY <1>1 DEF JobKnows
<1>5. /\ p = "run" => j.todo \cap D \cap S2 = {}
      /\ p \in {"effect", "verdict"} => (j.todo \ {j.item}) \cap D \cap S2 = {}
  BY <1>1 DEF JobKnows
<1>6. QED
  BY <1>3, <1>4, <1>5 DEF JobKnows

(* The steps of a job. *)
LEMMA KnowsWork ==
    ASSUME TypeInv, UNCHANGED setup, kind # "table", NEW w \in Workers,
           JobKnows(kind, source, flags, Settled, pc[w], job[w]),
           Settled \cap source \subseteq Entered(kind, flags, ledger),
           Load(w) \/ Drain(w) \/ DeleteNamed(w) \/ ListForReconcile(w) \/ Reconcile(w)
           \/ Partition(w) \/ Write(w) \/ Effect(w) \/ Verdict(w)
    PROVE  JobKnows(kind, source, flags, Settled', pc'[w], job'[w])
<1> DEFINE D == Settled
           F == flags
<1>0. /\ JobShape /\ JobKnown(kind, Known, job[w]) /\ Placed(kind, pc[w], job[w])
      /\ job[w].state \in Ledgers(kind, Known) /\ job[w].state \in States(kind)
      /\ Known \subseteq Items /\ ledger \in Ledgers(kind, Known)
      /\ kind \in {"incremental", "snapshot"}
  <2>1. JobShape /\ JobKnown(kind, Known, job[w]) /\ Placed(kind, pc[w], job[w])
    BY DEF TypeInv, JobsKnown
  <2>2. Known \subseteq Items /\ ledger \in Ledgers(kind, Known) /\ kind \in {"incremental", "snapshot"}
    BY CollectAssumption DEF TypeInv, Known, GlobalTypes
  <2>3. job[w].state \in Ledgers(kind, Known)
    BY <2>1 DEF JobKnown
  <2>4. QED
    BY <2>1, <2>2, <2>3, KnownTyped
<1>00. /\ UNCHANGED <<done, touched>> => Settled' = D
       /\ \A i : DeleteRow(i) => Settled' = D \ {i}
       /\ \A E : Enter(E) => Settled' = D \cup E
  BY SettledNext DEF setup, TypeInv, GlobalTypes
<1> HIDE DEF D
<1>01. JobKnows(kind, source, F, D, pc[w], job[w])
  BY DEF D
<1>1. CASE Load(w)
  <2>1. Resting(job[w])
    BY <1>0, <1>1, LoadStep DEF Placed
  <2>2. /\ job'[w].state = ledger /\ job'[w].page = ledger.cursor /\ pc'[w] = "drain"
        /\ Settled' = D /\ UNCHANGED <<job[w].ups, job[w].cut, job[w].todo>>
    BY <1>0, <1>00, <1>1, LoadStep DEF seen
  <2>3. \A i \in D \cap source : i \in job'[w].state.committed \/ Skipped(kind, F, job'[w], i)
    BY <1>0, <2>1, <2>2 DEF D, Entered, Skipped, Resting
  <2>4. QED
    BY <2>1, <2>2, <2>3 DEF JobKnows, Drained, Chosen, Resting
<1>2. CASE Drain(w)
  <2>1. PICK b : b = Sync(job[w].page)
    OBVIOUS
  <2>2. /\ pc[w] = "drain" /\ pc'[w] \in {"drain", "delete"} /\ Settled' = D
        /\ job'[w].ups = job[w].ups \cup b.ups /\ job'[w].page = b.next
        /\ job'[w].full => ~b.more
        /\ UNCHANGED <<job[w].state, job[w].cut, job[w].todo>>
    BY <1>0, <1>00, <1>2, <2>1, DrainStep DEF seen
  <2>3. job[w].page \in Cursors(kind, Known) /\ GlobalTypes
    BY <1>0 DEF JobKnown, TypeInv
  <2>4. b.next \in Maps(source) /\ None # b.next
    <3>1. b.next \in Maps(source)
      BY <2>1, <2>3, SyncKnown
    <3>2. QED
      BY <2>3, <3>1, MapsOf, CollectAssumption DEF GlobalTypes
  <2>5. Told(job'[w].page) = b.next
    BY <2>2, <2>4 DEF Told
  <2>6. ASSUME kind = "incremental"
        PROVE  /\ \A i \in source \cap Current(F, job[w].page) :
                     i \in Current(F, job'[w].page) /\ i \notin b.ups
               /\ ~b.more => source \subseteq Current(F, job'[w].page)
    <3>1. /\ \A i \in source \cap DOMAIN Told(job[w].page) :
                Told(job[w].page)[i] = flags[i] =>
                   i \notin b.ups /\ i \in DOMAIN b.next /\ b.next[i] = flags[i]
          /\ ~b.more => b.next = Digest
      BY <2>1, <2>3, <2>6, SyncKnown
    <3>2. DOMAIN Digest = source /\ \A i \in source : Digest[i] = flags[i]
      BY DEF Digest
    <3>3. QED
      BY <2>5, <3>1, <3>2 DEF Current
  <2>7. \A i \in D \cap source : i \in job'[w].state.committed \/ Skipped(kind, F, job'[w], i)
    <3>1. \A i \in D \cap source : i \in job[w].state.committed \/ Skipped(kind, F, job[w], i)
      BY <1>01, <2>2 DEF JobKnows
    <3>2. QED
      BY <2>2, <2>6, <3>1 DEF Skipped
  <2>8. kind = "incremental" /\ job'[w].full =>
           (job'[w].state.committed \cup job'[w].ups) \cap source \subseteq Current(F, job'[w].page)
    BY <2>2, <2>6
  <2>9. job'[w].cut \cap job'[w].todo = {} /\ job'[w].cut \subseteq job'[w].state.committed
    BY <1>01, <2>2 DEF JobKnows
  <2>10. QED
    BY <2>2, <2>7, <2>8, <2>9 DEF JobKnows, Chosen
<1>3. CASE DeleteNamed(w)
  <2>1. PICK i : /\ pc[w] = "delete" /\ pc'[w] = "delete" /\ DeleteRow(i)
                 /\ job'[w].state = [job[w].state EXCEPT !.committed = @ \ {i}]
                 /\ UNCHANGED <<job[w].page, job[w].ups, job[w].cut, job[w].todo, job[w].full>>
    BY <1>0, <1>3, DeleteNamedStep
  <2>2. Settled' = D \ {i}
    BY <1>00, <2>1
  <2>3. /\ job'[w].state.cursor = job[w].state.cursor
        /\ job'[w].state.committed = job[w].state.committed \ {i}
    BY <1>0, <2>1 DEF Ledgers
  <2>4. job'[w].cut = {}
    BY <1>0, <2>1 DEF Placed
  <2>5. \A t \in (D \ {i}) \cap source :
           t \in job'[w].state.committed \/ Skipped(kind, F, job'[w], t)
    <3>1. \A t \in D \cap source : t \in job[w].state.committed \/ Skipped(kind, F, job[w], t)
      BY <1>01, <2>1 DEF JobKnows, Drained
    <3>2. QED
      BY <2>1, <2>3, <3>1 DEF Skipped
  <2>6. kind = "incremental" /\ job'[w].full =>
           (job'[w].state.committed \cup job'[w].ups) \cap source \subseteq Current(F, job'[w].page)
    <3>1. kind = "incremental" /\ job[w].full =>
             (job[w].state.committed \cup job[w].ups) \cap source \subseteq Current(F, job[w].page)
      BY <1>01, <2>1 DEF JobKnows, Drained
    <3>2. QED
      BY <2>1, <2>3, <3>1
  <2>7. QED
    BY <2>1, <2>2, <2>4, <2>5, <2>6 DEF JobKnows, Chosen
<1>4. CASE ListForReconcile(w)
  <2>1. /\ pc[w] = "delete" /\ pc'[w] \in {"partition", "reconcile"} /\ Settled' = D
        /\ UNCHANGED <<job[w].page, job[w].ups, job[w].cut, job[w].todo, job[w].full, job[w].state,
                       job[w].all, job[w].item>>
    BY <1>0, <1>00, <1>4, ListForReconcileStep DEF seen
  <2>2. QED
    BY <1>01, <2>1, KnowsSame DEF Drained, Chosen
<1>5. CASE Reconcile(w)
  <2>1. PICK i : /\ pc[w] = "reconcile" /\ pc'[w] \in {"partition", "reconcile"} /\ DeleteRow(i)
                 /\ UNCHANGED <<job[w].page, job[w].ups, job[w].cut, job[w].todo, job[w].full,
                                job[w].state, job[w].all, job[w].item>>
    BY <1>0, <1>5, ReconcileStep
  <2>2. Settled' \subseteq D
    BY <1>00, <2>1
  <2>3. QED
    BY <1>01, <2>1, <2>2, KnowsSame DEF Drained, Chosen
<1>6. CASE Partition(w)
  <2>1. /\ pc[w] = "partition" /\ pc'[w] \in {"run", "advance"} /\ Settled' = D
        /\ job'[w].state = [job[w].state EXCEPT !.committed = @ \cup CutOff(w)]
        /\ job'[w].todo \subseteq New(w) \ CutOff(w)
        /\ job'[w].cut = CutOff(w)
        /\ job'[w].all => job[w].full
        /\ UNCHANGED <<job[w].page, job[w].full, job[w].ups>>
    BY <1>0, <1>00, <1>6, PartitionStep DEF seen
  <2>2. CutOff(w) \subseteq New(w) /\ New(w) \subseteq job[w].ups
        /\ New(w) \cap job[w].state.committed = {}
    BY DEF CutOff, New
  <2>3. /\ job'[w].state.cursor = job[w].state.cursor
        /\ job'[w].state.committed = job[w].state.committed \cup CutOff(w)
    BY <1>0, <2>1 DEF Ledgers
  <2>4. \A t \in D \cap source : t \in job[w].state.committed \/ Skipped(kind, F, job[w], t)
    BY <1>01, <2>1 DEF JobKnows, Drained
  <2>5. \A t \in D \cap source : t \in job'[w].state.committed \/ Skipped(kind, F, job'[w], t)
    BY <2>1, <2>3, <2>4 DEF Skipped
  <2>6. kind = "incremental" /\ job'[w].full =>
           (job'[w].state.committed \cup job'[w].ups) \cap source \subseteq Current(F, job'[w].page)
    <3>1. kind = "incremental" /\ job[w].full =>
             (job[w].state.committed \cup job[w].ups) \cap source \subseteq Current(F, job[w].page)
      BY <1>01, <2>1 DEF JobKnows, Drained
    <3>2. QED
      BY <2>1, <2>2, <2>3, <3>1
  <2>7. job'[w].todo \cap D \cap source = {}
    BY <2>1, <2>2, <2>4 DEF Skipped
  <2>8. /\ job'[w].cut \cap job'[w].todo = {} /\ job'[w].cut \subseteq job'[w].state.committed
        /\ (job'[w].all => job'[w].full) /\ job'[w].todo \subseteq job'[w].ups
    BY <2>1, <2>2, <2>3
  <2>9. QED
    BY <2>1, <2>5, <2>6, <2>7, <2>8 DEF JobKnows
<1>7. CASE Write(w)
  <2>1. pc[w] = "run" /\ pc'[w] \in {"effect", "verdict"} /\ Settled' = D
    BY <1>0, <1>00, <1>7, WriteStep
  <2>2. UNCHANGED <<job[w].state, job[w].page, job[w].full, job[w].ups, job[w].todo, job[w].cut,
                    job[w].all>>
    BY <1>0, <1>7, WriteStep
  <2>3. (job'[w].todo \ {job'[w].item}) \cap D \cap source = {}
    BY <1>01, <2>1, <2>2 DEF JobKnows
  <2>4. QED
    BY <1>01, <2>1, <2>2, <2>3 DEF JobKnows, Skipped, Drained, Chosen
<1>8. CASE Effect(w)
  <2>1. pc[w] = "effect" /\ pc'[w] = "verdict" /\ Settled' = D
    BY <1>0, <1>00, <1>8, EffectStep
  <2>2. UNCHANGED <<job[w].state, job[w].page, job[w].full, job[w].ups, job[w].todo, job[w].cut,
                    job[w].all, job[w].item>>
    BY <1>0, <1>8, EffectStep
  <2>3. QED
    BY <1>01, <2>1, <2>2, KnowsSame
<1>9. CASE Verdict(w)
  <2>1. /\ pc[w] = "verdict" /\ pc'[w] \in {"advance", "run"}
        /\ job'[w].state = IF Commits(w)
                           THEN [job[w].state EXCEPT !.committed = @ \cup {job[w].item}]
                           ELSE job[w].state
        /\ Settled' = D \cup Enters(w)
        /\ job'[w].todo = job[w].todo \ {job[w].item}
        /\ job'[w].all = (job[w].all /\ Commits(w))
        /\ UNCHANGED <<job[w].page, job[w].full, job[w].ups, job[w].cut>>
    BY <1>0, <1>00, <1>9, VerdictStep DEF Enter
  <2> DEFINE I == IF Commits(w) THEN {job[w].item} ELSE {}
  <2>2. I \subseteq {job[w].item} /\ Settled' = D \cup job[w].cut \cup I
    BY <2>1 DEF Enters
  <2>3. /\ job'[w].state.cursor = job[w].state.cursor
        /\ job'[w].state.committed = job[w].state.committed \cup I
    BY <1>0, <2>1 DEF Ledgers
  <2> HIDE DEF I
  <2>4. /\ job[w].item \in job[w].todo /\ job[w].todo \subseteq job[w].ups
        /\ job[w].cut \cap job[w].todo = {} /\ job[w].cut \subseteq job[w].state.committed
        /\ (job[w].all => job[w].full)
        /\ (job[w].todo \ {job[w].item}) \cap D \cap source = {}
    BY <1>0, <1>01, <2>1 DEF JobKnows, Chosen, Placed
  <2>5. \A t \in Settled' \cap source :
           t \in job'[w].state.committed \/ Skipped(kind, F, job'[w], t)
    <3>1. \A t \in D \cap source : t \in job[w].state.committed \/ Skipped(kind, F, job[w], t)
      BY <1>01, <2>1 DEF JobKnows, Drained
    <3>2. \A t : Skipped(kind, F, job[w], t) => Skipped(kind, F, job'[w], t)
      BY <2>1, <2>3 DEF Skipped
    <3>3. QED
      BY <2>2, <2>3, <2>4, <3>1, <3>2
  <2>6. kind = "incremental" /\ job'[w].full =>
           (job'[w].state.committed \cup job'[w].ups) \cap source \subseteq Current(F, job'[w].page)
    <3>1. kind = "incremental" /\ job[w].full =>
             (job[w].state.committed \cup job[w].ups) \cap source \subseteq Current(F, job[w].page)
      BY <1>01, <2>1 DEF JobKnows, Drained
    <3>2. QED
      BY <2>1, <2>2, <2>3, <2>4, <3>1
  <2>7. job'[w].todo \cap Settled' \cap source = {}
    BY <2>1, <2>2, <2>4
  <2>8. /\ job'[w].cut \cap job'[w].todo = {} /\ job'[w].cut \subseteq job'[w].state.committed
        /\ (job'[w].all => job'[w].full) /\ job'[w].todo \subseteq job'[w].ups
    BY <2>1, <2>3, <2>4
  <2>9. QED
    BY <2>1, <2>5, <2>6, <2>7, <2>8 DEF JobKnows
<1>10. QED
  BY <1>1, <1>2, <1>3, <1>4, <1>5, <1>6, <1>7, <1>8, <1>9

(* The ledger after the last step of a job. *)
LEMMA KnowsAdvance ==
    ASSUME TypeInv, UNCHANGED setup, kind # "table", NEW w \in Workers, Advance(w),
           JobKnows(kind, source, flags, Settled, pc[w], job[w]),
           kind = "snapshot" => Whole(source, Digest, pc[w], job[w])
    PROVE  Settled' \cap source \subseteq Entered(kind, flags, ledger')
<1> DEFINE j == job[w]
<1>0. /\ JobKnown(kind, Known, j) /\ Placed(kind, pc[w], j) /\ j.state \in Ledgers(kind, Known)
      /\ kind \in {"incremental", "snapshot"}
  BY CollectAssumption DEF TypeInv, JobsKnown, JobKnown, GlobalTypes
<1>1. ledger' = AdvanceSource(j) /\ Settled' = Settled \cup j.cut /\ pc[w] = "advance"
  BY SettledNext DEF Advance, setup, TypeInv, GlobalTypes
<1>2. \A i \in Settled' \cap source :
         i \in j.state.committed \/ Skipped(kind, flags, j, i)
  BY <1>1 DEF JobKnows, Drained
<1>3. CASE ~j.all
  <2> DEFINE st == [j.state EXCEPT !.initialized = TRUE]
  <2>1. ledger' = st
    BY <1>1, <1>3 DEF AdvanceSource
  <2>2. st.cursor = j.state.cursor /\ st.committed = j.state.committed
    BY <1>0 DEF Ledgers
  <2>3. QED
    BY <1>2, <2>1, <2>2 DEF Entered, Skipped
<1>4. CASE j.all /\ kind = "incremental"
  <2>1. ledger'.cursor = j.page
    BY <1>0, <1>1, <1>4 DEF AdvanceSource, Ledgers
  <2>2. j.state.committed \cap source \subseteq Current(flags, j.page)
    BY <1>1, <1>4 DEF JobKnows, Chosen, Drained
  <2>3. QED
    BY <1>2, <1>4, <2>1, <2>2 DEF Entered, Skipped
<1>5. CASE j.all /\ kind = "snapshot"
  <2>1. ledger'.committed = IF CursorChanged(j) THEN j.state.committed \cap j.ups
                            ELSE j.state.committed
    BY <1>0, <1>1, <1>5 DEF AdvanceSource, Ledgers
  <2>2. CursorChanged(j) => j.ups = source
    BY <1>1, <1>5 DEF Whole, Drained, CursorChanged
  <2>3. Settled' \cap source \subseteq j.state.committed
    BY <1>2, <1>5 DEF Skipped
  <2>4. QED
    BY <1>5, <2>1, <2>2, <2>3 DEF Entered
<1>6. QED
  BY <1>0, <1>3, <1>4, <1>5

(* One step. *)
LEMMA CollectKnows ==
    ASSUME ~Returns, TypeInv, Apart, Guarded, kind # "table", [Next]_vars,
           \A w \in Workers : job[w].dels \subseteq gone,
           kind = "snapshot" => \A w \in Workers : Whole(source, Digest, pc[w], job[w]),
           done \subseteq Known, Settled \cap source \subseteq Entered(kind, flags, ledger),
           \A w \in Workers : JobKnows(kind, source, flags, Settled, pc[w], job[w])
    PROVE  /\ done' \subseteq Known' /\ Settled' \cap source' \subseteq Entered(kind, flags', ledger')
           /\ \A w \in Workers : JobKnows(kind, source', flags', Settled', pc'[w], job'[w])
<1> DEFINE Goal == /\ done' \subseteq Known' /\ Settled' \cap source' \subseteq Entered(kind, flags', ledger')
                   /\ \A w \in Workers : JobKnows(kind, source', flags', Settled', pc'[w], job'[w])
<1>0. /\ JobShape
      /\ \A w \in Workers : JobKnown(kind, Known, job[w]) /\ Placed(kind, pc[w], job[w])
  BY DEF TypeInv, JobsKnown
<1>00. Known \subseteq Known' /\ ledger \in Ledgers(kind, Known)
  BY CollectOutside DEF TypeInv
<1>01. /\ UNCHANGED setup /\ kind' = kind /\ touched \subseteq done
       /\ UNCHANGED <<done, touched>> => Settled' = Settled
       /\ \A i : DeleteRow(i) => Settled' = Settled \ {i}
       /\ \A E : Enter(E) => Settled' = Settled \cup E
       /\ Settled \subseteq done
  BY CollectOutside, SettledNext DEF setup, TypeInv, GlobalTypes
<1>1. ASSUME UNCHANGED <<done, touched, flags, ledger, pc, job>> PROVE Goal
  <2>1. \A i \in source' \ source : i \notin Known
    BY CollectAround
  <2>2. source' \cap Known \subseteq source
    BY <2>1
  <2>3. \A w \in Workers : JobKnows(kind, source', flags, Settled, pc[w], job[w])
    BY <1>0, <1>01, <2>2, KnowsStays
  <2>4. Settled \cap source' \subseteq Settled \cap source
    BY <1>01, <2>2
  <2>5. Settled' = Settled
    BY <1>01, <1>1
  <2>6. QED
    BY <1>00, <1>1, <2>3, <2>4, <2>5
<1>2. ASSUME NEW w \in Workers, pc[w] # "idle",
             \A v \in Workers \ {w} : pc'[v] = pc[v] /\ job'[v] = job[v],
             UNCHANGED outside, done' \subseteq Known,
             Settled' \cap source \subseteq Entered(kind, flags, ledger'),
             JobKnows(kind, source, flags, Settled', pc'[w], job'[w])
      PROVE  Goal
  <2>1. ASSUME NEW v \in Workers \ {w} PROVE JobKnows(kind, source, flags, Settled', pc'[v], job'[v])
    <3>1. pc[v] = "idle" /\ pc'[v] = "idle" /\ job'[v] = job[v]
      BY <1>2 DEF Guarded
    <3>2. Resting(job'[v])
      BY <1>0, <3>1 DEF Placed
    <3>3. QED
      BY <3>1, <3>2, RestingKnows
  <2>2. \A v \in Workers : JobKnows(kind, source, flags, Settled', pc'[v], job'[v])
    BY <1>2, <2>1
  <2>3. QED
    BY <1>00, <1>2, <2>2 DEF outside
<1>3. ASSUME NEW i \in Items, Arrive(i) \/ Vanish(i) \/ Age(i) PROVE Goal
  <2>1. UNCHANGED <<done, touched, flags, ledger, pc, job>>
    BY <1>3 DEF Arrive, Vanish, Age, seen
  <2>2. QED
    BY <1>1, <2>1
<1>30. ASSUME NEW i \in Items, Touch(i) PROVE Goal
  <2>1. /\ UNCHANGED <<done, source, gone, ledger, pc, job>> /\ About("drain")
        /\ flags' = [flags EXCEPT ![i] = 1 - @] /\ touched' = touched \cup ({i} \cap done)
    BY <1>30 DEF Touch
  <2>2. \A k : k # i => flags'[k] = flags[k]
    BY <2>1 DEF TypeInv, GlobalTypes
  <2>3. \A k \in Settled' : k \in Settled /\ (kind = "incremental" => k # i)
    BY <1>01, <2>1 DEF Settled
  <2>4. kind \in {"incremental", "snapshot"}
    BY CollectAssumption DEF TypeInv, GlobalTypes
  <2>5. \A c, k : k # i /\ k \in Current(flags, c) => k \in Current(flags', c)
    BY <2>2 DEF Current
  <2>6. Settled' \cap source' \subseteq Entered(kind, flags', ledger')
    BY <2>1, <2>3, <2>4, <2>5 DEF Entered
  <2>7. ASSUME NEW w \in Workers PROVE JobKnows(kind, source', flags', Settled', pc'[w], job'[w])
    <3>1. CASE pc[w] = "drain"
      <4>1. JobKnows(kind, source, flags, Settled, "drain", job[w])
        BY <3>1
      <4>2. \A k \in Settled' \cap source :
               k \in job[w].state.committed \/ Skipped(kind, flags', job[w], k)
        BY <2>3, <2>5, <4>1 DEF JobKnows, Skipped
      <4>3. QED
        BY <2>1, <3>1, <4>1, <4>2 DEF JobKnows, Drained, Chosen
    <3>2. CASE pc[w] # "drain"
      <4>1. pc[w] = "idle"
        BY <2>1, <3>2 DEF About, Guarded
      <4>2. Resting(job[w])
        BY <1>0, <4>1 DEF Placed
      <4>3. QED
        BY <2>1, <4>1, <4>2, RestingKnows
    <3>3. QED
      BY <3>1, <3>2
  <2>8. QED
    BY <1>00, <2>1, <2>6, <2>7 DEF Known
<1>4. CASE Expire \/ UNCHANGED vars
  <2>1. UNCHANGED <<done, touched, flags, ledger, pc, job>>
    BY <1>4 DEF Expire, vars, seen, outside
  <2>2. QED
    BY <1>1, <2>1
<1>5. ASSUME NEW w \in Workers,
             Load(w) \/ Drain(w) \/ DeleteNamed(w) \/ ListForReconcile(w) \/ Reconcile(w)
             \/ Partition(w) \/ Write(w) \/ Effect(w)
      PROVE  Goal
  <2>1. JobKnows(kind, source, flags, Settled', pc'[w], job'[w])
    BY <1>01, <1>5, KnowsWork
  <2>2. pc[w] # "idle" /\ \A v \in Workers \ {w} : pc'[v] = pc[v] /\ job'[v] = job[v]
    BY <1>0, <1>5, CollectInside DEF Inside
  <2>3. UNCHANGED <<outside, ledger>> /\ done' \subseteq done /\ Settled' \subseteq Settled
    <3>1. CASE DeleteNamed(w) \/ Reconcile(w)
      <4>1. UNCHANGED <<outside, ledger>> /\ \E i : DeleteRow(i)
        BY <3>1 DEF DeleteNamed, Reconcile
      <4>2. QED
        BY <1>01, <4>1 DEF DeleteRow
    <3>2. CASE Load(w) \/ Drain(w) \/ ListForReconcile(w) \/ Partition(w) \/ Write(w) \/ Effect(w)
      <4>1. UNCHANGED <<outside, ledger, done, touched>>
        BY <3>2 DEF Load, Drain, ListForReconcile, Partition, Write, Effect, seen
      <4>2. QED
        BY <1>01, <4>1
    <3>3. QED
      BY <1>5, <3>1, <3>2
  <2>4. QED
    BY <1>2, <2>1, <2>2, <2>3
<1>6. ASSUME NEW w \in Workers, Verdict(w) PROVE Goal
  <2>1. JobKnows(kind, source, flags, Settled', pc'[w], job'[w])
    BY <1>01, <1>6, KnowsWork
  <2>2. pc[w] # "idle" /\ \A v \in Workers \ {w} : pc'[v] = pc[v] /\ job'[v] = job[v]
    BY <1>0, <1>6, CollectInside DEF Inside
  <2>3. /\ ledger' = job'[w].state /\ UNCHANGED outside /\ pc[w] = "verdict"
        /\ pc'[w] \in {"advance", "run"}
        /\ done' = done \cup Enters(w)
    BY <1>0, <1>6, VerdictStep
  <2>4. Enters(w) \subseteq Known
    BY <1>0, <2>3 DEF JobKnown, Placed, Enters
  <2>5. Settled' \cap source \subseteq Entered(kind, flags, ledger')
    BY <2>1, <2>3 DEF JobKnows, Drained, Entered, Skipped
  <2>6. done' \subseteq Known
    BY <2>3, <2>4
  <2>7. QED
    BY <1>2, <2>1, <2>2, <2>3, <2>5, <2>6
<1>7. ASSUME NEW w \in Workers, Advance(w) PROVE Goal
  <2>1. /\ pc'[w] \in {"idle", "release"} /\ Resting(job'[w]) /\ UNCHANGED outside
        /\ \A v \in Workers \ {w} : pc'[v] = pc[v] /\ job'[v] = job[v]
    BY <1>0, <1>7, CollectEnds
  <2>2. Settled' \cap source \subseteq Entered(kind, flags, ledger')
    BY <1>01, <1>7, KnowsAdvance
  <2>3. pc[w] = "advance" /\ done' = done \cup job[w].cut
    BY <1>7 DEF Advance, Enter
  <2>4. done' \subseteq Known
    BY <1>0, <2>3 DEF JobKnown
  <2>5. JobKnows(kind, source, flags, Settled', pc'[w], job'[w])
    BY <2>1, RestingKnows
  <2>6. QED
    BY <1>2, <2>1, <2>2, <2>3, <2>4, <2>5
<1>8. ASSUME NEW w \in Workers, NotToday(w) \/ Fail(w) \/ Release(w) \/ Crash(w) PROVE Goal
  <2>1. /\ pc'[w] \in {"idle", "release"} /\ Resting(job'[w]) /\ UNCHANGED outside
        /\ \A v \in Workers \ {w} : pc'[v] = pc[v] /\ job'[v] = job[v]
    BY <1>0, <1>8, CollectEnds
  <2>2. pc[w] # "idle" /\ done' = done /\ ledger' = ledger /\ Settled' = Settled
    BY <1>01, <1>8 DEF NotToday, Fail, Release, Crash, seen
  <2>3. JobKnows(kind, source, flags, Settled', pc'[w], job'[w])
    BY <2>1, RestingKnows
  <2>4. QED
    BY <1>2, <2>1, <2>2, <2>3
<1>9. ASSUME NEW w \in Workers, Acquire(w) \/ AcquireFails(w) \/ RefreshFails(w) PROVE Goal
  <2>1. /\ \A v \in Workers \ {w} : pc'[v] = pc[v] /\ job'[v] = job[v]
        /\ UNCHANGED <<outside, ledger>> /\ done' = done /\ Settled' = Settled
    BY <1>01, <1>9, CollectLocks DEF seen
  <2>2. JobKnows(kind, source, flags, Settled, pc'[w], job'[w])
    <3>1. CASE pc'[w] = "load" /\ Resting(job'[w])
      BY <3>1, RestingKnows
    <3>2. CASE /\ pc'[w] = pc[w]
               /\ UNCHANGED <<job[w].state, job[w].page, job[w].full, job[w].ups,
                              job[w].todo, job[w].cut, job[w].all, job[w].item>>
      BY <3>2, KnowsSame
    <3>3. QED
      BY <1>9, <3>1, <3>2, CollectLocks
  <2>3. \A v \in Workers : JobKnows(kind, source, flags, Settled, pc'[v], job'[v])
    BY <2>1, <2>2
  <2>4. QED
    BY <1>00, <2>1, <2>3 DEF outside
<1>10. ASSUME NEW w \in Workers, Anchor(w) \/ PollRows(w) \/ StartRow(w) PROVE FALSE
  <2>1. CASE StartRow(w)
    BY <2>1 DEF StartRow
  <2>2. CASE Anchor(w) \/ PollRows(w)
    <3>1. pc[w] \in {"anchor", "poll"}
      BY <2>2 DEF Anchor, PollRows
    <3>2. QED
      BY <1>0, <3>1 DEF Placed
  <2>3. QED
    BY <1>10, <2>1, <2>2
<1>11. Goal
  BY <1>3, <1>30, <1>4, <1>5, <1>6, <1>7, <1>8, <1>9, <1>10 DEF Next, Step
<1>12. QED
  BY <1>11

(* An item of a mailbox or a calendar that was entered in the ledger, as    *)
(* committed or as cut off, and that is still at the source is not run      *)
(* again, however the polls are paged, capped, failed or crashed, unless    *)
(* its flags change at an incremental source, and as long as the lock       *)
(* service fails nobody: the ledger and the cursor of the provider together *)
(* keep every such item out of what a poll chooses.                         *)
(* Tables are left out because advance_table forgets committed rows.        *)
THEOREM CollectCommittedNotRerun ==
    ASSUME ~Returns, "table" \notin Kinds PROVE Spec => CommittedNotRerun
<1> DEFINE Inv == LossInv /\ KnowsInv
<1>1. Init => Inv
  <2> SUFFICES ASSUME Init PROVE Inv
    OBVIOUS
  <2>1. \A w \in Workers : pc[w] = "idle" /\ Resting(job[w])
    BY DEF Init, Resting, NoJob
  <2>2. done = {} /\ Settled = {}
    BY DEF Init, Settled
  <2>3. KnowsInv
    BY <2>1, <2>2, RestingKnows DEF KnowsInv
  <2>4. QED
    BY <2>3, CollectLossInit
<1>2. ASSUME Inv, [Next]_vars, ~busFailed
      PROVE  /\ kind # "table" /\ Guarded /\ \A w \in Workers : job[w].dels \subseteq gone
             /\ kind = "snapshot" => \A w \in Workers : Whole(source, Digest, pc[w], job[w])
             /\ done \subseteq Known /\ Settled \cap source \subseteq Entered(kind, flags, ledger)
             /\ \A w \in Workers : JobKnows(kind, source, flags, Settled, pc[w], job[w])
  <2>1. kind # "table"
    BY <1>2 DEF LossInv, TypeInv, GlobalTypes
  <2>2. Guarded
    BY <1>2 DEF LossInv, LockInv
  <2>3. \A w \in Workers : job[w].dels \subseteq gone
    BY <1>2 DEF LossInv, SoundInv, Reliable, JobSound
  <2>4. kind = "snapshot" => \A w \in Workers : Whole(source, Digest, pc[w], job[w])
    BY <1>2 DEF LossInv, WholeInv
  <2>5. QED
    BY <1>2, <2>1, <2>2, <2>3, <2>4 DEF KnowsInv
<1>3. Inv /\ [Next]_vars => Inv'
  <2> SUFFICES ASSUME Inv, [Next]_vars PROVE Inv'
    OBVIOUS
  <2>1. LossInv'
    BY CollectLossNext
  <2>2. kind' = kind /\ busFailed \in BOOLEAN /\ (busFailed' = TRUE \/ busFailed' = busFailed)
    BY CollectBus, CollectOutside DEF LossInv, TypeInv, GlobalTypes, setup
  <2>3. KnowsInv'
    <3> SUFFICES ASSUME ~busFailed'
                 PROVE  /\ done' \subseteq Known' /\ Settled' \cap source' \subseteq Entered(kind, flags', ledger')
                        /\ \A w \in Workers : JobKnows(kind, source', flags', Settled', pc'[w], job'[w])
      BY <2>2 DEF KnowsInv
    <3>1. ~busFailed
      BY <2>2
    <3>2. QED
      BY <1>2, <3>1, CollectKnows DEF LossInv
  <2>4. QED
    BY <2>1, <2>3
<1>4. Inv /\ [Next]_vars =>
        [\A w \in Workers, i \in Settled \cap source : ~busFailed /\ Running(w, i)' => Running(w, i)]_vars
  <2> SUFFICES ASSUME Inv, [Next]_vars, NEW w \in Workers, NEW i \in Settled \cap source,
                      ~busFailed, Running(w, i)'
               PROVE  Running(w, i)
    OBVIOUS
  <2>1. pc'[w] \in {"effect", "verdict"} /\ job'[w].item = i
    BY DEF Running
  <2>2. TypeInv /\ JobShape
    BY DEF LossInv, TypeInv
  <2>3. CASE Write(w)
    <3>1. job'[w].item = Min(job[w].todo) /\ pc[w] = "run"
      BY <2>2, <2>3, WriteStep
    <3>2. job[w].todo \subseteq Items /\ job[w].todo # {}
      BY <2>2, <3>1 DEF TypeInv, JobsKnown, JobKnown, Placed, Known, GlobalTypes
    <3>3. i \in job[w].todo
      BY <2>1, <3>1, <3>2, MinItem
    <3>4. job[w].todo \cap Settled \cap source = {}
      BY <1>2, <3>1 DEF JobKnows
    <3>5. QED
      BY <3>3, <3>4
  <2>4. CASE StartRow(w)
    BY <1>2, <2>4 DEF StartRow
  <2>5. CASE Effect(w)
    <3>1. pc[w] = "effect" /\ job'[w].item = job[w].item
      BY <2>2, <2>5, EffectStep
    <3>2. QED
      BY <2>1, <3>1 DEF Running
  <2>6. CASE pc'[w] = pc[w] /\ job'[w].item = job[w].item
    BY <2>1, <2>6 DEF Running
  <2>7. QED
    BY <2>1, <2>2, <2>3, <2>4, <2>5, <2>6, RunsItem
<1>5. QED
  BY <1>1, <1>3, <1>4, PTL DEF Spec, CommittedNotRerun

=============================================================================

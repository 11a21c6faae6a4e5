------------------------------- MODULE Collect -------------------------------
(***************************************************************************)
(* Collect jobs (catalerum-ingest, collect.rs and collect_sql.rs): pull     *)
(* the new items of an external source, run the automation once for each,   *)
(* and remember in the connection's ledger which items are committed and    *)
(* up to which provider cursor everything is.  The jobs of one connection   *)
(* are serialised by a lock of the bus that is refreshed while the job runs *)
(* and that fails open (worker.rs, collect_gate).                           *)
(*                                                                         *)
(* One source of one connection is followed, in one of three kinds:         *)
(*   incremental  the provider keeps in the cursor which items it told and  *)
(*                with which flags; it names new, changed and vanished      *)
(*                items, a page at a time (IMAP, JMAP);                     *)
(*   snapshot     the cursor is a digest of the content; a changed source   *)
(*                is told in full and deletions are inferred (Maildir, ics);*)
(*   table        rows at or past a cursor value (collect_sql).             *)
(* Of an item only its flags change, such as whether it was read; a row is  *)
(* never changed.  Scheduling is left out: a worker may begin a job at any  *)
(* time.                                                                   *)
(***************************************************************************)
EXTENDS Integers, FiniteSetsExt

CONSTANTS
    Workers,
    Items,       \* the uids, in the order of their receipt
    Kinds,       \* the kinds of source to follow
    CommitOns,   \* whether the trigger has a commit_on node
    Windows,     \* whether the trigger has a backfill_window
    Matching,    \* the items the filter of the trigger lets through
    Stamp,       \* Stamp[i]: the value of the cursor column of row i
    FirstCap,    \* FIRST_POLL_CAP
    SteadyCap,   \* STEADY_POLL_CAP, ROW_POLL_CAP
    PageSize,    \* BODY_FETCH_CAP
    MaxPages,    \* MAX_SYNC_PAGES
    Returns,     \* whether a uid that vanished may come back
    MaxFaults,   \* bound: how many faults happen
    BusFault,    \* bound: as how many a failure of the lock counts
    FlagChange,  \* bound: as how many a change of flags counts
    None

Orphan == "orphan"    \* a lock whose holder does not know that it has it

ASSUME CollectAssumption ==
    /\ Items \subseteq Nat /\ IsFiniteSet(Items) /\ Matching \subseteq Items
    /\ Kinds \subseteq {"incremental", "snapshot", "table"}
    /\ CommitOns \subseteq BOOLEAN /\ Windows \subseteq BOOLEAN /\ Returns \in BOOLEAN
    /\ Stamp \in [Items -> Nat]
    /\ \A i, j \in Items : i < j => Stamp[i] <= Stamp[j]
    /\ {FirstCap, SteadyCap, PageSize, MaxPages} \subseteq Nat \ {0}
    /\ MaxFaults \in Nat /\ BusFault \in Nat /\ FlagChange \in Nat
    /\ Orphan \notin Workers /\ None \notin Workers \cup {Orphan}
    /\ \A i \in Items : None # Stamp[i]
    /\ \A S \in SUBSET Items : None \notin [S -> {0, 1}]

VARIABLES
    kind, commitOn, window,   \* what is collected; they never change
    source,     \* the items at the source
    gone,       \* the items that were there and vanished
    old,        \* the items received before the backfill cutoff
    flags,      \* the flag signature of each item, 0 or 1
    ledger,     \* the SourceState in connection.sync_token
    stored,     \* the items that have a row in emails or events
    lock,       \* the source mutex: its holder, Orphan or None
    pc,
    job,        \* the local variables of the job of each worker, and the items it cut off
    faults,     \* how many faults, and changes of flags, have happened
    (* Observations. *)
    busFailed,  \* whether the lock service has failed a job
    blind,      \* items whose write could not tell whether they were stored
    done,       \* items entered as committed or cut off, since their row was last deleted
    spent,      \* how often the effects of an item took place, likewise
    touched     \* items in done whose flags changed since a poll read and entered them

setup   == <<kind, commitOn, window>>
outside == <<source, gone, old, flags>>
seen    == <<blind, done, spent, touched>>
vars    == <<setup, outside, ledger, stored, lock, pc, job, faults, busFailed, seen>>

NoItem  == 0
NewState == [cursor |-> None, committed |-> {}, initialized |-> FALSE]
NoJob ==
    [held |-> FALSE, refreshing |-> FALSE, state |-> NewState, page |-> None,
     pages |-> 0, full |-> FALSE, ups |-> {}, dels |-> {}, todo |-> {},
     cut |-> {}, all |-> FALSE, advance |-> None, item |-> NoItem, fresh |-> FALSE, ok |-> FALSE]

Init ==
    /\ kind \in Kinds /\ commitOn \in CommitOns /\ window \in Windows
    /\ source = {} /\ gone = {} /\ old = {}
    /\ flags = [i \in Items |-> 0]
    /\ ledger = NewState /\ stored = {} /\ lock = None
    /\ pc = [w \in Workers |-> "idle"]
    /\ job = [w \in Workers |-> NoJob]
    /\ faults = 0 /\ busFailed = FALSE
    /\ blind = {} /\ done = {} /\ spent = [i \in Items |-> 0] /\ touched = {}

Set(w, j)  == job' = [job EXCEPT ![w] = j]
Goto(w, l) == pc' = [pc EXCEPT ![w] = l]

(* The job returns: its variables are gone, but for the lock. *)
Return(w) ==
    /\ Goto(w, "release")
    /\ Set(w, [NoJob EXCEPT !.held = job[w].held, !.refreshing = job[w].refreshing])

Fault(n)   == faults + n <= MaxFaults /\ faults' = faults + n

-----------------------------------------------------------------------------
(* The world outside.  The source is read at "drain", "anchor" and "poll"    *)
(* and the age of items at "partition"; a change between two reads shows at  *)
(* the later one, so changes are made when somebody is about to read.        *)

About(l) == \E w \in Workers : pc[w] = l

Arrive(i) ==
    /\ About("drain") \/ About("anchor") \/ About("poll")
    /\ i \notin source
    /\ i \notin gone \/ Returns
    (* Cursor columns increase with insertion. *)
    /\ kind = "table" => \A j \in source : j < i
    /\ source' = source \cup {i}
    /\ UNCHANGED <<setup, gone, old, flags, ledger, stored, lock, pc, job, faults, busFailed, seen>>

Vanish(i) ==
    /\ About("drain")
    /\ i \in source
    /\ source' = source \ {i}
    /\ gone' = gone \cup {i}
    /\ UNCHANGED <<setup, old, flags, ledger, stored, lock, pc, job, faults, busFailed, seen>>

(* The flags of item i change: it is read, or marked as unread again. *)
Touch(i) ==
    /\ About("drain")
    /\ i \in source
    /\ Fault(FlagChange)
    /\ flags' = [flags EXCEPT ![i] = 1 - @]
    /\ touched' = touched \cup ({i} \cap done)
    /\ UNCHANGED <<setup, source, gone, old, ledger, stored, lock, pc, job, busFailed, blind,
                   done, spent>>

(* Time passes until item i is older than the backfill window. *)
Age(i) ==
    /\ About("partition")
    /\ i \notin old
    /\ old' = old \cup {i}
    /\ UNCHANGED <<setup, source, gone, flags, ledger, stored, lock, pc, job, faults, busFailed,
                   seen>>

-----------------------------------------------------------------------------
(* The source mutex. *)

(* collect_gate: the lock is taken, or the lock service fails and the job   *)
(* proceeds without it.  A lock held by another skips the job, which does   *)
(* nothing.                                                                *)
Acquire(w) ==
    /\ pc[w] = "idle"
    /\ lock = None
    /\ lock' = w
    /\ Set(w, [NoJob EXCEPT !.held = TRUE, !.refreshing = TRUE])
    /\ Goto(w, "load")
    /\ UNCHANGED <<setup, outside, ledger, stored, faults, busFailed, seen>>

AcquireFails(w) ==
    /\ pc[w] = "idle"
    /\ Fault(BusFault)
    /\ lock' \in IF lock = None THEN {None, Orphan} ELSE {lock}
    /\ busFailed' = TRUE
    /\ Goto(w, "load")
    /\ UNCHANGED <<setup, outside, ledger, stored, job, seen>>

(* The refresher task stops at the first failure; the collect goes on. *)
RefreshFails(w) ==
    /\ job[w].refreshing
    /\ Fault(BusFault)
    /\ busFailed' = TRUE
    /\ Set(w, [job[w] EXCEPT !.refreshing = FALSE])
    /\ UNCHANGED <<setup, outside, ledger, stored, lock, pc, seen>>

(* Mutant: the lock is not refreshed.                                       *)
ExpireUnrefreshed ==
    /\ lock # None
    /\ lock' = None
    /\ UNCHANGED <<setup, outside, ledger, stored, pc, job, faults, busFailed, seen>>

(* COLLECT_SOURCE_LOCK_TTL runs out when nobody refreshes the lock. *)
Expire ==
    /\ lock # None
    /\ lock \in Workers => ~job[lock].refreshing
    /\ lock' = None
    /\ UNCHANGED <<setup, outside, ledger, stored, pc, job, faults, busFailed, seen>>

(* CollectSourceLock::release, with the result of the job whatever it is:   *)
(* the refresher is stopped and the lock deleted if it is still the job's.  *)
Release(w) ==
    /\ pc[w] = "release"
    /\ \/ /\ lock' = IF job[w].held /\ lock = w THEN None ELSE lock
          /\ UNCHANGED faults
       \/ Fault(1) /\ UNCHANGED lock
    /\ Set(w, NoJob)
    /\ Goto(w, "idle")
    /\ UNCHANGED <<setup, outside, ledger, stored, busFailed, seen>>

-----------------------------------------------------------------------------
(* Reading the source. *)

(* run_collect_email_with up to the first page: the automation may be gone  *)
(* or disabled, or its grant may not cover the connection; the ledger is    *)
(* read once.                                                              *)
Load(w) ==
    /\ pc[w] = "load"
    /\ Set(w, [job[w] EXCEPT !.state = ledger, !.page = ledger.cursor])
    /\ Goto(w, IF kind # "table" THEN "drain"
               ELSE IF ledger.initialized THEN "poll" ELSE "anchor")
    /\ UNCHANGED <<setup, outside, ledger, stored, lock, faults, busFailed, seen>>

NotToday(w) ==
    /\ pc[w] = "load"
    /\ Fault(1)
    /\ Return(w)
    /\ UNCHANGED <<setup, outside, ledger, stored, lock, busFailed, seen>>

(* The items that a cursor does not have with the flags they have now. *)
Changed(prior) == {i \in source : i \notin DOMAIN prior \/ prior[i] # flags[i]}

(* Of the items S, the ones a page has no room for: the oldest. *)
Deferred(S) == {i \in S : Cardinality({j \in S : j > i}) >= PageSize}

(* Mutant: deferred items are in the next cursor.                           *)
DeltaOfAll(prior) ==
    [ups |-> Changed(prior) \ Deferred(Changed(prior)), dels |-> DOMAIN prior \ source,
     next |-> [i \in source |-> flags[i]], more |-> FALSE]

(* compute_delta: the newest PageSize of the new and changed items are      *)
(* fetched and the others deferred.  In the next cursor a deferred item is  *)
(* as in the prior one, and missing if it is new.                           *)
Delta(prior) ==
    LET changed  == Changed(prior)
        deferred == Deferred(changed)
    IN  [ups |-> changed \ deferred, dels |-> DOMAIN prior \ source,
         next |-> [i \in (source \ deferred) \cup (deferred \cap DOMAIN prior) |->
                      IF i \in deferred THEN prior[i] ELSE flags[i]],
         more |-> deferred # {}]

(* LocalIcsProvider::sync, and the other snapshot providers. *)
Snapshot(cursor) ==
    LET digest == [i \in source |-> flags[i]]
    IN  [ups |-> IF cursor = digest THEN {} ELSE source, dels |-> {},
         next |-> digest, more |-> FALSE]

NothingTold == [i \in {} |-> 0]

Sync(cursor) ==
    IF kind = "incremental" THEN Delta(IF cursor = None THEN NothingTold ELSE cursor)
                            ELSE Snapshot(cursor)

(* drain_email with next_sync_page: a page at a time until there is no      *)
(* more, the cursor stalls or MaxPages is reached.                          *)
Drain(w) ==
    LET j    == job[w]
        b    == Sync(j.page)
        stop == ~b.more \/ j.pages + 1 >= MaxPages \/ j.page = b.next
    IN  /\ pc[w] = "drain"
        /\ Set(w, [j EXCEPT !.ups = @ \cup b.ups, !.dels = @ \cup b.dels, !.page = b.next,
                            !.pages = IF stop THEN 0 ELSE @ + 1, !.full = stop /\ ~b.more])
        /\ Goto(w, IF stop THEN "delete" ELSE "drain")
        /\ UNCHANGED <<setup, outside, ledger, stored, lock, faults, busFailed, seen>>

(* delete_stored_email: the row goes, and with it what was done for it. *)
DeleteRow(i) ==
    /\ stored' = stored \ {i}
    /\ done' = done \ {i}
    /\ spent' = [spent EXCEPT ![i] = 0]
    /\ blind' = blind \ {i}
    /\ touched' = touched \ {i}

(* The deletions the provider named, one at a time. *)
DeleteNamed(w) ==
    /\ pc[w] = "delete" /\ job[w].dels # {}
    /\ LET i == Min(job[w].dels)
       IN  /\ DeleteRow(i)
           /\ Set(w, [job[w] EXCEPT !.dels = @ \ {i}, !.state.committed = @ \ {i}])
    /\ UNCHANGED <<setup, outside, ledger, lock, pc, faults, busFailed>>

CursorChanged(j) == j.state.cursor # j.page

(* reconcile_email_snapshot lists the stored rows and then deletes, one at  *)
(* a time, the ones that are not in the snapshot.                           *)
ListForReconcile(w) ==
    LET j     == job[w]
        dead  == IF kind = "snapshot" /\ j.full /\ CursorChanged(j) /\ j.ups # {}
                 THEN stored \ j.ups ELSE {}
    IN  /\ pc[w] = "delete" /\ j.dels = {}
        /\ Set(w, [j EXCEPT !.dels = dead])
        /\ Goto(w, IF dead = {} THEN "partition" ELSE "reconcile")
        /\ UNCHANGED <<setup, outside, ledger, stored, lock, faults, busFailed, seen>>

Reconcile(w) ==
    LET j == job[w]
        i == Min(j.dels)
    IN  /\ pc[w] = "reconcile"
        /\ DeleteRow(i)
        /\ Set(w, [j EXCEPT !.dels = @ \ {i}])
        /\ Goto(w, IF j.dels = {i} THEN "partition" ELSE "reconcile")
        /\ UNCHANGED <<setup, outside, ledger, lock, faults, busFailed>>

PassesCutoff(i, initialized) == i \notin old \/ (initialized /\ ~window)

FirstOf(S, n) == {i \in S : Cardinality({j \in S : j < i}) < n}

(* Mutant: the ledger is not consulted.                                     *)
PartitionAll(w) ==
    LET j    == job[w]
        new  == j.ups \cap Matching
        todo == FirstOf(new, SteadyCap)
    IN  /\ pc[w] = "partition"
        /\ Set(w, [j EXCEPT !.todo = todo, !.all = j.full /\ todo = new])
        /\ Goto(w, IF todo = {} THEN "advance" ELSE "run")
        /\ UNCHANGED <<setup, outside, ledger, stored, lock, faults, busFailed, seen>>

(* The batch is split into what is committed or filtered out, what is       *)
(* older than the cutoff, and what is to be run; at most a cap of the       *)
(* latter.                                                                 *)
Partition(w) ==
    LET j    == job[w]
        new  == (j.ups \cap Matching) \ j.state.committed
        cut  == {i \in new : ~PassesCutoff(i, j.state.initialized)}
        cap  == IF j.state.initialized THEN SteadyCap ELSE FirstCap
        todo == FirstOf(new \ cut, cap)
    IN  /\ pc[w] = "partition"
        /\ Set(w, [j EXCEPT !.state.committed = @ \cup cut, !.todo = todo, !.cut = cut,
                            !.all = j.full /\ todo = new \ cut])
        /\ Goto(w, IF todo = {} THEN "advance" ELSE "run")
        /\ UNCHANGED <<setup, outside, ledger, stored, lock, faults, busFailed, seen>>

(* Items are entered in the ledger. *)
Enter(S) ==
    /\ done' = done \cup S
    /\ touched' = touched \ S

(* The first poll of a table: what is there counts as history.  The rows at *)
(* the largest cursor value are read by a second query (boundary_rows),     *)
(* which stops at the cap.  A row that is inserted between the two queries  *)
(* is in its result and counts as there before, or is newer and counts as   *)
(* there after.                                                            *)
Anchor(w) ==
    LET top == IF source = {} THEN None ELSE Max({Stamp[i] : i \in source})
        boundary == {i \in source : Stamp[i] = top}
    IN  /\ pc[w] = "anchor"
        /\ \E rows \in SUBSET boundary :
              /\ \/ rows = boundary /\ Cardinality(rows) <= SteadyCap
                 \/ rows # boundary /\ Cardinality(rows) = SteadyCap
              /\ ledger' = [cursor |-> top, committed |-> rows, initialized |-> TRUE]
              /\ Enter((source \ boundary) \cup rows)
        /\ Return(w)
        /\ UNCHANGED <<setup, outside, stored, lock, faults, busFailed, blind, spent>>

(* poll_rows: the rows at or past the cursor, in order, one more than the   *)
(* cap to see whether there are more.                                       *)
PollRows(w) ==
    LET j    == job[w]
        rows == {i \in source : j.state.cursor = None \/ Stamp[i] >= j.state.cursor}
        todo == FirstOf(rows, SteadyCap) \ j.state.committed
    IN  /\ pc[w] = "poll"
        /\ Set(w, [j EXCEPT !.todo = todo, !.all = Cardinality(rows) <= SteadyCap])
        /\ Goto(w, IF todo = {} THEN "advance" ELSE "run")
        /\ UNCHANGED <<setup, outside, ledger, stored, lock, faults, busFailed, seen>>

-----------------------------------------------------------------------------
(* Running the items.  The automation is "write the item, then do something *)
(* that costs"; its write node is the commit_on node.  For a table it is    *)
(* only the latter.                                                        *)

(* run_item, the write: it stores the item and says whether it is new, it   *)
(* stores it and could not tell, or it fails, having stored it or not.      *)
Write(w) ==
    LET j == job[w]
        i == Min(j.todo)
    IN  /\ pc[w] = "run" /\ kind # "table"
        /\ \/ /\ stored' = stored \cup {i}
              /\ Set(w, [j EXCEPT !.item = i, !.fresh = i \notin stored])
              /\ Goto(w, "effect")
              /\ UNCHANGED <<faults, blind>>
           \/ /\ Fault(1)
              /\ stored' = stored \cup {i}
              /\ Set(w, [j EXCEPT !.item = i, !.fresh = TRUE])
              /\ blind' = blind \cup {i}
              /\ Goto(w, "effect")
           \/ /\ Fault(1)
              /\ stored' \in {stored, stored \cup {i}}
              /\ Set(w, [j EXCEPT !.item = i, !.ok = FALSE])
              /\ Goto(w, "verdict")
              /\ UNCHANGED blind
        /\ UNCHANGED <<setup, outside, ledger, lock, busFailed, done, spent, touched>>

StartRow(w) ==
    /\ pc[w] = "run" /\ kind = "table"
    /\ Set(w, [job[w] EXCEPT !.item = Min(job[w].todo), !.fresh = TRUE])
    /\ Goto(w, "effect")
    /\ UNCHANGED <<setup, outside, ledger, stored, lock, faults, busFailed, seen>>

(* Mutant: without the redelivery gate.                                     *)
EffectUngated(w) ==
    LET j == job[w]
    IN  /\ pc[w] = "effect"
        /\ spent' = [spent EXCEPT ![j.item] = IF @ < 2 THEN @ + 1 ELSE @]
        /\ Set(w, [j EXCEPT !.ok = TRUE])
        /\ Goto(w, "verdict")
        /\ UNCHANGED <<setup, outside, ledger, stored, lock, faults, busFailed, blind, done,
                       touched>>

(* The effect takes place unless the write found the item stored.  If it    *)
(* fails, the write node has succeeded; without a graph the whole run       *)
(* counts, and so it does for a table.                                      *)
Effect(w) ==
    LET j == job[w]
        i == j.item
    IN  /\ pc[w] = "effect"
        /\ spent' = [spent EXCEPT ![i] = IF j.fresh /\ @ < 2 THEN @ + 1 ELSE @]
        /\ \/ Set(w, [j EXCEPT !.ok = TRUE]) /\ UNCHANGED faults
           \/ j.fresh /\ Fault(1) /\ Set(w, [j EXCEPT !.ok = FALSE])
        /\ Goto(w, "verdict")
        /\ UNCHANGED <<setup, outside, ledger, stored, lock, busFailed, blind, done,
                       touched>>

(* Mutant: the item is forgotten before it is entered.                      *)
VerdictOnNothing(w) ==
    LET j     == [job[w] EXCEPT !.item = NoItem]
        state == [j.state EXCEPT !.committed = @ \cup {j.item}]
    IN  /\ pc[w] = "verdict"
        /\ ledger' = state
        /\ Set(w, [j EXCEPT !.state = state, !.todo = @ \ {job[w].item}])
        /\ Goto(w, "advance")
        /\ UNCHANGED <<setup, outside, stored, lock, faults, busFailed, seen>>

(* committed_for, and persist_source after each item: the whole ledger is   *)
(* written from the job's copy.                                            *)
Verdict(w) ==
    LET j         == job[w]
        i         == j.item
        committed == ~commitOn \/ j.ok
        state     == IF committed THEN [j.state EXCEPT !.committed = @ \cup {i}] ELSE j.state
    IN  /\ pc[w] = "verdict"
        /\ ledger' = state
        /\ Enter(j.cut \cup (IF committed THEN {i} ELSE {}))
        /\ Set(w, [j EXCEPT !.state = state, !.todo = @ \ {i}, !.all = @ /\ committed,
                            !.advance = IF committed THEN Stamp[i] ELSE @,
                            !.item = NoItem, !.fresh = FALSE, !.ok = FALSE])
        /\ Goto(w, IF j.todo = {i} THEN "advance" ELSE "run")
        /\ UNCHANGED <<setup, outside, stored, lock, faults, busFailed, blind, spent>>

(* Mutant: the cursor advances past failed items.                           *)
AdvanceAnyway(j) ==
    [j.state EXCEPT !.initialized = TRUE, !.cursor = j.page,
                    !.committed = IF kind = "incremental" THEN {} ELSE @]

(* advance_source. *)
AdvanceSource(j) ==
    LET state == [j.state EXCEPT !.initialized = TRUE]
    IN  IF ~j.all THEN state
        ELSE [state EXCEPT !.cursor = j.page,
                           !.committed = IF kind = "incremental" THEN {}
                                         ELSE IF CursorChanged(j) THEN @ \cap j.ups ELSE @]

(* advance_table. *)
AdvanceTable(j) ==
    IF ~j.all \/ j.advance = None THEN j.state
    ELSE [j.state EXCEPT !.cursor = j.advance,
                         !.committed = {i \in @ : Stamp[i] = j.advance}]

Advance(w) ==
    /\ pc[w] = "advance"
    /\ ledger' = IF kind = "table" THEN AdvanceTable(job[w]) ELSE AdvanceSource(job[w])
    /\ Enter(job[w].cut)
    /\ Return(w)
    /\ UNCHANGED <<setup, outside, stored, lock, faults, busFailed, blind, spent>>

-----------------------------------------------------------------------------
(* Faults. *)

(* Any call to the provider or the store fails: the error is returned, and  *)
(* the lock released.                                                      *)
Fail(w) ==
    /\ pc[w] \notin {"idle", "load", "release"}
    /\ Fault(1)
    /\ Return(w)
    /\ UNCHANGED <<setup, outside, ledger, stored, lock, busFailed, seen>>

(* The pod dies; its lock stays behind. *)
Crash(w) ==
    /\ pc[w] # "idle"
    /\ Fault(1)
    /\ Set(w, NoJob)
    /\ Goto(w, "idle")
    /\ UNCHANGED <<setup, outside, ledger, stored, lock, busFailed, seen>>

-----------------------------------------------------------------------------
Step(w) ==
    \/ Load(w) \/ Drain(w) \/ DeleteNamed(w) \/ ListForReconcile(w) \/ Reconcile(w)
    \/ Partition(w) \/ Anchor(w) \/ PollRows(w) \/ Write(w) \/ StartRow(w)
    \/ Effect(w) \/ Verdict(w) \/ Advance(w) \/ Release(w)

Next ==
    \/ \E i \in Items : Arrive(i) \/ Vanish(i) \/ Touch(i) \/ Age(i)
    \/ \E w \in Workers :
          \/ Step(w)
          \/ Acquire(w) \/ AcquireFails(w) \/ RefreshFails(w)
          \/ NotToday(w) \/ Fail(w) \/ Crash(w)
    \/ Expire

Spec == Init /\ [][Next]_vars

(* What the code's scheduling gives: a job that was begun goes on, the      *)
(* scheduler keeps enqueueing jobs and some worker takes them, and a lock   *)
(* nobody refreshes expires.  Nothing is assumed of the outside.            *)
FairSpec ==
    /\ Spec
    /\ \A w \in Workers : WF_vars(Step(w)) /\ SF_vars(Acquire(w))
    /\ WF_vars(Expire)

-----------------------------------------------------------------------------
(* Properties. *)

(* What the cursor of a provider may be: some items with their flags. *)
Maps(S) == UNION {[T -> {0, 1}] : T \in SUBSET S}

States(k) ==
    [cursor : {None} \cup (IF k = "table" THEN {Stamp[i] : i \in Items} ELSE Maps(Items)),
     committed : SUBSET Items, initialized : BOOLEAN]

(* Every variable has its type, and a job holds an item exactly while it    *)
(* runs it.                                                                *)
TypeOK ==
    /\ kind \in Kinds /\ commitOn \in CommitOns /\ window \in Windows
    /\ source \subseteq Items /\ gone \subseteq Items /\ old \subseteq Items
    /\ flags \in [Items -> {0, 1}]
    /\ stored \subseteq Items /\ blind \subseteq Items /\ done \subseteq Items
    /\ touched \subseteq done
    /\ ledger \in States(kind)
    /\ lock \in Workers \cup {Orphan, None}
    /\ busFailed \in BOOLEAN /\ faults \in 0..MaxFaults /\ spent \in [Items -> 0..2]
    /\ DOMAIN job = Workers /\ DOMAIN pc = Workers
    /\ \A w \in Workers :
          /\ job[w].state \in States(kind)
          /\ job[w].item \in IF pc[w] \in {"effect", "verdict"} THEN Items ELSE Items \cup {NoItem}

(* Two jobs collect one connection at a time only after the lock service    *)
(* has failed one of them (collect_gate, the refresher and release).        *)
OneCollector ==
    busFailed \/ \A v, w \in Workers : pc[v] # "idle" /\ pc[w] # "idle" => v = w

(* The items a poll that reads the state s of the ledger passes over. *)
PassedBy(s) ==
    s.committed \cup (IF s.cursor = None THEN {}
                      ELSE IF kind = "table" THEN {i \in Items : Stamp[i] < s.cursor}
                      ELSE DOMAIN s.cursor)

PassedOver == PassedBy(ledger)

(* An item the ledger passes over was committed, or was older than the      *)
(* cutoff, and its row was not deleted since: neither crashes nor failing   *)
(* runs, caps, pages or deletions make the ledger lose an item that is at   *)
(* the source.  A job that is not alone may delete the rows of a newer      *)
(* snapshot, so a snapshot needs the lock (advance_source, advance_table).  *)
NothingLost ==
    (kind = "snapshot" => ~busFailed) => PassedOver \cap source \cap Matching \subseteq done

Running(w, i) == pc[w] \in {"effect", "verdict"} /\ job[w].item = i

(* The items that no poll should take up again: those that were entered in  *)
(* the ledger and, of an incremental source, have not changed their flags   *)
(* since the poll that entered them read the source.                        *)
Settled == IF kind = "incremental" THEN done \ touched ELSE done

(* An item that was committed or cut off, and that is still at the          *)
(* source, is not run again unless its flags change; and a change leads to  *)
(* one more entry at most.  This is what advance_source makes of the        *)
(* ledger and the cursor: the one is cleared when the other takes over.     *)
CommittedNotRerun ==
    [][\A w \in Workers, i \in Settled \cap source :
          ~busFailed /\ Running(w, i)' => Running(w, i)]_vars

(* The promise of collect.rs without that exception: "a committed item's    *)
(* LlmAgent/WriteEmail never re-runs".                                      *)
CommittedNeverReruns ==
    [][\A w \in Workers, i \in done \cap source :
          ~busFailed /\ Running(w, i)' => Running(w, i)]_vars

(* What costs is paid once for an item, however often its run is repeated,  *)
(* unless its write could not tell that it was stored: the redelivery gate  *)
(* closes the window between a run and its ledger entry.                    *)
PaidOnce ==
    kind # "table" /\ ~busFailed => \A i \in Items \ blind : spent[i] <= 1

(* The pages of one poll reach item i: it and the newer items that the      *)
(* cursor of the ledger does not account for are not too many.  Pages start *)
(* with the newest items, and a poll that stops with pages left, at         *)
(* MAX_SYNC_PAGES, leaves the cursor where it is.                           *)
Reached(i) ==
    kind = "incremental" =>
       LET told == IF ledger.cursor = None THEN NothingTold ELSE ledger.cursor
       IN  Cardinality({j \in Changed(told) : j >= i}) <= MaxPages * PageSize

(* An item that stays at the source, and within the pages of a poll, is in  *)
(* the end committed or cut off, as long as faults and changes of flags     *)
(* end: skipped jobs, the caps on how many items a poll runs and pinned     *)
(* cursors are made up for by later polls.                                  *)
EveryItemCollected ==
    \A i \in Matching :
       i \in source /\ Reached(i) ~> i \in done \/ i \notin source \/ ~Reached(i)
=============================================================================

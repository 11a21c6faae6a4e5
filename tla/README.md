# catalerum: TLA+ models, checks and proofs

catalerum is a self-hosted personal-assistant backend: a Rust workspace of about
thirty crates around one Postgres database, with Valkey for coordination between
pods, derived stores for vectors and graphs, and providers for mail, calendars,
models and files.  What makes it a *system* is its durable automation: clocks and
events enqueue jobs, workers on several pods drain them, and an executor drives
user-authored automations step by step through crashes, retries and redeliveries
(`SOUL.md` 3.5: "A crash mid-run resumes; it never silently drops or
double-fires").  That pipeline is the core of this project.  Around it are three
more places where several pods must agree through locks that expire: the collection
of mail, calendars and tables, the chat turns of a conversation, and the listeners of
messaging channels.

The repository has about 234 000 lines.  Most of them are user interface, protocol
clients, tool implementations and CRUD routes, whose correctness is not a question of
interleaving or failure; the modules here follow the few thousand lines that carry the
coordination.

## Inventory

| Component | Code (under `crates/`) | State | Operations |
|---|---|---|---|
| Durable job queue | `catalerum-store/src/repo.rs` `JobQueueRepo` | `job_queue` rows: status, attempts, run_after, locked_at | enqueue, dequeue_one, complete, fail, reclaim_stale |
| Sync worker | `catalerum-ingest/src/worker.rs` | the job it holds; service contexts | poll_once, process, dispatch, reconcile_once |
| Run journal | `repo.rs` `AutomationRunRepo` | `automation_runs`, `automation_steps` | start_run, find_active_run_by_job, add_step, finish_step, finish_run |
| Automation executor | `catalerum-automation/src/executor.rs`, `catalerum-ingest/src/automation.rs` | loop variables of a drive: position, branches, redelivery latch | resume or open, gates, linear loop, graph walk, ForEach, finish |
| Schedule worker | `catalerum-ingest/src/schedule.rs`, `catalerum-automation/src/schedule.rs` | last_tick of each pod; claims in the lock service | scan cron, reminders, graph polls, collect polls |
| Bus | `catalerum-bus/src` | locks with TTL and token, registry, streams | acquire, release, refresh, announce, append, read, reset |
| Graph algorithms | `catalerum-automation/src/graph.rs` | none | validate, topo_order, for_each_regions |
| Collect jobs | `catalerum-ingest/src/collect.rs`, `collect_sql.rs`, `worker.rs` | per-source ledger and cursor in `connections.sync_token`; the source mutex | gate, drain, delete, reconcile, partition, run item, commit, advance |
| Chat turns | `catalerum-api/src/routes/ws.rs`, `active_turns.rs`, `catalerum-bus/src/turnbuf.rs` | turn lock, active-turn key, table of each pod, turn buffer | start, join, stream, stop, attach, regenerate |
| Channel listener | `catalerum-api/src/channel_listener.rs` | leader lease, message claims | contend, subscribe, drain, renew, claim, dispatch, release |
| Capabilities and grants | `catalerum-core/src/capability.rs`, `catalerum-iam` | grants | allows, attenuate |
| Others | providers, derived stores, Datalog, Markdown, web, MCP, operator, backup | | see `PROJECT.json`, "components" |

How they interact.  The scheduler and the API insert jobs; a worker claims one,
calls its handler and reports.  The handler of `run_automation` drives the executor,
which reads and writes the run journal between calls to actions; an action may
write mail or events, enqueue more jobs, or call out.  The scheduler's pods share
nothing but the lock service and the jobs they insert.  The queue knows nothing of
runs and the journal nothing of leases: whether the two agree after a crash depends
on the order of statements in two tables, and that is where the hard cases are.

What is hard to test here, with its lines, is the list "hazards" of `PROJECT.json`:
workers that outlive their lease, statements that are applied while their reply is
lost, crashes between an effect and its record, resumed runs that must rebuild
branch decisions from the journal, claims that expire, clocks that disagree, scans
that fail half-way, a ledger that is rewritten whole from a copy, a mutex that fails
open, a buffer that is reset under its readers, two leaders of one channel.

What makes the parts correct:

* queue: one executor per row, settled rows stay settled, attempts bound the
  claims, every job settles;
* executor: a finished step is never executed again, a resume duplicates at most one
  action, order and routing are those the journal shows, a run acts under the
  authority it recorded, a recorded success is complete;
* scheduler: no occurrence is enqueued twice, and none is passed over;
* collect: one job per connection, no item lost to a cursor that moved too far, none
  run again once committed unless it changed, and each one collected in the end;
* chat: one turn of a conversation at a time, one answer per message, complete
  replays, no end of a turn told while it streams, and no forwarder that waits for a
  turn that has ended;
* channels: a message is dispatched once, is not skipped for a claim that is not its
  own, and a channel does not stay without leader.

## Modules

| Module | What it is |
|---|---|
| `JobQueue` | the rows, the statements of `JobQueueRepo` and the loop of `SyncWorker` |
| `JobPromise` | the abstract specification of one job, as its handler sees it |
| `JobQueueRefines` | one row of `JobQueue` seen through `JobPromise` |
| `AutomationRun` | driving one `run_automation` job over `JobPromise`: the journal, opening and resuming, the gates, a step's bookkeeping, reporting |
| `LinearExecutor` | the action-list loop on top of `AutomationRun` |
| `AutomationGraph` | the algorithms of `graph.rs`: `validate`, `topo_order`, `for_each_regions`, and the ordinals of steps |
| `GraphExecutor` | the graph walk with conditions and ForEach loops on top of `AutomationRun` and `AutomationGraph` |
| `Scheduler` | the clock loop of every pod and the single-fire claim |
| `Collect` | collect jobs over an incremental, a snapshot or a table source, the ledger and the source mutex |
| `ChatTurn` | the turns of one conversation: lock, advertisement, tables, buffer, forwarders |
| `ChannelListener` | the listeners of one channel: lease, subscription, claims, dispatch |
| `*_proofs` | theorems about the module of that name; `AutomationRun_proofs` holds the lemmas that the proofs of both executors share |
| `MC*` | small instances for TLC |

### JobQueue and the worker

`status`, `attempts`, `due` and `age` are the columns of `job_queue`, the two times
relative to now.  `Enqueue`, `ClaimRow`, `CompleteRow`, `FailRow` and
`ReclaimStale` are the SQL statements, with their WHERE clauses: completing and
failing look at neither status nor lease, as in the code.  `Dequeue`, `HandlerOk`,
`HandlerErr`, `Complete`, `Fail`, `OutcomeLost`, `Reconcile` and `Restart` are
the steps of `poll_once`, `process`, `dispatch`, `reconcile_once` and `run`;
`DequeueReplyLost` and `Crash` are what can happen to them.  `dispatch` is reduced
to whether it returns Ok or Err, and `Capable` says which workers have the service
context a job kind needs.  Rows with the same `run_after` are claimed in any order
(the code orders them by creation).

The reconciler's documentation asks for a timeout that "must exceed the longest expected
job runtime" (`repo.rs` 5540).  The observation `late` tells whether a live worker was
still inside `process` when its lease expired; `OneExecutor`, `TerminalIsFinal` and
`KeepsPromise` hold as long as none was, the others always.  Late workers are part of the
one instance that is checked.  The code takes the cutoff from the worker's clock
(`repo.rs` 5548) and compares it with times of the database; here the two clocks agree, so
a skew between them has to be added to the timeout.

### JobPromise

What a handler may rely on: a job is claimed at most `MaxAttempts` times, by one
executor at a time, retried until somebody reports success, and then left alone.
`JobQueueRefines` maps a row to it (`KeepsPromise`); TLC checks it on the small
instance and `QueueKeepsPromise` proves it for every instance.  `AutomationRun` is built
on `JobPromise` alone, so what is checked there holds for every row of a queue none of
whose workers is late (`PromptQueueKeepsPromise`).

### AutomationRun, LinearExecutor, GraphExecutor

One job is driven up to `MaxAttempts` times.  `pc` is the statement the drive is at;
each store statement is a step that may fail, and each write may be applied while the
drive sees an error (the `"err"` successors).  `Vanish` is the death of the worker
or the loss of its report at any statement.  An administrator may pause the
automation, re-point its grant and delete grants at any moment (`Administer`: the routes
and the statements they issue).  Deleting a grant takes it away from the automation, by a
foreign key with ON DELETE SET NULL (`migrations/0016_grants.sql`), and not from the runs
that recorded it.

Slots are the step ordinals.  Action kinds are told apart as
`ActionKind::is_idempotent`, `newly_written` and `rerun_on_redelivery` tell them apart:
`write` (stores the item, says whether it found it stored), `pure` (idempotent
otherwise), `effect` (gated on redelivery), `rerun` (opted back in).  A write that
fails may have stored its item, and a write whose probe fails says "new", as
`run_write_email` does.  `ActionOutcome::skipped` is returned by no runner and is left
out, and only writes report `newly_written`.  One item is followed: the one the event
carries.  The action list, the graph and the length of a loop's source are the same in
every drive of a job; an administrator who edits the automation between two drives is
not modelled.  `fired`, `under` and `drives` are observations for the properties.

`CheckGrant` has the outcomes of the head of `execute_for_job`: a spec that does not
parse, a grant that is gone, a transient error, a time window or a constraint that
refuses; each records a failed run and returns Ok.

The graph is a constant that `Valid` accepts, as it is when `validate` has passed at the
gates; its order, its loop regions and the nodes the outer walk passes over are
computed by `AutomationGraph`.
`Walk` is the order in which a drive comes to the slots; a loop is entered and closed
at its head and its body passed once per element; a source that is missing or null is
an empty array, and one that is no array or beyond the cap fails the loop (`Iterable`).
`Restore`, `RestoreSkippedLoop` and `OpenStep` are what a resumed drive does with the
rows it finds.

`WalkShape` says what such a walk looks like: its stops are distinct (`StopsApart`);
between the head and the close of a loop are the iterations of that loop, all of them and
nothing else (`LoopsWhole`); and a slot comes after the slots that have an edge into it
(`SourcesFirst`).  It follows from `Valid`, but along folds over sequences that the
provers cannot do by induction, so the module assumes it (`WalkAssumption`): TLC evaluates
it for the graph of the run, and evaluates its two ingredients, the order of `TopoOrder`
and the isolation of regions, over the families of small graphs described next.

### AutomationGraph

`TopoOrder` is Kahn's algorithm with the queue, the in-degrees and the order of the
document, so that ties come out as in the code; `RegionBody` is the intersection of the
forward and the backward search of `for_each_regions`, `Isolated` its four edge checks,
`Valid` the checks of `validate` in their order.  `MCGraphExecutor` compares them with
reference definitions, as ASSUMEs that TLC evaluates at the start of `graph_crash`:
over all 4 096 edge sets between four nodes, `TopoOrder` emits every node after its
predecessors, or the graph has a cycle, defined as a set of nodes each with a
predecessor in the set (`TopoOrderChecked`); over all graphs that differ in up to three
edges from a graph with one or with two loops, the accepted regions do not meet, and
running a whole loop at the position of its head brings every node after the nodes it
depends on (`RegionsAreRight`).  Names of loop variables, paths and authoring warnings
are left out.

### Scheduler

Every pod sleeps `SleepTime`, takes `now`, and runs its four scans over the window
since `last_tick`.  `FirstDue`, `DueEvents` and `DueBucket` are the three windows:
open on the left, closed on the left, and integer buckets.  Each due occurrence is
claimed (`Claim`, left to expire after `FireTTL`), then enqueued.  The lock service
has its own clock; pods are ahead of it by up to `MaxSkew`.  `Faults` chooses
what may go wrong: a crash, a failing read (which gives up the scan of that kind), a
lock error (which may have taken the lock), a failing enqueue (which may have
inserted the row); `failed` observes that something did.  Reminders with several events at one instant have a claim each in
the code and are one occurrence here.  A cron expression is the set of its instants.
Automations do not change while the model runs.

`Generous` states the condition the code's comment on `FIRE_LOCK_TTL` appeals to:
the TTL covers the longest time from the start of a scan to the end of the next, plus
the skew (`MaxPeriod + MaxSkew <= FireTTL`; the code has 300 s for a tick of 60 s).

### Collect

One source of one connection, in one of the three forms the code knows.  `job[w]` holds
the local variables of the collect of worker `w`, `pc[w]` the statement it is at:
`Acquire` (`collect_gate`, which skips the job when the mutex is taken and goes ahead
without it when the bus fails), `Load` of the ledger, `Drain` of pages up to
`MAX_SYNC_PAGES`, `DeleteNamed`, `ListForReconcile` and `Reconcile` of a changed
snapshot, `Partition` by filter, ledger, cutoff and caps, per item `Write`, `Effect` and
`Verdict` (the run of the automation, cut down to what the ledger and the redelivery
gate see of it), and `Advance`, which rewrites the ledger whole.  A table has `Anchor`,
`PollRows` and `StartRow` instead.  `Arrive`, `Vanish` and `Age` are the outside.
`Fail` and `Crash` may end a job at any statement, a refresh may fail
(`RefreshFails`), and a lock nobody refreshes runs out (`Expire`).  One bus fault is
enough to lose the lock; `BusFault` weighs it against the other faults.  All jobs are of
one automation.  `done` is an observation: the items that were entered in the ledger as
committed or as cut off and whose row was not deleted since; an item that a job cut off
(`cut`) counts from the next time the job writes the ledger.

Of an item nothing changes but its flags (`Touch`).  The cursor of an incremental source
is a map from uids to flag signatures, as in `imap.rs`, and `Delta` is `compute_delta`:
new and changed uids are named, the newest `PageSize` of them are fetched, and in the next
cursor a deferred uid is as it was in the prior one.  So a changed message is named
again after `advance_source` has cleared the ledger, and `run_item` takes it for a new
one: what never happens is that a message is run again whose flags are those that the poll
which entered it had seen (`CommittedNotRerun`; `touched` observes the others).  That a committed item
never re-runs, as the header of `collect.rs` says, is `CommittedNeverReruns`, which does not
hold, see below.  `FlagChange` weighs a change against the faults, to bound the changes.
A change of UIDVALIDITY (`imap.rs` 241) is left out: the uids of the new generation are
new items.

`Reached(i)` says that the pages of one poll get as far as item `i`.  A poll that stops at
`MAX_SYNC_PAGES` with pages left does not advance the cursor, and the next one starts with
the newest pages again, so items further back than that are not collected until newer ones
vanish; `EveryItemCollected` speaks of the items that are reached.

`Anchor` reads the largest cursor value and then, with `boundary_rows`, the rows that have
it, at most `ROW_POLL_CAP` of them; the two queries are one step, because a row inserted
between them is either in the second result or newer than the anchor.

### ChatTurn

A run is one spawned turn task; `Key` gives its turn.  `Spawn` and `Join` are
`start_and_forward`; `Acquire` to `Release` the life of the task with the lock, the
advertisement and the entry in the pod's table; the drop of `TurnCoordination` leaves a
`cleanup` that happens later, in two steps, as the spawned task of the code does.
`log` keeps all frames ever appended to a buffer and `base` what the last `reset`
dropped: a cursor is a position in the whole log, as the stream ids of the bus are.
Forwarders read from their cursor, and end on a terminal frame or, after a last read, with
a synthetic one.  They ask `turn_is_live` when a read comes back empty; but the `select!` of
`forward_turn` begins a new read of 20 s at every pass, and its heartbeat of 10 s makes it
pass, so that happens only when a read fails (which it may at any time, `ReadEmpty`) and in
the last read of 2 s.  Lock and advertisement are taken in one step (`Acquire`), the latter
with or without success: between the two the run has done nothing yet that others see.
The buffer keeps everything: its MAXLEN and TTL are left out, and what is said of replays
holds within that retention.
`Stop` reaches
the runs of its own pod directly and others through `control_listener`.  `Crash` of a
pod takes its runs and its table.  `MayStart` says what the client does: it offers to
regenerate an answer once it has ended.  Without that (`Overlap`) the replay properties
fail, see below; `OneTurnAtATime` and `AnsweredOnce` are proved either way.
`EndsOnNewAnswer` asks that a forwarder of a regenerate that has ended is past a terminal
frame of the run it asked for.

### ChannelListener

Messages are numbered in the order of their arrival, and a subscription yields what
arrived after its priming poll.  `Contend`, `Prime`, `Poll`, `Deposed`, `Release` are
the loop of `listen_channel`, where a request for the lease may fail and yet have taken
it; `Proceed` and `Skip` the outcomes of `claim_dispatch`;
`DispatchToProfiles` and `DispatchTrigger` the two halves of `dispatch_inbound`.  A
leader may stall past its lease without knowing (`Stall`), and goes on.  A claim runs
out only when no open stream can yield its message again, which is what the ten
minutes of `DISPATCH_CLAIM_TTL` are for ("generously over the fencing window").  Polls
are taken as unlimited: Telegram's first poll discards at most 100 updates
(`telegram.rs` 37) and yields the rest of the backlog later, as if it had arrived then,
and of a poll of Matrix only the newest 50 events come (`matrix.rs` 47).

## Runs

| Run | Checks | States |
|---|---|---|
| `job_queue_crash` | `OneExecutor`, `TerminalIsFinal`, `KeepsPromise`, `AttemptsAccounted`, `DoneMeansHandled`, `EveryJobSettles`, `TypeOK` | 438 139 |
| `linear_crash` | `FinishedStepsStand`, `OneDuplicatePerResume`, `InOrder`, `RecordedAuthority`, `SuccessIsComplete`, `JobSettles`, `TypeOK` | 64 788 |
| `graph_crash` | `RoutingMatchesJournal`, `LatchSurvivesResume`, `LoopIsComplete`, `FinishedStepsStand`, `OneDuplicatePerResume`, `SuccessIsComplete`, `TypeOK`; the graph algorithms on small graphs | 132 184 |
| `scheduler_fires` | `SingleFire`, `EveryOccurrenceFires`, `TypeOK` | 1 599 625 |
| `collect_faults` | `OneCollector`, `NothingLost`, `PaidOnce`, `CommittedNotRerun`, `TypeOK`: two workers, two faults | 2 878 326 |
| `collect_live` | `EveryItemCollected` for the three kinds of source, with a filter, a window and caps | 471 542 |
| `chat_turns` | `OneTurnAtATime`, `AnsweredOnce`, `CompleteReplay`, `EndsOnNewAnswer`, `NoFalseEnd`, `ForwardersEnd`, `TypeOK` | 392 084 |
| `channel_once` | `DispatchedOnce`, `YieldedIsDispatched`, `AlwaysLedAgain` | 960 253 |

Bounds.  Two jobs and two workers are enough for two executors of one row, for a
reclaim between them and for the order of claims; three attempts give an attempt
before, during and after a reclaim.  The timeout of 2 leaves room before, at and after
expiry.
`MaxLag` caps how far in the past `run_after` is told apart, which only orders
claims.  Two drives per job let every statement of the executor be the place of a
crash and every other one the place where the resume finds it.  The graph (drawn in
`MCGraphExecutor`) has a write, a branch with a join, a loop of two iterations on one
branch, and behind a second condition a loop beyond the cap; its nodes are written down
in another order than that of the walk.  Its grants do not change, which `linear_crash`
covers.  The scheduler runs two pods, one ahead, for three to four windows; its run ends
at `Horizon`, which is why it does not check deadlock.

`collect_faults` has two workers and two items that come, go and age, pages of one item,
and two faults, so that a job may fail or crash between any two statements and its
successor too, or flags may change before or after that or twice, or the bus may fail once;
workers are interchangeable there (`Alike`).
`collect_live` has three items, one of which the filter drops, a first cap of one, pages of
one item and two pages to a poll, so that a poll may stop with a page left, and a fault or
change of flags; one worker is enough, since a second adds nothing but the waiting for the
mutex.  `collect_flags` has one worker, two items and one change of flags.
`chat_turns` starts in one of four scenes, each a pair of runs and at most one
forwarder followed in detail: a message and the regenerate of its answer seen by the
socket that asked or by one that attached, a message and its retry on another pod, and
two messages of one conversation.  One fault suffices to lose a lock, a frame, a pod or
an append; `chat_hangs` follows one message and its socket.  `channel_once` has two pods, two chats in which the same message id occurs,
a message without id, and three faults: a stall, then a crash or failure of either
leader.  Chats and channels end when every message was handled, so deadlock is not
checked there.

Runs that TLC must find violated record where a document and the code disagree
("findings" in `PROJECT.json`):

| Run | What happens |
|---|---|
| `linear_refire` | a crash between `finish_run` and `complete` starts a second run of a succeeded job |
| `chat_hangs` | the terminal frame of a run is lost (the pod dies, or the append fails), and the forwarder sends heartbeats for as long as its client stays |
| `collect_flags` | a committed message is run again when its flags change: it is named anew, and the ledger was cleared |
| `collect_backlog` | with more rows than `ROW_POLL_CAP` at the cursor of a table, every poll gets the same committed rows, and the rest is never collected |

Seen while modelling, and not stated as a property:

* Queue: a `fail` that arrives after the lease was reclaimed re-opens a row another
  worker has completed (`TerminalIsFinal` without its condition); a worker that lacks the context of a job kind
  spends the attempts of jobs its peers could run (`worker.rs` 171).
* Executors: a job that is settled by exhaustion, or because its automation is paused,
  leaves the run it had begun recorded as `running`; a transient error of the grant
  lookup is recorded as a failure and not retried (`executor.rs` 325); the linear
  executor does not restore its redelivery latch on a resume (`executor.rs` 450); a
  crash between the first write and its record makes the resumed run find the item
  stored, so that it skips the actions after it (`executor.rs` 483); a write in a loop
  body does not latch the nodes after it; the header of `ingest/automation.rs` (12-19)
  still says that a re-driven job "starts a *fresh* run", while a run that is recorded as
  running is resumed; deleting its grant leaves an automation without one, and a run opened
  afterwards is not bound by it (`migrations/0016_grants.sql`).
* Scheduler: of two occurrences of one trigger in one window only the first fires; the
  window of a failed scan is not scanned again, because `last_tick` advances
  (`schedule.rs` 797).
* Collect: a mailbox with more changes than `MAX_SYNC_PAGES` pages hold is not drained,
  because `drained_fully` is false, the cursor stays where it is and every poll fetches the
  newest pages again (`collect.rs` 436, 1206; `lib.rs` 159), while the comment on
  `BODY_FETCH_CAP` (`imap.rs` 55) says "converging without ever advancing the cursor past an
  un-fetched body"; a message that the cutoff dropped is run in full when its flags change
  later, against "it can't re-enter and flood the history" (`collect.rs` 411), and one that
  was stored is written again while the redelivery gate skips the rest; `advance_table` prunes the ledger at the cursor, so a row that was committed
  past it runs again (`collect_sql.rs` 26); an item that vanishes and comes back while
  the cursor of a snapshot is pinned is passed over as committed (`Returns`); an item that
  the cutoff dropped is run after all when the job dies before its ledger is written and
  newer items push it out of the pages of the poll that first writes it: later polls have
  no cutoff (`collect.rs` 386); rows
  removed upstream while the cursor is pinned are not deleted; a job that goes ahead
  without the mutex may reconcile with an old snapshot and delete newer rows; two
  automations on one connection share a ledger.
* Chat: a regenerate that overlaps a live run of its turn gets frames of both and ends
  on the older terminal frame, which `reset` says it "can never" (`turnbuf.rs` 70-74), and
  the older run's guard removes its registration; the server does not prevent it
  (`ws.rs` 671), two tabs may ask for it, so `~Overlap` is an assumption on the clients; a
  stop from another pod is lost while the run still waits for the lock; `turn_is_live`
  looks at one arbitrary registered turn of the pod.
* Channels: a poll that fails ends the stream, and the next subscription discards what
  arrived in between (`matrix.rs` means to "keep the stream alive"); a deposed leader
  drops what it had received; a crash between claim and dispatch loses the message.

Fairness.  `FairSpec` of the queue: time passes; a worker that is idle polls and
reconciles again (the loop of `run` never exits); a handler returns; a report is
written or fails; a dead worker is restarted by its supervisor.  Nothing is assumed of
what handlers return, and crashes and lost replies may always happen.  The executor's
liveness assumes the same of the drive: it goes on as long as it is alive, and the
reconciler takes back the job of one that is not.  Collect: a job that was begun goes
on (`WF` of its steps), the clock loop keeps enqueueing jobs and some worker takes them
whenever the mutex is free again and again (`SF` of `Acquire`: pollers may always come
at a moment at which it is taken), and a TTL runs out.  Chat: spawned tasks run on, a
forwarder sends the frames there are, gets its answer from `turn_is_live` and comes back
from its last read; nothing makes any other read return empty, as the heartbeat cancels it.
Channels: the listeners run on.  TTLs run out; clients and arriving messages owe nothing.
Safety needs no fairness.

## Theorems

TLC checks the instances above; the following are proved for every value of the
constants.

* `Accounting` (`JobQueue_proofs`): `TypeOK`, `AttemptsAccounted` and
  `DoneMeansHandled` are invariants of the queue, whether or not workers are late.
  `AttemptsAccounted` is not inductive alone: `fail` and `complete` act on whatever row
  a worker holds, so `AccountInv` adds that a worker in `process` holds a real row and
  that one about to complete has seen Ok (`HoldsAJob`), and that a row not yet
  enqueued was never claimed (`FreshRows`).
* `ExclusiveLease`, `SettledStaysSettled`: `OneExecutor` is an invariant and
  `TerminalIsFinal` holds.  The strengthening `LeaseInv` is that, until a live worker is
  late, the lease of a held row has not expired: then the reconciler leaves the row alone,
  and nobody else can claim a running row.
* `QueueKeepsPromise`: as long as no worker is late, each step of the workers, the
  reconciler and time is a step of `JobPromise` or leaves the row as it is
  (`PromiseStep`), from the same two invariants; `PromptQueueKeepsPromise`: if none ever
  is, every row implements `JobPromise`.
* `SchedulerSingleFires` (`Scheduler_proofs`): under `Generous`, no occurrence is
  enqueued twice, for any pods, triggers, skews and faults.  The argument: an
  occurrence is claimed no earlier than it is due on some pod's clock, so its lock
  outlives `At(f) + FireTTL - MaxSkew` (`LocksOutlive`); a live pod's window reaches
  back at most `MaxPeriod` (`WindowsAreShort`), so whoever still has the occurrence in
  its window finds the lock held; and between claim and enqueue the claim is one pod's
  alone (`ClaimsAreUnique`).  `FireInv` is the conjunction of these.
* `SchedulerCovers`: under `Generous` and `Sparse`, and until something fails (`failed`),
  every cron or reminder occurrence that the window of a pod has passed was enqueued or is
  about to be.  `Sparse` says that the instants of a cron are at least `MaxPeriod` apart
  and that a reminder has one trigger; a window that holds two instants of a cron fires
  only the first, as noted above.  `CoverInv`: a lock that was taken belongs to a covered
  occurrence (`LockedIsCovered`), an occurrence behind `last_tick` is covered
  (`PassedIsCovered`), and one inside the window of a pod that scans is covered or still on
  its list (`WindowIsTreated`).  That `FirstDue` finds the only
  instant of the window uses a least index, from the well-foundedness of the naturals.

* Executors, shared part (`AutomationRun_proofs`).  `RunInv` has three parts: `RunTyped`
  (the drive's variables have values where it needs them, and the promise counts its
  drives), `RunRecorded` (the driven run is recorded as running under the grant it was
  opened with, run numbers beyond the claims are free, a run that succeeded is complete)
  and `RunRepeats`: as long as a slot that an earlier drive executed is not recorded, the
  present drive, about to execute something, has a repetition to its credit.  It uses that
  credit on at most one slot, because it goes on only once that slot is recorded.  `Work(s)`
  is what a step of an executor's loop may do: write the row of one slot `s`, execute it
  only while its row is not finished, leave finished rows alone.  `RunInvShared` and
  `RunInvWork` show that the common steps and every `Work` step keep `RunInv`.
* `LinearTypes`, `LinearKeepsOrder`, `LinearSuccessIsComplete`,
  `LinearRecordedAuthority`, `LinearOneDuplicate`, `LinearStepsStand`
  (`LinearExecutor_proofs`): `TypeOK`, `InOrder`, `SuccessIsComplete`,
  `RecordedAuthority`, `OneDuplicatePerResume` and `FinishedStepsStand` of the linear
  executor, for any action list, grants, attempts and crashes.  `LinearInv` adds to
  `RunInv` that where the loop is, all earlier steps of the run are finished and the
  present one is not: what keeps a resume from executing a finished step.
* `GraphTypes`, `GraphRouting`, `GraphLoopIsComplete`, `GraphSuccessIsComplete`,
  `GraphRecordedAuthority`, `GraphOneDuplicate`, `GraphStepsStand`, `GraphLatchSurvives`
  (`GraphExecutor_proofs`): the properties of the graph executor, for every graph whose
  walk has the shape above, any lengths of its loops, any attempts and crashes.
  `RoutingMatchesJournal` is not inductive: it says nothing of the maps `succeeded` and
  `branch` from which a drive decides.  `GraphInv` adds to `RunInv` that these maps and the
  redelivery latch agree with the journal up to the stop the drive is at, and that all
  stops before it are settled (`WalkState`); and, of every run, driven or not, that its
  rows could have been written by such a walk: a row exists only where the walk has come
  to, every stop before it is settled, a skipped slot was rightly skipped, a loop that
  succeeded is complete (`Histories`).  A resumed drive starts with empty maps, and
  `Histories` is what lets it rebuild them.
* `OrdinalsDistinct` (`GraphExecutor_proofs`): the ordinals `run_for_each` computes
  are distinct within the caps and lie above those of the outer walk, so the journal's
  key tells apart what the slots of `GraphExecutor` tell apart.  It needs a graph of at
  most `OrdBase` nodes, which the comment on `REGION_ORD_BASE` appeals to and `validate`
  does not check; the guard against ordinals beyond 32 bits needs more than 8 000 loops
  and is left out.
* `CollectOneCollector` (`Collect_proofs`): as long as the lock service has failed
  nobody, no two jobs collect one connection.  `LockInv`: a job under way holds the
  mutex and refreshes it, so it does not expire and nobody else acquires it.
* `CollectTyped`: all ledgers, pages and cursors, in the store and in the jobs' copies,
  name items that are or were at the source, and a job is only at statements of its kind
  of source (`TypeInv`).
* `CollectNothingLost`: if vanished items do not come back (`~Returns`), the ledger passes
  over no item that is at the source, unless it was committed or cut off.  `LossInv` says
  the same of each job's own copy of the ledger, and of the cursor it is about to write
  (`SoundInv`), so that it does not matter whose copy overwrites whose; a snapshot also
  needs that the job's listing is the whole source (`WholeInv`), which is why the property
  needs the mutex there.
* `CollectPaidOnce`: what costs is paid once for an item.  `PaidInv`: an item that was paid
  for has its row, and a job that is about to pay for an item found no row.
* `CollectCommittedNotRerun`: of a mailbox or calendar (`~Returns`, no table), an item that
  was entered in the ledger and is still at the source is never run again, unless the
  source is incremental and its flags have changed.  `KnowsInv`: every such item is in
  the committed set or in the cursor with its present flags (`Current`), in the ledger and
  in each job's copy; an item that only the cursor keeps back is in the page the job has
  reached too, and was not told again (`Skipped`); and after a full drain the next cursor
  has the present flags of all that the ledger is about to forget, which is why it may
  (`JobKnows`).  Tables are excluded because `advance_table` forgets committed rows, see
  above.
* `ChatAnswersOnce`, `ChatOneTurn` (`ChatTurn_proofs`): a message is answered once
  however often its frame is retried, even when the bus fails, because the user message
  is stored, once, before the answer (`AnswerInv`); and at most one run works at a time,
  because a run that works or whose cleanup is under way holds the lock and the cleanup
  begins when the work has ended (`HoldsInv`).
* `ChatTyped`, `ChatCompleteReplay`, `ChatEndsOnNewAnswer`, `ChatNoFalseEnd`: the type
  invariant, and under `~Overlap` the three properties of the forwarders, for any number
  of runs, forwarders, pods and faults.  `ReplayInv`: a run that has appended its terminal
  frame appends no more (`Emitted`), a reset dropped only frames of silent runs
  (`Dropped`), and a forwarder has sent every kept frame up to its cursor (`Following`).
  `EndInv` adds that a regenerate does not run beside another run of its turn (`Apart`),
  that its socket follows that turn and goes down with its pod (`Bound`), and, while the
  bus works, that what lies before its cursor's next terminal frame is its own run's
  (`OwnFirst`).
  `LiveInv` adds to `ReplayInv` that a run that works is advertised (`Advertised`), and
  that a forwarder on its last read finds a frame if a run has begun to stream since it
  asked (`LastChance`).
* `ChannelDispatchesOnce` (`ChannelListener_proofs`): as long as the bus keeps its keys,
  a message with an id is dispatched at most once.  `ClaimInv` says that subscriptions
  are in order (`InOrder`), that a dispatching pod holds the claim of its message and is
  alone with it, and that a dispatched message stays claimed until no stream can yield
  it any more (`Claimed`).
* `ChannelYieldedIsDispatched`: a message that a subscription yielded is dispatched unless
  its pod failed or was deposed.  `YieldInv` adds that a claim belongs to a message that
  was dispatched, is excused, or is in the hands of the pod that claimed it (`Owned`).

Assumptions on the constants are the named ASSUMEs of the modules, which TLC evaluates
on the runs of each module; the strongest is `WalkAssumption`.  `Generous`, `Sparse`,
`~Overlap`, `~Returns` and the absence of tables are hypotheses of the theorems that need
them, and the runs that check the same properties satisfy them; that no worker was late,
that nothing failed a scheduler and that the bus has failed nobody are part of the
properties that need them (`late`, `failed`, `busFailed`).  The powers of two of the backoff are assumed to be naturals up to
`MaxAttempts`, because exponentiation has no theory in the prover.

Only model-checked: liveness (`EveryJobSettles`, `JobSettles`, `EveryItemCollected`,
`ForwardersEnd`, `AlwaysLedAgain`), because fairness is out of the prover's reach;
the correctness of `TopoOrder` and of the regions, and with it `WalkShape`, because they
are folds over sequences, whose induction the provers cannot do.

## Not modelled, and the plan

Next, in this order:

1. Proofs: `WalkShape` from `Valid`, by least counterexamples instead of induction.
2. The executors over the queue itself with late workers: two drives of one run.
3. The bus work queue (input said while a turn streams) and browser notifications:
   streams with consumer groups, pending entries and their reclaim.
4. Ownership of terminals and computer agents: heartbeats and forwarding between pods.
5. The Datalog fixpoint as an operator, against a reference definition.

Left out for good: the capability checks (stateless predicates on one request, with no
interleaving to get wrong; the executor's part, which grant a run acts under, is
`RecordedAuthority`), providers and clients (I/O), derived stores (rebuilt from
Postgres), the web workbench, Markdown, scripts and operational tooling, for the
reasons given in `PROJECT.json`.

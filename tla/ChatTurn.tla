------------------------------ MODULE ChatTurn -------------------------------
(***************************************************************************)
(* Chat turns of one conversation (catalerum-api, routes/ws.rs and          *)
(* active_turns.rs; catalerum-bus, turnbuf.rs).  A turn runs in a task of   *)
(* its own, detached from the socket that asked for it, and appends its     *)
(* frames to a replayable buffer; sockets on any pod forward the buffer.    *)
(* A lock of the bus serialises the turns of the conversation, a registry   *)
(* key advertises the one that streams, and each pod keeps a table of the   *)
(* turns it runs.                                                          *)
(*                                                                         *)
(* A run is one spawned task.  Runs of one turn share its user message and  *)
(* its buffer: the retry of a frame whose socket broke, and a regenerate.   *)
(* Left out: what the frames say, the retention limits of the buffer and    *)
(* the messages said while a turn streams.                                  *)
(***************************************************************************)
EXTENDS Integers, Sequences

CONSTANTS
    Pods,
    Turns,       \* user message ids
    Runs,
    Key,         \* Key[r]: the turn of run r
    Home,        \* Home[f]: the pod of a run and of its socket, or of a socket
    Regenerates, \* the runs asked for by a regenerate
    Sockets,     \* sockets that attach to a turn without having started it
    Scenes,      \* in each behaviour: the runs asked for, and the forwarders followed
    MaxTokens,   \* bound: the frames of a run before its terminal one
    Overlap,     \* whether a regenerate may overlap other runs of its turn
    MaxFaults,   \* bound: how many faults happen
    None

ASSUME ChatAssumption ==
    /\ Key \in [Runs -> Turns] /\ Home \in [Runs \cup Sockets -> Pods]
    /\ Regenerates \subseteq Runs /\ Runs \cap Sockets = {}
    /\ Scenes \subseteq [runs : SUBSET Runs, watch : SUBSET (Runs \cup Sockets)]
    /\ MaxTokens \in Nat /\ MaxFaults \in Nat /\ Overlap \in BOOLEAN
    /\ None \notin Runs \cup Turns

Forwarders == UNION {scene.watch : scene \in Scenes}

VARIABLES
    pc,         \* where each run is
    sent,       \* the tokens it has streamed
    ended,      \* TurnSink::terminated
    cancel,     \* TurnIntake::cancel
    listening,  \* runs whose control_listener has subscribed
    cleanup,    \* what the task spawned by the drop of TurnCoordination has to do
    active,     \* ActiveTurns of each pod: the run registered for a turn
    lock,       \* conv-turn:{conversation}: the run that holds it, or None
    advert,     \* cat:activeturn:{conversation}: a turn or None
    log,        \* all frames ever appended to the buffer of a turn
    base,       \* how many of them the last reset has dropped
    user,       \* the turns whose user message is in the store
    fwd,        \* the forwarders; got is what the client has received
    faults,
    (* Observations. *)
    busFailed,  \* whether the bus has failed somebody, but for a read of nothing
    answers     \* how often a turn was answered without a regenerate

runVars == <<pc, sent, ended, cancel, listening, cleanup>>
busVars == <<active, lock, advert, log, base>>
vars    == <<runVars, busVars, user, fwd, faults, busFailed, answers>>

Off(at) == [at |-> at, turn |-> None, cursor |-> 0, last |-> FALSE, got |-> {}]

Init ==
    /\ \E scene \in Scenes :
          /\ pc = [r \in Runs |-> IF r \in scene.runs THEN "new" ELSE "never"]
          /\ fwd = [f \in Forwarders |-> Off(IF f \in scene.watch THEN "off" ELSE "unseen")]
    /\ sent = [r \in Runs |-> 0]
    /\ ended = [r \in Runs |-> FALSE] /\ cancel = [r \in Runs |-> FALSE]
    /\ listening = {} /\ cleanup = [r \in Runs |-> "none"]
    /\ active = [p \in Pods |-> [t \in Turns |-> None]]
    /\ lock = None /\ advert = None
    /\ log = [t \in Turns |-> <<>>] /\ base = [t \in Turns |-> 0]
    /\ user = {}
    /\ faults = 0 /\ busFailed = FALSE /\ answers = [t \in Turns |-> 0]

Goto(r, l) == pc' = [pc EXCEPT ![r] = l]
Fault      == faults < MaxFaults /\ faults' = faults + 1
BusFault   == Fault /\ busFailed' = TRUE
NoFault    == UNCHANGED <<faults, busFailed>>

(* Runs that wait or work, and runs that are past acquire.                  *)
Alive        == {"waiting", "check", "persist", "stream", "post", "unwind"}
Coordinating == {"check", "persist", "stream", "post"}

Registered(p) == {t \in Turns : active[p][t] # None}


(* turn_is_live looks at one turn of the pod's table, whichever comes       *)
(* first, and then at the advertised one; it is over when the bus fails.    *)
LooksLive(p, t) == (t \in Registered(p) \/ advert = t) /\ NoFault

(* Mutant: only the pod's own table counts.                                 *)
LooksOverHere(p, t) == Registered(p) # {t} /\ NoFault

LooksOver(p, t) == Registered(p) # {t} /\ ((advert # t /\ NoFault) \/ BusFault)

(* TurnSink::emit: an append that fails is only logged. *)
Emit(r, kind) ==
    \/ /\ log' = [log EXCEPT ![Key[r]] = Append(@, [run |-> r, kind |-> kind])]
       /\ NoFault
    \/ BusFault /\ UNCHANGED log

-----------------------------------------------------------------------------
(* start_and_forward. *)

Forward(f, t, cursor) ==
    fwd' = IF f \notin Forwarders \/ fwd[f].at = "unseen" THEN fwd
           ELSE [fwd EXCEPT ![f] = [at |-> "read", turn |-> t, cursor |-> cursor, last |-> FALSE, got |-> fwd[f].got]]

(* What the client does: it offers to regenerate an answer that has ended,  *)
(* and then does not send the message again.                               *)
MayStart(r) ==
    LET others == {s \in Runs \ {r} : Key[s] = Key[r] /\ pc[s] \notin {"new", "never"}}
    IN  \/ Overlap
        \/ r \in Regenerates /\ others # {} /\ \A s \in others : ended[s] \/ pc[s] = "over"
        \/ r \notin Regenerates /\ others \cap Regenerates = {}

(* A frame whose turn is live only becomes another forwarder. *)
Join(r) ==
    /\ pc[r] = "new" /\ r \notin Regenerates /\ MayStart(r)
    /\ LooksLive(Home[r], Key[r])
    /\ Goto(r, "over")
    /\ Forward(r, Key[r], base[Key[r]])
    /\ UNCHANGED <<sent, ended, cancel, listening, cleanup, busVars, user, answers>>

(* Mutant: the frames of the last answer stay.                              *)
ResetNothing(t) == NoFault /\ UNCHANGED base

(* TurnBuffer::reset; an error is only logged. *)
Reset(t) ==
    \/ base' = [base EXCEPT ![t] = Len(log[t])] /\ NoFault
    \/ BusFault /\ UNCHANGED base

(* Otherwise, or when the conversation cannot be read, the run is           *)
(* registered and spawned; a regenerate first drops the frames of earlier   *)
(* runs.                                                                   *)
Spawn(r) ==
    LET p == Home[r]
        t == Key[r]
    IN  /\ pc[r] = "new"
        /\ MayStart(r)
        /\ IF r \in Regenerates
           THEN Reset(t)
           ELSE /\ LooksOver(p, t) \/ (Fault /\ UNCHANGED busFailed)
                /\ UNCHANGED base
        /\ active' = [active EXCEPT ![p][t] = r]
        /\ Goto(r, "waiting")
        /\ Forward(r, t, base'[t])
        /\ UNCHANGED <<sent, ended, cancel, listening, cleanup, lock, advert, log, user, answers>>

-----------------------------------------------------------------------------
(* TurnCoordination::acquire and control_listener. *)

(* Mutant: the run is advertised, not the turn.                             *)
AcquireForRun(r) ==
    /\ pc[r] = "waiting" /\ lock = None
    /\ lock' = r /\ advert' = r
    /\ Goto(r, "check")
    /\ UNCHANGED <<sent, ended, cancel, listening, cleanup, active, log, base, user, fwd, faults, busFailed, answers>>

(* The lock is taken, and the turn advertised if the bus does not fail.     *)
Acquire(r) ==
    /\ pc[r] = "waiting" /\ lock = None
    /\ lock' = r
    /\ \/ advert' = Key[r] /\ NoFault
       \/ BusFault /\ UNCHANGED advert
    /\ Goto(r, "check")
    /\ UNCHANGED <<sent, ended, cancel, listening, cleanup, active, log, base, user, fwd, answers>>

(* The lock cannot be asked for: the turn runs uncoordinated.               *)
AcquireFails(r) ==
    /\ pc[r] = "waiting"
    /\ BusFault
    /\ advert' \in {advert, Key[r]}
    /\ Goto(r, "check")
    /\ UNCHANGED <<sent, ended, cancel, listening, cleanup, active, lock, log, base, user, fwd, answers>>

(* While the lock is held a stop ends the wait, and so does                 *)
(* CONV_TURN_WAIT_MAX; a conversation that cannot be read ends the run.     *)
GiveUp(r) ==
    /\ pc[r] = "waiting"
    /\ \/ lock # None /\ cancel[r] /\ UNCHANGED faults
       \/ Fault
    /\ Goto(r, "unwind")
    /\ UNCHANGED <<sent, ended, cancel, listening, cleanup, busVars, user, fwd, busFailed, answers>>

Subscribe(r) ==
    /\ pc[r] \in Coordinating /\ r \notin listening
    /\ listening' = listening \cup {r}
    /\ UNCHANGED <<pc, sent, ended, cancel, cleanup, busVars, user, fwd, faults, busFailed, answers>>

(* The listener advertises the turn again at every tick. *)
Reannounce(r) ==
    /\ pc[r] \in Coordinating /\ advert # Key[r]
    /\ advert' = Key[r]
    /\ UNCHANGED <<runVars, active, lock, log, base, user, fwd, faults, busFailed, answers>>

-----------------------------------------------------------------------------
(* run_turn. *)

(* The turn ends; the drop of its coordination spawns the cleanup. *)
Leave(r) ==
    /\ Goto(r, "unwind")
    /\ cleanup' = [cleanup EXCEPT ![r] = "withdraw"]
    /\ listening' = listening \ {r}

(* A frame whose message is in the store is only acknowledged.              *)
Acknowledge(r) ==
    /\ pc[r] = "check" /\ r \notin Regenerates /\ Key[r] \in user
    /\ Emit(r, "token")
    /\ Leave(r)
    /\ UNCHANGED <<sent, ended, cancel, active, lock, advert, base, user, fwd, answers>>

(* A read that fails counts as not found; a regenerate needs its anchor.    *)
Check(r) ==
    /\ pc[r] = "check"
    /\ \/ (r \in Regenerates <=> Key[r] \in user) /\ UNCHANGED faults
       \/ r \notin Regenerates /\ Fault
    /\ Goto(r, "persist")
    /\ UNCHANGED <<sent, ended, cancel, listening, cleanup, busVars, user, fwd, busFailed, answers>>

(* Mutant: the message is inserted or updated.                              *)
PersistAgain(r) ==
    /\ pc[r] = "persist"
    /\ user' = user \cup {Key[r]}
    /\ Emit(r, "token")
    /\ Goto(r, "stream")
    /\ answers' = IF r \in Regenerates THEN answers ELSE [answers EXCEPT ![Key[r]] = @ + 1]
    /\ UNCHANGED <<sent, ended, cancel, listening, cleanup, active, lock, advert, base, fwd>>

(* The user message is inserted under the id of the turn, and acknowledged. *)
Persist(r) ==
    /\ pc[r] = "persist"
    /\ r \in Regenerates \/ Key[r] \notin user
    /\ user' = user \cup {Key[r]}
    /\ Emit(r, "token")
    /\ Goto(r, "stream")
    /\ answers' = IF r \in Regenerates THEN answers ELSE [answers EXCEPT ![Key[r]] = @ + 1]
    /\ UNCHANGED <<sent, ended, cancel, listening, cleanup, active, lock, advert, base, fwd>>

(* The id is taken, the anchor missing, or a statement or the agent fails.  *)
Fail(r) ==
    /\ \/ pc[r] = "persist" /\ r \notin Regenerates /\ Key[r] \in user /\ UNCHANGED faults
       \/ pc[r] = "check" /\ r \in Regenerates /\ Key[r] \notin user /\ UNCHANGED faults
       \/ pc[r] \in {"check", "persist", "stream"} /\ Fault
    /\ Leave(r)
    /\ UNCHANGED <<sent, ended, cancel, busVars, user, fwd, busFailed, answers>>

Token(r) ==
    /\ pc[r] = "stream" /\ sent[r] < MaxTokens /\ ~cancel[r]
    /\ sent' = [sent EXCEPT ![r] = @ + 1]
    /\ Emit(r, "token")
    /\ UNCHANGED <<pc, ended, cancel, listening, cleanup, active, lock, advert, base, user, fwd, answers>>

(* message_done is the last frame; curation, compaction and titles follow.  *)
Done(r) ==
    /\ pc[r] = "stream"
    /\ ended' = [ended EXCEPT ![r] = TRUE]
    /\ Emit(r, "done")
    /\ Goto(r, "post")
    /\ UNCHANGED <<sent, cancel, listening, cleanup, active, lock, advert, base, user, fwd, answers>>

Post(r) ==
    /\ pc[r] = "post"
    /\ Leave(r)
    /\ UNCHANGED <<sent, ended, cancel, busVars, user, fwd, faults, busFailed, answers>>

(* Mutant: nothing is appended for a turn that did not get to its end.      *)
TerminateSilently(r) ==
    /\ pc[r] = "unwind" /\ ~ended[r]
    /\ ended' = [ended EXCEPT ![r] = TRUE]
    /\ NoFault
    /\ UNCHANGED <<pc, sent, cancel, listening, cleanup, busVars, user, fwd, answers>>

(* The spawned task after run_turn: an error or finish_if_needed.           *)
Terminate(r) ==
    /\ pc[r] = "unwind" /\ ~ended[r]
    /\ ended' = [ended EXCEPT ![r] = TRUE]
    /\ Emit(r, "done")
    /\ UNCHANGED <<pc, sent, cancel, listening, cleanup, active, lock, advert, base, user, fwd, answers>>

(* Its guard removes the turn from the table of the pod. *)
Deregister(r) ==
    /\ pc[r] = "unwind" /\ ended[r]
    /\ active' = [active EXCEPT ![Home[r]][Key[r]] = None]
    /\ Goto(r, "over")
    /\ UNCHANGED <<sent, ended, cancel, listening, cleanup, lock, advert, log, base, user, fwd, faults, busFailed, answers>>

(* The task spawned by the drop: withdraw, then release.                    *)
Withdraw(r) ==
    /\ cleanup[r] = "withdraw"
    /\ \/ advert' = None /\ NoFault
       \/ BusFault /\ UNCHANGED advert
    /\ cleanup' = [cleanup EXCEPT ![r] = "release"]
    /\ UNCHANGED <<pc, sent, ended, cancel, listening, active, lock, log, base, user, fwd, answers>>

Release(r) ==
    /\ cleanup[r] = "release"
    /\ \/ lock' = (IF lock = r THEN None ELSE lock) /\ NoFault
       \/ BusFault /\ UNCHANGED lock
    /\ cleanup' = [cleanup EXCEPT ![r] = "none"]
    /\ UNCHANGED <<pc, sent, ended, cancel, listening, active, advert, log, base, user, fwd, answers>>

-----------------------------------------------------------------------------
(* A stop that arrives at pod p: the turns registered there are cancelled,  *)
(* the run of the socket it came from (own, if any) is, and it is published *)
(* for the runs that listen.                                               *)
Stop(p, own) ==
    /\ \A r \in own : Home[r] = p /\ pc[r] \in Alive
    /\ LET reached == {active[p][t] : t \in Registered(p)} \cup own \cup listening
       IN  /\ \E r \in reached : ~cancel[r]
           /\ cancel' = [r \in Runs |-> cancel[r] \/ r \in reached]
    /\ UNCHANGED <<pc, sent, ended, listening, cleanup, busVars, user, fwd, faults, busFailed, answers>>

-----------------------------------------------------------------------------
(* forward_turn.  A read returns the frames past the cursor, and those are  *)
(* sent up to the first terminal one.                                       *)

(* Mutant: ids begin anew after a reset.                                    *)
StartRenumbered(f) == fwd[f].cursor + base[fwd[f].turn]

Start(f) == IF fwd[f].cursor > base[fwd[f].turn] THEN fwd[f].cursor ELSE base[fwd[f].turn]

Unread(f) == Start(f) + 1 .. Len(log[fwd[f].turn])

Read(f) ==
    LET t     == fwd[f].turn
        dones == {i \in Unread(f) : log[t][i].kind = "done"}
        stop  == IF dones = {} THEN Len(log[t]) ELSE CHOOSE i \in dones : \A j \in dones : i <= j
    IN  /\ fwd[f].at = "read" /\ Unread(f) # {}
        /\ fwd' = [fwd EXCEPT ![f].cursor = stop, ![f].last = FALSE,
                              ![f].got = @ \cup {i \in Unread(f) : i <= stop},
                              ![f].at = IF dones = {} THEN "read" ELSE "ended"]
        /\ UNCHANGED <<runVars, busVars, user, faults, busFailed, answers>>

(* A read without frames.  The loop begins a new read at every pass, and    *)
(* the heartbeat (10 s) makes it pass before a read (20 s) can time out: a  *)
(* forwarder of a silent turn goes on reading, and asks whether the turn is *)
(* live only after a read has failed.  The last read (2 s) does time out.   *)
(* A read that fails while there is nothing to read may happen any time,    *)
(* and counts as a fault only if there is.                                  *)
ReadEmpty(f) ==
    /\ fwd[f].at = "read"
    /\ \/ Unread(f) = {} /\ NoFault
       \/ Unread(f) # {} /\ BusFault
    /\ fwd' = [fwd EXCEPT ![f].at = IF fwd[f].last THEN "synthetic" ELSE "ask"]
    /\ UNCHANGED <<runVars, busVars, user, answers>>

Ask(f) ==
    /\ fwd[f].at = "ask"
    /\ \/ /\ LooksLive(Home[f], fwd[f].turn)
          /\ fwd' = [fwd EXCEPT ![f].at = "read"]
       \/ /\ LooksOver(Home[f], fwd[f].turn)
          /\ fwd' = [fwd EXCEPT ![f].at = "read", ![f].last = TRUE]
    /\ UNCHANGED <<runVars, busVars, user, answers>>

(* A socket attaches to a turn, from the start or from the frame it got     *)
(* last; it may lose its connection and come back.                          *)
Attach(f, t) ==
    /\ f \in Sockets
    /\ fwd[f].at = "off" /\ fwd[f].turn \in {t, None}
    /\ \E r \in Runs : Key[r] = t /\ pc[r] \notin {"new", "never"}
    /\ Forward(f, t, fwd[f].cursor)
    /\ UNCHANGED <<runVars, busVars, user, faults, busFailed, answers>>

Disconnect(f) ==
    /\ f \in Sockets /\ fwd[f].at \in {"read", "ask"}
    /\ fwd' = [fwd EXCEPT ![f].at = "off"]
    /\ UNCHANGED <<runVars, busVars, user, faults, busFailed, answers>>

-----------------------------------------------------------------------------
(* A pod dies with its runs, its table and its sockets. *)
Crash(p) ==
    LET dead == {r \in Runs : Home[r] = p /\ pc[r] \in Alive}
    IN  /\ Fault
        /\ pc' = [r \in Runs |-> IF r \in dead THEN "over" ELSE pc[r]]
        /\ cleanup' = [r \in Runs |-> IF Home[r] = p THEN "none" ELSE cleanup[r]]
        /\ listening' = listening \ dead
        /\ active' = [active EXCEPT ![p] = [t \in Turns |-> None]]
        /\ fwd' = [f \in Forwarders |->
                      IF Home[f] = p /\ fwd[f].at \in {"read", "ask"}
                      THEN [fwd[f] EXCEPT !.at = "off"] ELSE fwd[f]]
        /\ UNCHANGED <<sent, ended, cancel, lock, advert, log, base, user, busFailed, answers>>

(* Mutant: nobody refreshes the lock.                                       *)
ExpireUnrefreshed == lock # None /\ lock' = None /\ UNCHANGED advert

(* CONV_TURN_LOCK_TTL: what nobody refreshes expires.                       *)
Expire ==
    \/ /\ lock # None
       /\ pc[lock] \notin Coordinating /\ cleanup[lock] = "none"
       /\ lock' = None /\ UNCHANGED advert
    \/ /\ advert # None
       /\ \A r \in Runs : Key[r] = advert => pc[r] \notin Coordinating
       /\ advert' = None /\ UNCHANGED lock
Lapse == Expire /\ UNCHANGED <<runVars, active, log, base, user, fwd, faults, busFailed, answers>>

(* The lock and the advertisement of a run that cannot reach the bus expire *)
(* all the same.                                                           *)
Lose ==
    /\ lock # None /\ pc[lock] \in Coordinating
    /\ BusFault
    /\ lock' = None /\ advert' \in {advert, None}
    /\ UNCHANGED <<runVars, active, log, base, user, fwd, answers>>

-----------------------------------------------------------------------------
RunStep(r) ==
    \/ Acquire(r) \/ GiveUp(r) \/ Acknowledge(r) \/ Check(r) \/ Persist(r)
    \/ Fail(r) \/ Token(r) \/ Done(r) \/ Post(r) \/ Terminate(r) \/ Deregister(r)

FwdStep(f) == Read(f) \/ ReadEmpty(f) \/ Ask(f)

Next ==
    \/ \E r \in Runs : \/ Join(r) \/ Spawn(r) \/ RunStep(r) \/ AcquireFails(r) \/ Subscribe(r) \/ Reannounce(r)
                       \/ Withdraw(r) \/ Release(r)
    \/ \E f \in Forwarders : FwdStep(f) \/ Disconnect(f) \/ \E t \in Turns : Attach(f, t)
    \/ \E p \in Pods : Crash(p) \/ Stop(p, {}) \/ \E r \in Runs : Stop(p, {r})
    \/ Lapse \/ Lose

Spec == Init /\ [][Next]_vars

(* A spawned task goes on, a forwarder sends what it reads and ends after   *)
(* its last read, and TTLs run out.  No other read need fail.               *)
FairSpec ==
    /\ Spec
    /\ \A r \in Runs : WF_vars(RunStep(r) \/ Withdraw(r) \/ Release(r))
    /\ \A f \in Forwarders : WF_vars(Read(f) \/ Ask(f) \/ (fwd[f].last /\ ReadEmpty(f)))
    /\ WF_vars(Lapse)

-----------------------------------------------------------------------------
(* Properties. *)

Frames == [run : Runs, kind : {"token", "done"}]

(* Every variable has its type. *)
TypeOK ==
    /\ pc \in [Runs -> Alive \cup {"never", "new", "over"}]
    /\ sent \in [Runs -> 0..MaxTokens]
    /\ ended \in [Runs -> BOOLEAN] /\ cancel \in [Runs -> BOOLEAN]
    /\ listening \subseteq Runs
    /\ cleanup \in [Runs -> {"none", "withdraw", "release"}]
    /\ active \in [Pods -> [Turns -> Runs \cup {None}]]
    /\ lock \in Runs \cup {None} /\ advert \in Turns \cup {None}
    /\ log \in [Turns -> Seq(Frames)] /\ base \in [Turns -> Nat]
    /\ user \subseteq Turns /\ answers \in [Turns -> Nat]
    /\ fwd \in [Forwarders -> [at : {"unseen", "off", "read", "ask", "ended", "synthetic"},
                               turn : Turns \cup {None}, cursor : Nat, last : BOOLEAN,
                               got : SUBSET Nat]]
    /\ faults \in 0..MaxFaults /\ busFailed \in BOOLEAN

(* Two runs work on the conversation at a time only after the bus has       *)
(* failed one of them: neither the wait for the lock nor the cleanup that   *)
(* a finished turn leaves behind lets a second one in.                      *)
OneTurnAtATime ==
    busFailed \/ \A r, s \in Runs : pc[r] \in Coordinating /\ pc[s] \in Coordinating => r = s

(* A user message is answered once however often its frame is retried, on   *)
(* whichever pod, and whether or not the bus works.                         *)
AnsweredOnce == \A t \in Turns : answers[t] <= 1

(* The frames of run r. *)
FramesOf(r) == {i \in 1..Len(log[Key[r]]) : log[Key[r]][i].run = r}

(* A forwarder that was ended by a terminal frame has sent the client all   *)
(* the run appended, through reconnects and on whichever pod.               *)
CompleteReplay ==
    \A f \in Forwarders : fwd[f].at = "ended" =>
        LET t == fwd[f].turn
            r == log[t][fwd[f].cursor].run
        IN  FramesOf(r) \subseteq fwd[f].got

(* The socket that asks for a regenerate is ended only behind the terminal  *)
(* frame of the answer it asked for: not by that of the answer it replaces, *)
(* which the buffer may still hold.                                         *)
EndsOnNewAnswer ==
    ~busFailed => \A r \in Regenerates \cap Forwarders : fwd[r].at = "ended" =>
        \E i \in FramesOf(r) : i <= fwd[r].cursor /\ log[Key[r]][i].kind = "done"

(* No forwarder tells its client that a turn is over while a run of it      *)
(* streams.                                                                *)
NoFalseEnd ==
    [][\A f \in Forwarders :
          fwd[f].at # "synthetic" /\ fwd'[f].at = "synthetic" /\ ~busFailed' =>
             \A r \in Runs : Key[r] = fwd[f].turn => pc[r] # "stream"]_vars

(* The terminal frame of a run of turn t is lost: its task has ended or     *)
(* died, after a fault, and the log has no such frame.                      *)
TerminalLost(t) ==
    faults > 0 /\ \E r \in Runs :
        Key[r] = t /\ pc[r] = "over" /\ \A i \in FramesOf(r) : log[t][i].kind # "done"

(* Every forwarder ends or loses its client, unless a terminal frame of its *)
(* turn is lost: stops, refused and failing turns, resets, reconnects and   *)
(* failed reads leave none waiting (TurnSink::finish_if_needed,             *)
(* forward_turn).                                                          *)
ForwardersEnd ==
    \A f \in Forwarders :
        fwd[f].at = "read" ~> fwd[f].at \in {"ended", "synthetic", "off"} \/ TerminalLost(fwd[f].turn)

(* "if the run's own terminal append was lost (a Valkey blip), the          *)
(* forwarder must not block forever" (forward_turn): every forwarder ends   *)
(* or loses its client, whatever happens to the run and to its frames.      *)
EveryForwarderUnwinds ==
    \A f \in Forwarders : fwd[f].at = "read" ~> fwd[f].at \in {"ended", "synthetic", "off"}
=============================================================================

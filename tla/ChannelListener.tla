-------------------------- MODULE ChannelListener ---------------------------
(***************************************************************************)
(* The inbound listener of one channel on every pod (catalerum-api,         *)
(* channel_listener.rs).  A lease of the bus makes one pod the consumer of  *)
(* the channel; because a leader that stalls outlives its lease, each       *)
(* message is also claimed, by its provider identity, before it becomes     *)
(* jobs for agent profiles and automations.                                 *)
(*                                                                         *)
(* Messages are numbered in the order in which they arrive.  The provider   *)
(* (matrix.rs) gives every subscriber all that arrives after it subscribed. *)
(* Left out: the clock.  A claim is taken to outlast the time in which two  *)
(* pods can meet the same message (DISPATCH_CLAIM_TTL).                     *)
(***************************************************************************)
EXTENDS Integers

CONSTANTS
    Pods,
    N,         \* how many messages arrive
    Source,    \* Source[m]: the room or chat of message m
    MsgId,     \* MsgId[m]: its provider id, or NoId
    NoId,
    MaxFaults, \* bound: how many faults happen
    None, Gone \* no holder; a holder that does not refresh the lease any more

Messages == 1..N

(* Mutant: the id alone.                                                    *)
ClaimKeyOfId(m) == <<NoId, MsgId[m]>>

(* channel_msg_claim_key. *)
ClaimKey(m) == <<Source[m], MsgId[m]>>
Named == {m \in Messages : MsgId[m] # NoId}

ASSUME ChannelAssumption ==
    /\ N \in Nat /\ MaxFaults \in Nat
    /\ {None, Gone} \cap Pods = {} /\ None # Gone
    /\ \A m, n \in Named : Source[m] = Source[n] /\ MsgId[m] = MsgId[n] => m = n

VARIABLES
    arrived,   \* the messages that have arrived are 1..arrived
    pc,        \* where the listen_channel task of each pod is
    cursor,    \* since: how far its subscription has polled
    handled,   \* how far it has taken messages off st.pending
    lease,     \* leader:channel:{workspace}:{name}
    claims,    \* channel-msg keys that are held
    faults,
    (* Observations. *)
    busFailed, \* whether the bus failed somebody or lost its keys
    profiles,  \* how often each message became run_profile jobs
    triggers,  \* and how often run_automation jobs
    received,  \* messages that some subscription has yielded
    excused    \* messages a pod had received when it failed or was deposed

vars == <<arrived, pc, cursor, handled, lease, claims, faults, busFailed,
          profiles, triggers, received, excused>>

Init ==
    /\ arrived = 0
    /\ pc = [p \in Pods |-> "contend"]
    /\ cursor = [p \in Pods |-> 0] /\ handled = [p \in Pods |-> 0]
    /\ lease = None /\ claims = {}
    /\ faults = 0 /\ busFailed = FALSE
    /\ profiles = [m \in Messages |-> 0] /\ triggers = [m \in Messages |-> 0]
    /\ received = {} /\ excused = {}

Goto(p, l) == pc' = [pc EXCEPT ![p] = l]
Fault      == faults < MaxFaults /\ faults' = faults + 1
BusFault   == Fault /\ busFailed' = TRUE

(* A pod whose stream is open, and the messages it has yet to finish. *)
Open == {"drain", "profiles", "trigger"}
Pending(p) == IF pc[p] \in Open THEN handled[p] + 1 .. cursor[p] ELSE {}
Current(p) == handled[p] + 1

Arrive ==
    /\ arrived < N
    /\ arrived' = arrived + 1
    /\ UNCHANGED <<pc, cursor, handled, lease, claims, faults, busFailed, profiles, triggers, received, excused>>

-----------------------------------------------------------------------------
(* listen_channel: a pod that does not get the lease tries again later, and *)
(* so does one whose request failed but took the lease all the same.        *)

Contend(p) ==
    /\ pc[p] = "contend" /\ lease = None
    /\ \/ lease' = p /\ Goto(p, "subscribe") /\ UNCHANGED faults
       \/ lease' = Gone /\ Fault /\ UNCHANGED pc
    /\ UNCHANGED <<arrived, cursor, handled, claims, busFailed, profiles, triggers, received, excused>>

(* The first poll of a subscription discards what arrived before it. *)
Prime(p) ==
    /\ pc[p] = "subscribe"
    /\ cursor' = [cursor EXCEPT ![p] = arrived]
    /\ handled' = [handled EXCEPT ![p] = arrived]
    /\ Goto(p, "drain")
    /\ UNCHANGED <<arrived, lease, claims, faults, busFailed, profiles, triggers, received, excused>>

Poll(p) ==
    /\ pc[p] = "drain" /\ Pending(p) = {} /\ cursor[p] < arrived
    /\ cursor' = [cursor EXCEPT ![p] = arrived]
    /\ received' = received \cup (cursor[p] + 1 .. arrived)
    /\ UNCHANGED <<arrived, pc, handled, lease, claims, faults, busFailed, profiles, triggers, excused>>

(* A poll that fails ends the subscription, after RECONNECT_DELAY. *)
PollFails(p) ==
    /\ pc[p] \in {"subscribe", "drain"} /\ Pending(p) = {}
    /\ Fault
    /\ Goto(p, "release")
    /\ UNCHANGED <<arrived, cursor, handled, lease, claims, busFailed, profiles, triggers, received, excused>>

(* The renewal finds the lease in other hands: the stream is dropped with   *)
(* what it still holds.                                                    *)
Deposed(p) ==
    /\ pc[p] = "drain" /\ lease # p
    /\ excused' = excused \cup Pending(p)
    /\ Goto(p, "release")
    /\ UNCHANGED <<arrived, cursor, handled, lease, claims, faults, busFailed, profiles, triggers, received>>

(* Best effort: a lease that is not released runs out. *)
Release(p) ==
    /\ pc[p] = "release"
    /\ \/ lease' = (IF lease = p THEN None ELSE lease) /\ UNCHANGED faults
       \/ lease' = (IF lease = p THEN Gone ELSE lease) /\ Fault
    /\ Goto(p, "contend")
    /\ UNCHANGED <<arrived, cursor, handled, claims, busFailed, profiles, triggers, received, excused>>

-----------------------------------------------------------------------------
(* dispatch_inbound. *)

(* claim_dispatch: Proceed, for a message without id, for the winner of the *)
(* claim and when the bus fails.                                           *)
Proceed(p) ==
    LET m == Current(p)
    IN  /\ pc[p] = "drain" /\ Pending(p) # {}
        /\ \/ m \notin Named /\ UNCHANGED <<claims, faults, busFailed>>
           \/ /\ m \in Named /\ ClaimKey(m) \notin claims
              /\ claims' = claims \cup {ClaimKey(m)}
              /\ UNCHANGED <<faults, busFailed>>
           \/ m \in Named /\ BusFault /\ UNCHANGED claims
        /\ Goto(p, "profiles")
        /\ UNCHANGED <<arrived, cursor, handled, lease, profiles, triggers, received, excused>>

Skip(p) ==
    /\ pc[p] = "drain" /\ Pending(p) # {}
    /\ Current(p) \in Named /\ ClaimKey(Current(p)) \in claims
    /\ handled' = [handled EXCEPT ![p] = Current(p)]
    /\ UNCHANGED <<arrived, pc, cursor, lease, claims, faults, busFailed, profiles, triggers, received, excused>>

(* A dispatch that fails is only logged. *)
Dispatch(m, count) ==
    \/ count' = [count EXCEPT ![m] = @ + 1] /\ UNCHANGED <<faults, excused>>
    \/ Fault /\ excused' = excused \cup {m} /\ UNCHANGED count

DispatchToProfiles(p) ==
    /\ pc[p] = "profiles"
    /\ Dispatch(Current(p), profiles)
    /\ Goto(p, "trigger")
    /\ UNCHANGED <<arrived, cursor, handled, lease, claims, busFailed, triggers, received>>

(* Mutant: the claim is released after the dispatch.                        *)
DispatchTriggerReleasing(p) ==
    /\ pc[p] = "trigger"
    /\ Dispatch(Current(p), triggers)
    /\ handled' = [handled EXCEPT ![p] = Current(p)]
    /\ claims' = claims \ {ClaimKey(Current(p))}
    /\ Goto(p, "drain")
    /\ UNCHANGED <<arrived, cursor, lease, busFailed, profiles, received>>

DispatchTrigger(p) ==
    /\ pc[p] = "trigger"
    /\ Dispatch(Current(p), triggers)
    /\ handled' = [handled EXCEPT ![p] = Current(p)]
    /\ Goto(p, "drain")
    /\ UNCHANGED <<arrived, cursor, lease, claims, busFailed, profiles, received>>

-----------------------------------------------------------------------------
(* The environment. *)

(* A leader stalls past LEADER_TTL: its lease is free and it does not know. *)
Stall(p) ==
    /\ lease = p
    /\ Fault
    /\ lease' = None
    /\ UNCHANGED <<arrived, pc, cursor, handled, claims, busFailed, profiles, triggers, received, excused>>

Crash(p) ==
    /\ pc[p] # "contend"
    /\ Fault
    /\ excused' = excused \cup Pending(p)
    /\ lease' = IF lease = p THEN Gone ELSE lease
    /\ Goto(p, "contend")
    /\ UNCHANGED <<arrived, cursor, handled, claims, busFailed, profiles, triggers, received>>

(* Mutant: the lease is taken without a TTL.                                *)
ExpireNever == lease = Gone /\ FALSE /\ UNCHANGED vars

(* A lease that nobody refreshes runs out. *)
Expire ==
    /\ lease = Gone
    /\ lease' = None
    /\ UNCHANGED <<arrived, pc, cursor, handled, claims, faults, busFailed, profiles, triggers, received, excused>>

(* A claim runs out once no open stream can yield its message any more. *)
ExpireClaim(m) ==
    /\ m \in Named /\ ClaimKey(m) \in claims
    /\ \A p \in Pods : pc[p] \in Open => m <= handled[p]
    /\ claims' = claims \ {ClaimKey(m)}
    /\ UNCHANGED <<arrived, pc, cursor, handled, lease, faults, busFailed, profiles, triggers, received, excused>>

(* The bus restarts without its keys. *)
BusRestart ==
    /\ BusFault
    /\ lease' = None /\ claims' = {}
    /\ UNCHANGED <<arrived, pc, cursor, handled, profiles, triggers, received, excused>>

-----------------------------------------------------------------------------
PodStep(p) ==
    \/ Contend(p) \/ Prime(p) \/ Poll(p) \/ Deposed(p) \/ Release(p)
    \/ Proceed(p) \/ Skip(p) \/ DispatchToProfiles(p) \/ DispatchTrigger(p)

Next ==
    \/ \E p \in Pods : PodStep(p) \/ PollFails(p) \/ Stall(p) \/ Crash(p)
    \/ \E m \in Messages : ExpireClaim(m)
    \/ Arrive \/ Expire \/ BusRestart

Spec == Init /\ [][Next]_vars

(* The tasks run for the lifetime of the process, and TTLs run out. *)
FairSpec == Spec /\ (\A p \in Pods : WF_vars(PodStep(p))) /\ WF_vars(Expire)

-----------------------------------------------------------------------------
(* Properties. *)

(* Every variable has its type. *)
TypeOK ==
    /\ arrived \in 0..N
    /\ pc \in [Pods -> Open \cup {"contend", "subscribe", "release"}]
    /\ cursor \in [Pods -> 0..N] /\ handled \in [Pods -> 0..N]
    /\ lease \in Pods \cup {None, Gone}
    /\ claims \subseteq {ClaimKey(m) : m \in Named}
    /\ faults \in 0..MaxFaults /\ busFailed \in BOOLEAN
    /\ profiles \in [Messages -> Nat] /\ triggers \in [Messages -> Nat]
    /\ received \subseteq Messages /\ excused \subseteq Messages

(* While the bus keeps its keys a message with an id becomes at most one    *)
(* set of jobs, although a stalled leader and its successor both drain the  *)
(* channel and although pods crash between the two dispatches.              *)
DispatchedOnce ==
    busFailed \/ \A m \in Named : profiles[m] <= 1 /\ triggers[m] <= 1

(* A message that some subscription yielded is dispatched: when a pod skips *)
(* it, the claim it found belongs to this message, and the pod that holds   *)
(* the claim dispatches unless it crashes, fails or is deposed first.       *)
YieldedIsDispatched ==
    \A m \in received \ excused :
        profiles[m] > 0 \/ \E p \in Pods : m \in Pending(p)

(* The channel is listened to again, by a pod that holds its lease,         *)
(* whatever crashes, stalls and restarts came before.                       *)
AlwaysLedAgain == []<>(\E p \in Pods : pc[p] \in Open /\ lease = p)
=============================================================================

--------------------------- MODULE ChatTurn_proofs ---------------------------
(***************************************************************************)
(* Proofs about ChatTurn for any number of pods, turns, runs, sockets and   *)
(* faults.                                                                  *)
(***************************************************************************)
EXTENDS ChatTurn, NaturalsInduction, WellFoundedInduction, TLAPS

(* The types of what the two theorems are about. *)
RunTypes ==
    /\ DOMAIN pc = Runs /\ DOMAIN cleanup = Runs
    /\ answers \in [Turns -> Nat] /\ user \subseteq Turns

(* A run that works, or whose cleanup is under way, holds the lock; the     *)
(* cleanup begins when the work has ended.                                  *)
Holds ==
    /\ \A r \in Runs : pc[r] \in Coordinating \/ cleanup[r] # "none" => lock = r
    /\ \A r \in Runs : cleanup[r] # "none" => pc[r] \notin Coordinating

HoldsInv == RunTypes /\ (busFailed \/ Holds)

(* Only a turn whose message is in the store has been answered.             *)
AnswerInv ==
    /\ RunTypes
    /\ \A t \in Turns : answers[t] <= 1 /\ (t \notin user => answers[t] = 0)

LEMMA ChatInit == Init => HoldsInv /\ AnswerInv
<1> SUFFICES ASSUME Init PROVE HoldsInv /\ AnswerInv
  OBVIOUS
<1>1. PICK scene \in Scenes : pc = [r \in Runs |-> IF r \in scene.runs THEN "new" ELSE "never"]
  BY DEF Init
<1>2. RunTypes
  BY <1>1 DEF Init, RunTypes
<1>3. Holds
  BY <1>1 DEF Init, Holds, Coordinating
<1>4. QED
  BY <1>2, <1>3 DEF HoldsInv, AnswerInv, Init

-----------------------------------------------------------------------------
(* A step keeps the types, and enters an answer only under a new message.   *)
LEMMA ChatAnswers ==
    ASSUME AnswerInv, [Next]_vars
    PROVE  AnswerInv'
<1> USE DEF AnswerInv, RunTypes, Goto
<1>1. ASSUME NEW r \in Runs, Persist(r)
      PROVE  AnswerInv'
  <2>1. Key[r] \in Turns
    BY ChatAssumption
  <2>2. DOMAIN pc' = Runs /\ DOMAIN cleanup' = Runs /\ user' = user \cup {Key[r]}
    BY <1>1 DEF Persist
  <2>3. CASE r \in Regenerates
    BY <1>1, <2>1, <2>2, <2>3 DEF Persist
  <2>4. CASE r \notin Regenerates
    <3>1. Key[r] \notin user /\ answers' = [answers EXCEPT ![Key[r]] = @ + 1]
      BY <1>1, <2>4 DEF Persist
    <3>2. QED
      BY <2>1, <2>2, <3>1
  <2>5. QED
    BY <2>3, <2>4
<1>2. ASSUME UNCHANGED <<answers, user>>, DOMAIN pc' = Runs, DOMAIN cleanup' = Runs
      PROVE  AnswerInv'
  BY <1>2
<1>3. ASSUME NEW r \in Runs, Join(r) \/ Spawn(r) \/ Acquire(r) \/ AcquireFails(r) \/ GiveUp(r)
                              \/ Subscribe(r) \/ Reannounce(r)
      PROVE  AnswerInv'
  BY <1>2, <1>3 DEF Join, Spawn, Acquire, AcquireFails, GiveUp, Subscribe, Reannounce, runVars, busVars
<1>4. ASSUME NEW r \in Runs, Acknowledge(r) \/ Check(r) \/ Fail(r) \/ Post(r)
      PROVE  AnswerInv'
  BY <1>2, <1>4 DEF Acknowledge, Check, Fail, Post, Leave, busVars
<1>5. ASSUME NEW r \in Runs, Token(r) \/ Done(r) \/ Terminate(r) \/ Deregister(r)
                              \/ Withdraw(r) \/ Release(r)
      PROVE  AnswerInv'
  BY <1>2, <1>5 DEF Token, Done, Terminate, Deregister, Withdraw, Release
<1>6. ASSUME NEW f \in Forwarders, NEW t \in Turns, Attach(f, t)
      PROVE  AnswerInv'
  BY <1>2, <1>6 DEF Attach, runVars
<1>7. ASSUME NEW f \in Forwarders, FwdStep(f) \/ Disconnect(f)
      PROVE  AnswerInv'
  BY <1>2, <1>7 DEF FwdStep, Read, ReadEmpty, Ask, Disconnect, runVars
<1>8. ASSUME NEW p \in Pods, Crash(p)
      PROVE  AnswerInv'
  BY <1>2, <1>8 DEF Crash
<1>9. ASSUME NEW p \in Pods, NEW own, Stop(p, own)
      PROVE  AnswerInv'
  BY <1>2, <1>9 DEF Stop
<1>10. CASE Lapse \/ Lose
  BY <1>2, <1>10 DEF Lapse, Lose, runVars
<1>11. CASE UNCHANGED vars
  BY <1>2, <1>11 DEF vars, runVars
<1>12. QED
  BY <1>1, <1>3, <1>4, <1>5, <1>6, <1>7, <1>8, <1>9, <1>10, <1>11 DEF Next, RunStep

(* A user message is answered at most once, however many runs of its turn   *)
(* there are, on whichever pods, and whatever fails: the insertion of the   *)
(* message is the only way to an answer, and its id is taken afterwards.    *)
THEOREM ChatAnswersOnce == Spec => []AnsweredOnce
<1>1. AnswerInv /\ [Next]_vars => AnswerInv'
  BY ChatAnswers
<1>2. AnswerInv => AnsweredOnce
  BY DEF AnswerInv, AnsweredOnce
<1>3. QED
  BY ChatInit, <1>1, <1>2, PTL DEF Spec

-----------------------------------------------------------------------------
(* While the bus fails nobody, a step keeps the lock with the run that      *)
(* works or cleans up.                                                      *)
LEMMA ChatHolds ==
    ASSUME RunTypes, Holds, [Next]_vars, ~busFailed'
    PROVE  Holds'
<1>0. None \notin Runs
  BY ChatAssumption
<1> USE <1>0 DEF RunTypes, Goto, Coordinating
<1>1. ASSUME NEW r \in Runs, Join(r) \/ Spawn(r) \/ GiveUp(r) \/ Deregister(r)
      PROVE  Holds'
  <2>1. UNCHANGED <<lock, cleanup>>
    BY <1>1 DEF Join, Spawn, GiveUp, Deregister, busVars
  <2>2. \A s \in Runs : pc'[s] \in Coordinating => pc[s] \in Coordinating
    BY <1>1 DEF Join, Spawn, GiveUp, Deregister
  <2>3. QED
    BY <2>1, <2>2 DEF Holds
<1>2. ASSUME NEW r \in Runs, Acquire(r)
      PROVE  Holds'
  <2>1. lock = None /\ lock' = r /\ cleanup' = cleanup /\ pc' = [pc EXCEPT ![r] = "check"]
    BY <1>2 DEF Acquire
  <2>2. \A s \in Runs : pc[s] \notin Coordinating /\ cleanup[s] = "none"
    BY <2>1 DEF Holds
  <2>3. QED
    BY <2>1, <2>2 DEF Holds
<1>3. ASSUME NEW r \in Runs, AcquireFails(r)
      PROVE  Holds'
  BY <1>3 DEF AcquireFails, BusFault
<1>4. ASSUME NEW r \in Runs, Subscribe(r) \/ Reannounce(r) \/ Token(r) \/ Terminate(r)
      PROVE  Holds'
  <2>1. UNCHANGED <<pc, cleanup, lock>>
    BY <1>4 DEF Subscribe, Reannounce, Token, Terminate, runVars, busVars
  <2>2. QED
    BY <2>1 DEF Holds
<1>5. ASSUME NEW r \in Runs, Check(r) \/ Persist(r) \/ Done(r)
      PROVE  Holds'
  <2>1. UNCHANGED <<cleanup, lock>> /\ pc[r] \in Coordinating
    BY <1>5 DEF Check, Persist, Done, busVars
  <2>2. \A s \in Runs : pc'[s] \in Coordinating => pc[s] \in Coordinating
    BY <1>5, <2>1 DEF Check, Persist, Done
  <2>3. QED
    BY <2>1, <2>2 DEF Holds
<1>6. ASSUME NEW r \in Runs, Acknowledge(r) \/ Fail(r) \/ Post(r)
      PROVE  Holds'
  <2>1. /\ lock' = lock /\ pc[r] \in Coordinating
        /\ pc' = [pc EXCEPT ![r] = "unwind"]
        /\ cleanup' = [cleanup EXCEPT ![r] = "withdraw"]
    BY <1>6 DEF Acknowledge, Fail, Post, Leave, busVars
  <2>2. QED
    BY <2>1 DEF Holds
<1>7. ASSUME NEW r \in Runs, Withdraw(r)
      PROVE  Holds'
  <2>1. /\ lock' = lock /\ pc' = pc /\ cleanup[r] # "none"
        /\ cleanup' = [cleanup EXCEPT ![r] = "release"]
    BY <1>7 DEF Withdraw
  <2>2. QED
    BY <2>1 DEF Holds
<1>8. ASSUME NEW r \in Runs, Release(r)
      PROVE  Holds'
  <2>1. /\ pc' = pc /\ cleanup[r] # "none" /\ cleanup' = [cleanup EXCEPT ![r] = "none"]
    BY <1>8 DEF Release
  <2>2. \A s \in Runs : s # r => pc[s] \notin Coordinating /\ cleanup[s] = "none"
    BY <2>1 DEF Holds
  <2>3. pc[r] \notin Coordinating
    BY <2>1 DEF Holds
  <2>4. QED
    BY <2>1, <2>2, <2>3 DEF Holds
<1>9. ASSUME NEW f \in Forwarders, NEW t \in Turns, Attach(f, t)
      PROVE  Holds'
  BY <1>9 DEF Attach, runVars, busVars, Holds
<1>10. ASSUME NEW f \in Forwarders, FwdStep(f) \/ Disconnect(f)
      PROVE  Holds'
  <2>1. UNCHANGED <<pc, cleanup, lock>>
    BY <1>10 DEF FwdStep, Read, ReadEmpty, Ask, Disconnect, runVars, busVars
  <2>2. QED
    BY <2>1 DEF Holds
<1>11. ASSUME NEW p \in Pods, Crash(p)
      PROVE  Holds'
  <2>1. /\ lock' = lock
        /\ \A r \in Runs : pc'[r] \in Coordinating => pc[r] \in Coordinating
        /\ \A r \in Runs : cleanup'[r] # "none" => cleanup'[r] = cleanup[r]
    BY <1>11 DEF Crash
  <2>2. QED
    BY <2>1 DEF Holds
<1>12. ASSUME NEW p \in Pods, NEW own, Stop(p, own)
      PROVE  Holds'
  BY <1>12 DEF Stop, busVars, Holds
<1>13. CASE Lapse
  <2>1. UNCHANGED <<pc, cleanup>>
    BY <1>13 DEF Lapse, runVars
  <2>2. \/ lock' = lock
        \/ lock # None /\ pc[lock] \notin Coordinating /\ cleanup[lock] = "none"
    BY <1>13 DEF Lapse, Expire
  <2>3. QED
    BY <2>1, <2>2 DEF Holds
<1>14. CASE Lose
  BY <1>14 DEF Lose, BusFault
<1>15. CASE UNCHANGED vars
  BY <1>15 DEF vars, runVars, busVars, Holds
<1>16. QED
  BY <1>1, <1>2, <1>3, <1>4, <1>5, <1>6, <1>7, <1>8, <1>9, <1>10, <1>11, <1>12, <1>13,
     <1>14, <1>15 DEF Next, RunStep

(* Two runs never work on the conversation at a time unless the bus has     *)
(* failed: the lock stays with a run until its cleanup has released it.     *)
THEOREM ChatOneTurn == Spec => []OneTurnAtATime
<1>1. AnswerInv /\ [Next]_vars => AnswerInv'
  BY ChatAnswers
<1>2. AnswerInv /\ HoldsInv /\ [Next]_vars => HoldsInv'
  <2> SUFFICES ASSUME AnswerInv, HoldsInv, [Next]_vars PROVE HoldsInv'
    OBVIOUS
  <2>1. RunTypes /\ RunTypes'
    BY ChatAnswers DEF AnswerInv
  <2>2. busFailed' = TRUE \/ busFailed' = busFailed
    BY ZenonT(60) DEF Next, RunStep, FwdStep, vars, Join, Spawn, Reset, Acquire, AcquireFails, GiveUp,
           Subscribe, Reannounce, Acknowledge, Check, Persist, Fail, Token, Done, Post,
           Terminate, Deregister, Withdraw, Release, Read, ReadEmpty, Ask, Attach, Disconnect,
           Stop, Crash, Lapse, Lose, Emit, LooksLive, LooksOver, NoFault, BusFault
  <2>3. QED
    BY <2>1, <2>2, ChatHolds DEF HoldsInv
<1>3. HoldsInv => OneTurnAtATime
  BY DEF HoldsInv, Holds, OneTurnAtATime
<1>4. QED
  BY ChatInit, <1>1, <1>2, <1>3, PTL DEF Spec
-----------------------------------------------------------------------------
(* Types. *)

Places == {"unseen", "off", "read", "ask", "ended", "synthetic"}
(* A forwarder that has begun knows its turn. *)
TurnKnown == \A f \in Forwarders : fwd[f].at \notin {"unseen", "off"} => fwd[f].turn \in Turns

Forwarding == [at : Places, turn : Turns \cup {None}, cursor : Nat, last : BOOLEAN, got : SUBSET Nat]

(* Which actions change what. *)
LEMMA ChatChanges ==
    ASSUME [Next]_vars
    PROVE  /\ \/ UNCHANGED <<pc, listening, cleanup>>
              \/ \E r \in Runs : \/ Join(r) \/ Spawn(r) \/ Acquire(r) \/ AcquireFails(r) \/ GiveUp(r)
                                 \/ Check(r) \/ Persist(r) \/ Done(r) \/ Deregister(r) \/ Subscribe(r)
                                 \/ Withdraw(r) \/ Release(r)
                                 \/ Acknowledge(r) \/ Fail(r) \/ Post(r)
              \/ \E p \in Pods : Crash(p)
           /\ \/ UNCHANGED <<sent, ended>>
              \/ \E r \in Runs : Token(r) \/ Done(r) \/ Terminate(r)
           /\ UNCHANGED cancel \/ \E p \in Pods, own \in SUBSET Runs : Stop(p, own)
           /\ \/ UNCHANGED <<active, base>>
              \/ \E r \in Runs : Spawn(r) \/ Deregister(r)
              \/ \E p \in Pods : Crash(p)
           /\ \/ UNCHANGED <<lock, advert>>
              \/ \E r \in Runs : \/ Acquire(r) \/ AcquireFails(r) \/ Reannounce(r)
                                 \/ Withdraw(r) \/ Release(r)
              \/ Lapse \/ Lose
           /\ \/ UNCHANGED <<log, user, answers>>
              \/ \E r \in Runs : Acknowledge(r) \/ Persist(r) \/ Token(r) \/ Done(r) \/ Terminate(r)
           /\ \/ UNCHANGED fwd
              \/ \E r \in Runs : Join(r) \/ Spawn(r)
              \/ \E f \in Forwarders : FwdStep(f) \/ Disconnect(f) \/ \E t \in Turns : Attach(f, t)
              \/ \E p \in Pods : Crash(p)
<1>1. CASE \E r \in Runs : \/ Join(r) \/ Spawn(r) \/ Acquire(r) \/ AcquireFails(r) \/ GiveUp(r)
                           \/ Subscribe(r) \/ Reannounce(r) \/ Withdraw(r) \/ Release(r)
  BY <1>1 DEF Join, Spawn, Acquire, AcquireFails, GiveUp, Subscribe, Reannounce, Withdraw,
              Release, runVars, busVars
<1>2. CASE \E r \in Runs : Acknowledge(r) \/ Check(r) \/ Persist(r) \/ Fail(r) \/ Token(r) \/ Done(r)
                           \/ Post(r) \/ Terminate(r) \/ Deregister(r)
  BY <1>2 DEF Acknowledge, Check, Persist, Fail, Token, Done, Post, Terminate, Deregister, busVars
<1>3. CASE \E f \in Forwarders : FwdStep(f) \/ Disconnect(f) \/ \E t \in Turns : Attach(f, t)
  BY <1>3 DEF FwdStep, Read, ReadEmpty, Ask, Disconnect, Attach, runVars, busVars
<1>4. CASE \E p \in Pods : Crash(p)
  BY <1>4 DEF Crash, busVars
<1>5. CASE \E p \in Pods, own \in SUBSET Runs : Stop(p, own)
  BY <1>5 DEF Stop, busVars
<1>6. CASE Lapse \/ Lose \/ UNCHANGED vars
  BY <1>6 DEF Lapse, Lose, vars, runVars, busVars
<1>7. QED
  BY <1>1, <1>2, <1>3, <1>4, <1>5, <1>6 DEF Next, RunStep

(* A step counts faults up to their bound. *)
LEMMA ChatFaults ==
    ASSUME [Next]_vars, faults \in 0..MaxFaults, busFailed \in BOOLEAN
    PROVE  faults' \in 0..MaxFaults /\ busFailed' \in BOOLEAN /\ (busFailed => busFailed')
<1>1. UNCHANGED faults \/ Fault
  BY ZenonT(60) DEF Next, RunStep, FwdStep, vars, Join, Spawn, Reset, Acquire, AcquireFails, GiveUp,
         Subscribe, Reannounce, Acknowledge, Check, Persist, Fail, Token, Done, Post,
         Terminate, Deregister, Withdraw, Release, Read, ReadEmpty, Ask, Attach, Disconnect,
         Stop, Crash, Lapse, Lose, Emit, LooksLive, LooksOver, NoFault, BusFault
<1>2. busFailed' = TRUE \/ busFailed' = busFailed
  BY ZenonT(60) DEF Next, RunStep, FwdStep, vars, Join, Spawn, Reset, Acquire, AcquireFails, GiveUp,
         Subscribe, Reannounce, Acknowledge, Check, Persist, Fail, Token, Done, Post,
         Terminate, Deregister, Withdraw, Release, Read, ReadEmpty, Ask, Attach, Disconnect,
         Stop, Crash, Lapse, Lose, Emit, LooksLive, LooksOver, NoFault, BusFault
<1>3. MaxFaults \in Nat
  BY ChatAssumption
<1>4. faults' \in 0..MaxFaults
  BY <1>1, <1>3 DEF Fault
<1>5. QED
  BY <1>2, <1>4

(* The first terminal frame of a read exists. *)
LEMMA Least ==
    ASSUME NEW S, S \subseteq Nat, S # {}
    PROVE  \E x \in S : \A y \in S : x <= y
<1> DEFINE R == {ss \in Nat \X Nat : ss[1] < ss[2]}
<1>1. IsWellFoundedOn(R, Nat)
  BY NatLessThanWellFounded DEF OpToRel
<1>2. \A y, x \in Nat : y < x => <<y, x>> \in R
  OBVIOUS
<1> HIDE DEF R
<1>3. PICK x \in S : \A y \in S : ~ (<<y, x>> \in R)
  BY <1>1, WFMin
<1>4. \A y \in S : ~ (y < x)
  BY <1>2, <1>3
<1>5. QED
  BY <1>4

LEMMA UnreadNat ==
    ASSUME TypeOK, NEW f \in Forwarders, fwd[f].turn \in Turns
    PROVE  Len(log[fwd[f].turn]) \in Nat /\ Start(f) \in Nat /\ Unread(f) \subseteq Nat
<1>1. log[fwd[f].turn] \in Seq(Frames) /\ base[fwd[f].turn] \in Nat
  BY DEF TypeOK
<1>2. fwd[f].cursor \in Nat
  BY DEF TypeOK
<1>3. Start(f) \in Nat
  BY <1>1, <1>2 DEF Start
<1>4. QED
  BY <1>1, <1>3 DEF Unread

(* What a read does: it moves the cursor to the first terminal frame, or to *)
(* the end, and takes the frames up to there.                               *)
ReadTo(f, stop, at, got) ==
    /\ fwd[f].at = "read"
    /\ fwd' = [fwd EXCEPT ![f].cursor = stop, ![f].last = FALSE, ![f].got = got, ![f].at = at]
    /\ got = fwd[f].got \cup {i \in Unread(f) : i <= stop}
    /\ at = "ended" => log[fwd[f].turn][stop].kind = "done"

LEMMA ReadEffect ==
    ASSUME TypeOK, NEW f \in Forwarders, fwd[f].turn \in Turns, Read(f)
    PROVE  \E stop \in Unread(f), at \in {"read", "ended"}, got \in SUBSET Nat : ReadTo(f, stop, at, got)
<1> DEFINE t     == fwd[f].turn
           dones == {i \in Unread(f) : log[t][i].kind = "done"}
           stop  == IF dones = {} THEN Len(log[t]) ELSE CHOOSE i \in dones : \A j \in dones : i <= j
           at    == IF dones = {} THEN "read" ELSE "ended"
           got   == fwd[f].got \cup {i \in Unread(f) : i <= stop}
<1>1. /\ fwd[f].at = "read"
      /\ fwd' = [fwd EXCEPT ![f].cursor = stop, ![f].last = FALSE, ![f].got = got, ![f].at = at]
  BY DEF Read
<1>2. Unread(f) # {}
  BY DEF Read
<1>3. Len(log[t]) \in Nat /\ Start(f) \in Nat /\ Unread(f) \subseteq Nat
  BY UnreadNat
<1>4. Len(log[t]) \in Unread(f)
  <2>1. Unread(f) = Start(f) + 1 .. Len(log[t])
    BY DEF Unread
  <2>2. QED
    BY <1>2, <1>3, <2>1
<1>5. stop \in Unread(f) /\ (dones # {} => log[t][stop].kind = "done")
  <2>1. CASE dones = {}
    BY <1>4, <2>1
  <2>2. CASE dones # {}
    <3>1. \E i \in dones : \A j \in dones : i <= j
      BY <1>3, <2>2, Least
    <3>2. stop \in dones
      BY <2>2, <3>1
    <3>3. QED
      BY <3>2
  <2>3. QED
    BY <2>1, <2>2
<1>6. at \in {"read", "ended"} /\ (at = "ended" => dones # {})
  OBVIOUS
<1>7. got \in SUBSET Nat
  <2>1. fwd[f].got \in SUBSET Nat
    BY DEF TypeOK
  <2>2. QED
    BY <1>3, <2>1
<1>8. ReadTo(f, stop, at, got)
  <2> HIDE DEF stop, at, dones
  <2>1. QED
    BY <1>1, <1>5, <1>6 DEF ReadTo
<1>9. QED
  <2> HIDE DEF stop, at, got
  <2>1. QED
    BY <1>5, <1>6, <1>7, <1>8

(* A step keeps the types. *)
LEMMA ChatTypes ==
    ASSUME TypeOK, TurnKnown, [Next]_vars
    PROVE  TypeOK'
<1>0. /\ Key \in [Runs -> Turns] /\ Home \in [Runs \cup Sockets -> Pods]
      /\ Forwarders \subseteq Runs \cup Sockets /\ MaxTokens \in Nat
  BY ChatAssumption DEF Forwarders
<1>1. /\ pc' \in [Runs -> Alive \cup {"never", "new", "over"}]
      /\ cleanup' \in [Runs -> {"none", "withdraw", "release"}]
      /\ listening' \subseteq Runs
  <2> USE DEF Goto, Alive, TypeOK
  <2>1. CASE UNCHANGED <<pc, listening, cleanup>>
    BY <2>1
  <2>2. ASSUME NEW r \in Runs, Join(r) \/ Spawn(r) \/ Acquire(r) \/ AcquireFails(r) \/ GiveUp(r)
                               \/ Check(r) \/ Persist(r) \/ Done(r) \/ Deregister(r)
        PROVE  <1>1!1 /\ UNCHANGED <<listening, cleanup>>
    BY <2>2 DEF Join, Spawn, Acquire, AcquireFails, GiveUp, Check, Persist, Done, Deregister
  <2>3. ASSUME NEW r \in Runs, Subscribe(r) \/ Withdraw(r) \/ Release(r)
        PROVE  UNCHANGED pc /\ <1>1!2 /\ <1>1!3
    BY <2>3 DEF Subscribe, Withdraw, Release
  <2>4. ASSUME NEW r \in Runs, Acknowledge(r) \/ Fail(r) \/ Post(r)
        PROVE  <1>1!1 /\ <1>1!2 /\ <1>1!3
    BY <2>4 DEF Acknowledge, Fail, Post, Leave
  <2>5. ASSUME NEW p \in Pods, Crash(p)
        PROVE  <1>1!1 /\ <1>1!2 /\ <1>1!3
    BY <2>5 DEF Crash
  <2>6. QED
    BY <2>1, <2>2, <2>3, <2>4, <2>5, ChatChanges
<1>2. sent' \in [Runs -> 0..MaxTokens] /\ ended' \in [Runs -> BOOLEAN]
  <2> USE DEF TypeOK
  <2>1. CASE UNCHANGED <<sent, ended>>
    BY <2>1
  <2>2. ASSUME NEW r \in Runs, Token(r)
        PROVE  sent' \in [Runs -> 0..MaxTokens] /\ UNCHANGED ended
    BY <1>0, <2>2, SMTT(30) DEF Token
  <2>3. ASSUME NEW r \in Runs, Done(r) \/ Terminate(r)
        PROVE  UNCHANGED sent /\ ended' \in [Runs -> BOOLEAN]
    BY <2>3 DEF Done, Terminate
  <2>4. QED
    BY <2>1, <2>2, <2>3, ChatChanges
<1>3. cancel' \in [Runs -> BOOLEAN]
  BY ChatChanges, Zenon DEF TypeOK, Stop
<1>4. active' \in [Pods -> [Turns -> Runs \cup {None}]] /\ base' \in [Turns -> Nat]
  <2> USE DEF TypeOK
  <2>1. ASSUME NEW r \in Runs, Spawn(r)
        PROVE  <1>4!1 /\ <1>4!2
    <3>1. active' = [active EXCEPT ![Home[r]][Key[r]] = r]
      BY <2>1 DEF Spawn
    <3>2. UNCHANGED base \/ base' = [base EXCEPT ![Key[r]] = Len(log[Key[r]])]
      BY <2>1 DEF Spawn, Reset
    <3>3. Len(log[Key[r]]) \in Nat
      BY <1>0
    <3>4. QED
      BY <1>0, <3>1, <3>2, <3>3
  <2>2. ASSUME NEW r \in Runs, Deregister(r)
        PROVE  <1>4!1 /\ UNCHANGED base
    BY <1>0, <2>2 DEF Deregister
  <2>3. ASSUME NEW p \in Pods, Crash(p)
        PROVE  <1>4!1 /\ UNCHANGED base
    BY <2>3 DEF Crash
  <2>4. QED
    BY <2>1, <2>2, <2>3, ChatChanges
<1>5. lock' \in Runs \cup {None} /\ advert' \in Turns \cup {None}
  BY <1>0, ChatChanges DEF TypeOK, Acquire, AcquireFails, Reannounce, Withdraw, Release, Lapse, Expire, Lose
<1>6. log' \in [Turns -> Seq(Frames)]
  <2>1. ASSUME NEW r \in Runs, NEW kind \in {"token", "done"}, Emit(r, kind)
        PROVE  log' \in [Turns -> Seq(Frames)]
    <3> DEFINE frame == [run |-> r, kind |-> kind]
    <3>1. frame \in Frames /\ Key[r] \in Turns
      BY <1>0 DEF Frames
    <3>2. log' = [log EXCEPT ![Key[r]] = Append(@, frame)] \/ UNCHANGED log
      BY <2>1 DEF Emit
    <3>3. log \in [Turns -> Seq(Frames)]
      BY DEF TypeOK
    <3> HIDE DEF frame
    <3>4. Append(log[Key[r]], frame) \in Seq(Frames)
      BY <3>1, <3>3
    <3>5. QED
      BY <3>1, <3>2, <3>3, <3>4
  <2>2. \/ UNCHANGED log
        \/ \E r \in Runs : Emit(r, "token") \/ Emit(r, "done")
    BY ChatChanges DEF Acknowledge, Persist, Token, Done, Terminate
  <2>3. QED
    BY <2>1, <2>2 DEF TypeOK
<1>7. user' \subseteq Turns /\ answers' \in [Turns -> Nat]
  <2>1. \/ UNCHANGED <<user, answers>>
        \/ \E r \in Runs : /\ user' = user \cup {Key[r]}
                           /\ UNCHANGED answers \/ answers' = [answers EXCEPT ![Key[r]] = @ + 1]
    BY ChatChanges DEF Acknowledge, Persist, Token, Done, Terminate
  <2>2. user \subseteq Turns /\ answers \in [Turns -> Nat] /\ \A r \in Runs : Key[r] \in Turns
    BY <1>0 DEF TypeOK
  <2>3. QED
    BY <2>1, <2>2
<1>8. fwd' \in [Forwarders -> Forwarding]
  <2>0. fwd \in [Forwarders -> Forwarding]
    BY DEF TypeOK, Forwarding, Places
  <2>1. ASSUME NEW f, NEW t \in Turns, NEW c \in Nat, Forward(f, t, c)
        PROVE  fwd' \in [Forwarders -> Forwarding]
    <3>1. CASE fwd' = fwd
      BY <2>0, <3>1
    <3>2. CASE f \in Forwarders /\ fwd' = [fwd EXCEPT ![f] = [at |-> "read", turn |-> t, cursor |-> c, last |-> FALSE, got |-> fwd[f].got]]
      <4>1. fwd[f].got \in SUBSET Nat
        BY <2>0, <3>2 DEF Forwarding
      <4>2. [at |-> "read", turn |-> t, cursor |-> c, last |-> FALSE, got |-> fwd[f].got] \in Forwarding
        BY <4>1 DEF Forwarding, Places
      <4>3. QED
        BY <2>0, <3>2, <4>2
    <3>3. QED
      BY <2>1, <3>1, <3>2 DEF Forward
  <2>2. ASSUME NEW r \in Runs, Join(r) \/ Spawn(r)
        PROVE  fwd' \in [Forwarders -> Forwarding]
    <3>1. Key[r] \in Turns /\ base[Key[r]] \in Nat /\ base'[Key[r]] \in Nat
      BY <1>0, <1>4 DEF TypeOK
    <3>2. Forward(r, Key[r], base[Key[r]]) \/ Forward(r, Key[r], base'[Key[r]])
      BY <2>2 DEF Join, Spawn
    <3>3. QED
      BY <2>1, <3>1, <3>2
  <2>3. ASSUME NEW f \in Forwarders, NEW t \in Turns, Attach(f, t)
        PROVE  fwd' \in [Forwarders -> Forwarding]
    <3>1. fwd[f].cursor \in Nat /\ Forward(f, t, fwd[f].cursor)
      BY <2>0, <2>3 DEF Forwarding, Attach
    <3>2. QED
      BY <2>1, <3>1
  <2>4. ASSUME NEW f \in Forwarders, Read(f)
        PROVE  fwd' \in [Forwarders -> Forwarding]
    <3>1. fwd[f].turn \in Turns
      BY <2>4 DEF Read, TurnKnown
    <3>2. PICK stop \in Unread(f), at \in {"read", "ended"}, got \in SUBSET Nat : ReadTo(f, stop, at, got)
      BY <2>4, <3>1, ReadEffect
    <3>3. stop \in Nat
      BY <3>1, UnreadNat
    <3>4. fwd' = [fwd EXCEPT ![f].cursor = stop, ![f].last = FALSE, ![f].got = got, ![f].at = at]
      BY <3>2 DEF ReadTo
    <3> DEFINE read == [fwd EXCEPT ![f].cursor = stop, ![f].last = FALSE]
    <3>5. read \in [Forwarders -> Forwarding]
      BY <2>0, <3>3 DEF Forwarding
    <3>6. fwd' = [read EXCEPT ![f].got = got, ![f].at = at]
      BY <2>0, <3>4
    <3> HIDE DEF read
    <3>7. QED
      BY <3>5, <3>6, ZenonT(60) DEF Forwarding, Places
  <2>5. ASSUME NEW f \in Forwarders, ReadEmpty(f) \/ Ask(f) \/ Disconnect(f)
        PROVE  fwd' \in [Forwarders -> Forwarding]
    <3>1. PICK at \in Places, last \in BOOLEAN :
            fwd' = [fwd EXCEPT ![f].at = at, ![f].last = last]
      BY <2>0, <2>5 DEF ReadEmpty, Ask, Disconnect, Places, Forwarding
    <3>2. QED
      BY <2>0, <3>1, ZenonT(60) DEF Forwarding
  <2>6. ASSUME NEW p \in Pods, Crash(p)
        PROVE  fwd' \in [Forwarders -> Forwarding]
    BY <2>0, <2>6 DEF Crash, Forwarding, Places
  <2>7. QED
    BY <2>0, <2>2, <2>3, <2>4, <2>5, <2>6, ChatChanges DEF FwdStep
<1>9. faults' \in 0..MaxFaults /\ busFailed' \in BOOLEAN
  BY ChatFaults DEF TypeOK
<1>10. QED
  BY <1>1, <1>2, <1>3, <1>4, <1>5, <1>6, <1>7, <1>8, <1>9 DEF TypeOK, Forwarding, Places
-----------------------------------------------------------------------------
(* The buffer of a turn. *)

(* A run that appends no frame any more, and one that was ever begun.       *)
Silent(r) == ended[r] \/ pc[r] = "over"
Begun(r)  == pc[r] \notin {"new", "never"}

(* A frame belongs to a run of its turn, and a terminal one is the last of  *)
(* its run.                                                                 *)
Emitted ==
    /\ \A r \in Runs : ended[r] => pc[r] \in {"post", "unwind", "over"}
    /\ \A t \in Turns : \A i \in 1..Len(log[t]) :
          /\ Key[log[t][i].run] = t /\ Begun(log[t][i].run)
          /\ log[t][i].kind = "done" => ended[log[t][i].run]
    /\ \A t \in Turns : \A i, j \in 1..Len(log[t]) :
          i < j /\ log[t][i].kind = "done" => log[t][j].run # log[t][i].run

(* A run whose frames a reset has dropped is over, and no frame of it is    *)
(* kept.                                                                    *)
Dropped ==
    \A t \in Turns :
        /\ base[t] <= Len(log[t])
        /\ \A i \in 1..base[t] : Silent(log[t][i].run)
        /\ \A i \in 1..base[t], j \in base[t] + 1 .. Len(log[t]) : log[t][i].run # log[t][j].run

(* What a step does to a run.                                               *)
LEMMA RunsGoOn ==
    ASSUME TypeOK, Emitted, [Next]_vars, NEW r \in Runs
    PROVE  /\ Begun(r) => Begun(r)'
           /\ ended[r] => ended'[r]
           /\ Silent(r) => Silent(r)'
           /\ ended'[r] => pc'[r] \in {"post", "unwind", "over"}
<1> DEFINE Goal == /\ Begun(r) => Begun(r)'
                   /\ pc[r] = "over" => pc'[r] = "over"
                   /\ pc[r] \in {"post", "unwind", "over"} => pc'[r] \in {"post", "unwind", "over"}
<1>1. Goal
  <2> USE DEF Begun, Goto, TypeOK
  <2>1. CASE UNCHANGED pc
    BY <2>1
  <2>2. ASSUME NEW s \in Runs, Join(s) \/ Spawn(s) \/ Acquire(s) \/ AcquireFails(s) \/ GiveUp(s)
        PROVE  Goal
    BY <2>2 DEF Join, Spawn, Acquire, AcquireFails, GiveUp
  <2>3. ASSUME NEW s \in Runs, Check(s) \/ Persist(s) \/ Done(s) \/ Deregister(s)
        PROVE  Goal
    BY <2>3 DEF Check, Persist, Done, Deregister
  <2>4. ASSUME NEW s \in Runs, Acknowledge(s) \/ Fail(s) \/ Post(s)
        PROVE  Goal
    BY <2>4 DEF Acknowledge, Fail, Post, Leave
  <2>5. ASSUME NEW s \in Runs, Subscribe(s) \/ Withdraw(s) \/ Release(s)
        PROVE  Goal
    BY <2>5 DEF Subscribe, Withdraw, Release
  <2>6. ASSUME NEW p \in Pods, Crash(p)
        PROVE  Goal
    BY <2>6 DEF Crash, Alive
  <2>7. QED
    BY <2>1, <2>2, <2>3, <2>4, <2>5, <2>6, ChatChanges
<1>2. \/ ended'[r] = ended[r]
      \/ ended'[r] /\ pc'[r] \in {"post", "unwind", "over"}
  <2> USE DEF Goto, TypeOK
  <2>1. CASE UNCHANGED ended
    BY <2>1
  <2>2. ASSUME NEW s \in Runs, Token(s)
        PROVE  UNCHANGED ended
    BY <2>2 DEF Token
  <2>3. ASSUME NEW s \in Runs, Done(s)
        PROVE  <1>2
    BY <2>3 DEF Done
  <2>4. ASSUME NEW s \in Runs, Terminate(s)
        PROVE  <1>2
    BY <2>4 DEF Terminate
  <2>5. QED
    BY <2>1, <2>2, <2>3, <2>4, ChatChanges
<1>3. QED
  BY <1>1, <1>2 DEF Emitted, Silent

(* Frame i of turn t is new, and run r has just appended it.                *)
Appends(r, t, i) ==
    /\ Key[r] = t /\ log'[t][i].run = r
    /\ i = Len(log[t]) + 1
    /\ Begun(r) /\ ~Silent(r)
    /\ log'[t][i].kind = "done" => ended'[r]
    /\ UNCHANGED <<base, fwd>>

(* Frames are only appended, by a run that is under way. *)
LEMMA LogGrows ==
    ASSUME TypeOK, TypeOK', Emitted, [Next]_vars, NEW t \in Turns
    PROVE  /\ Len(log[t]) \in Nat /\ Len(log'[t]) \in Nat
           /\ Len(log[t]) <= Len(log'[t])
           /\ \A i \in 1..Len(log[t]) : log'[t][i] = log[t][i]
           /\ \A i \in 1..Len(log'[t]) : i > Len(log[t]) => \E r \in Runs : Appends(r, t, i)
<1>1. log[t] \in Seq(Frames) /\ log'[t] \in Seq(Frames) /\ log \in [Turns -> Seq(Frames)]
  BY DEF TypeOK
<1>2. Len(log[t]) \in Nat /\ Len(log'[t]) \in Nat
  BY <1>1
<1>3. CASE log' = log
  BY <1>2, <1>3
<1>4. ASSUME NEW r \in Runs, NEW kind \in {"token", "done"},
             Emit(r, kind), log' # log, Begun(r), ~Silent(r), kind = "done" => ended'[r],
             UNCHANGED <<base, fwd>>
      PROVE  /\ Len(log[t]) <= Len(log'[t])
             /\ \A i \in 1..Len(log[t]) : log'[t][i] = log[t][i]
             /\ \A i \in 1..Len(log'[t]) : i > Len(log[t]) => \E s \in Runs : Appends(s, t, i)
  <2> DEFINE frame == [run |-> r, kind |-> kind]
  <2>1. log' = [log EXCEPT ![Key[r]] = Append(@, frame)]
    BY <1>4 DEF Emit
  <2>2. frame.run = r /\ frame.kind = kind /\ frame \in Frames
    BY DEF Frames
  <2> HIDE DEF frame
  <2>3. CASE Key[r] = t
    <3>1. log'[t] = Append(log[t], frame)
      BY <1>1, <2>1, <2>3
    <3>2. /\ Len(log'[t]) = Len(log[t]) + 1
          /\ \A i \in 1..Len(log[t]) : log'[t][i] = log[t][i]
          /\ log'[t][Len(log[t]) + 1] = frame
      BY <1>1, <2>2, <3>1
    <3>3. Appends(r, t, Len(log[t]) + 1)
      BY <1>4, <2>2, <2>3, <3>2 DEF Appends
    <3>4. \A i \in 1..Len(log'[t]) : i > Len(log[t]) => i = Len(log[t]) + 1
      BY <1>2, <3>2
    <3>5. QED
      BY <1>2, <3>2, <3>3, <3>4
  <2>4. CASE Key[r] # t
    <3>1. log'[t] = log[t]
      BY <1>1, <2>1, <2>4
    <3>2. QED
      BY <1>2, <3>1
  <2>5. QED
    BY <2>3, <2>4
<1>5. log' = log \/ \E r \in Runs : Acknowledge(r) \/ Persist(r) \/ Token(r) \/ Done(r) \/ Terminate(r)
  BY ChatChanges
<1>6. ASSUME NEW r \in Runs, Acknowledge(r) \/ Persist(r) \/ Token(r)
      PROVE  Emit(r, "token") /\ Begun(r) /\ ~Silent(r) /\ UNCHANGED <<base, fwd>>
  BY <1>6 DEF Acknowledge, Persist, Token, Begun, Silent, Emitted
<1>7. ASSUME NEW r \in Runs, Done(r) \/ Terminate(r)
      PROVE  Emit(r, "done") /\ Begun(r) /\ ~Silent(r) /\ ended'[r] /\ UNCHANGED <<base, fwd>>
  BY <1>7, SMTT(30) DEF Done, Terminate, Begun, Silent, Emitted, TypeOK
<1>8. QED
  BY <1>2, <1>3, <1>4, <1>5, <1>6, <1>7
LEMMA FrameTyped ==
    ASSUME TypeOK, NEW t \in Turns, NEW i \in 1..Len(log[t])
    PROVE  log[t][i].run \in Runs
<1>1. log[t] \in Seq(Frames)
  BY DEF TypeOK
<1>2. log[t][i] \in Frames
  BY <1>1
<1>3. QED
  BY <1>2 DEF Frames

(* A step keeps what is known of the frames. *)
LEMMA ChatEmitted ==
    ASSUME TypeOK, TypeOK', Emitted, [Next]_vars
    PROVE  Emitted'
<1>1. \A r \in Runs : ended'[r] => pc'[r] \in {"post", "unwind", "over"}
  BY RunsGoOn
<1>2. ASSUME NEW t \in Turns, NEW i \in 1..Len(log'[t])
      PROVE  /\ Key[log'[t][i].run] = t /\ Begun(log[t][i].run)'
             /\ log'[t][i].kind = "done" => ended'[log'[t][i].run]
  <2>1. CASE i <= Len(log[t])
    <3>1. i \in 1..Len(log[t]) /\ log'[t][i] = log[t][i]
      BY <2>1, LogGrows
    <3>2. log[t][i].run \in Runs
      BY <3>1, FrameTyped
    <3>3. Begun(log[t][i].run)' /\ (ended[log[t][i].run] => ended'[log[t][i].run])
      <4> PICK q \in Runs : q = log[t][i].run
        BY <3>2
      <4>1. Begun(q)
        BY <3>1 DEF Emitted
      <4>2. Begun(q)' /\ (ended[q] => ended'[q])
        BY <4>1, RunsGoOn
      <4>3. log'[t][i].run = q
        BY <3>1
      <4>4. QED
        BY <4>2, <4>3 DEF Begun
    <3>4. Key[log[t][i].run] = t /\ (log[t][i].kind = "done" => ended[log[t][i].run])
      BY <3>1 DEF Emitted
    <3>5. QED
      BY <3>1, <3>3, <3>4
  <2>2. CASE i > Len(log[t])
    <3>1. PICK r \in Runs : Appends(r, t, i)
      BY <2>2, LogGrows
    <3>2. Begun(r)'
      BY <3>1, RunsGoOn DEF Appends
    <3>3. QED
      BY <3>1, <3>2 DEF Appends, Begun
  <2>3. QED
    BY <2>1, <2>2, LogGrows
<1>3. ASSUME NEW t \in Turns, NEW i \in 1..Len(log'[t]), NEW j \in 1..Len(log'[t]),
             i < j, log'[t][i].kind = "done"
      PROVE  log'[t][j].run # log'[t][i].run
  <2>0. Len(log[t]) \in Nat /\ Len(log'[t]) \in Nat /\ Len(log'[t]) <= Len(log[t]) + 1
    <3>1. Len(log[t]) \in Nat /\ Len(log'[t]) \in Nat
      BY LogGrows
    <3>2. CASE Len(log'[t]) > Len(log[t])
      <4>1. Len(log'[t]) \in 1..Len(log'[t])
        BY <3>1, <3>2
      <4>2. \E r \in Runs : Appends(r, t, Len(log'[t]))
        BY <3>2, <4>1, LogGrows
      <4>3. QED
        BY <3>1, <4>2 DEF Appends
    <3>3. QED
      BY <3>1, <3>2
  <2>1. i \in 1..Len(log[t]) /\ log'[t][i] = log[t][i]
    BY <1>3, <2>0, LogGrows
  <2>2. CASE j <= Len(log[t])
    <3>1. j \in 1..Len(log[t]) /\ log'[t][j] = log[t][j]
      BY <2>0, <2>2, LogGrows
    <3>2. QED
      BY <1>3, <2>1, <3>1 DEF Emitted
  <2>3. CASE j > Len(log[t])
    <3>1. PICK r \in Runs : Appends(r, t, j)
      BY <2>3, LogGrows
    <3>2. log'[t][j].run = r /\ ~ended[r]
      BY <3>1 DEF Appends, Silent
    <3>3. ended[log[t][i].run]
      BY <1>3, <2>1 DEF Emitted
    <3>4. QED
      BY <2>1, <3>2, <3>3
  <2>4. QED
    BY <2>0, <2>2, <2>3
<1>4. QED
  BY <1>1, <1>2, <1>3 DEF Emitted, Begun

(* A reset drops the frames of runs that are over: the client regenerates   *)
(* only an answer that has ended.                                           *)
LEMMA ResetIsLate ==
    ASSUME ~Overlap, TypeOK, Emitted, [Next]_vars, base' # base
    PROVE  \E r \in Regenerates :
              /\ Spawn(r)
              /\ base' = [base EXCEPT ![Key[r]] = Len(log[Key[r]])]
              /\ UNCHANGED log
              /\ \A q \in Runs : q # r /\ Key[q] = Key[r] /\ Begun(q) => Silent(q)
              /\ \A i \in 1..Len(log[Key[r]]) : Silent(log[Key[r]][i].run)
<1>1. PICK r \in Runs : Spawn(r)
  BY ChatChanges DEF Deregister, Crash
<1>2. /\ r \in Regenerates /\ pc[r] = "new" /\ MayStart(r)
      /\ base' = [base EXCEPT ![Key[r]] = Len(log[Key[r]])]
      /\ UNCHANGED log
  BY <1>1 DEF Spawn, Reset
<1>3. \A q \in Runs : q # r /\ Key[q] = Key[r] /\ Begun(q) => Silent(q)
  BY <1>2 DEF MayStart, Begun, Silent
<1>4. ASSUME NEW i \in 1..Len(log[Key[r]])
      PROVE  Silent(log[Key[r]][i].run)
  <2> PICK q : q = log[Key[r]][i].run
    OBVIOUS
  <2>0. Key[r] \in Turns
    BY ChatAssumption
  <2>2. q \in Runs
    BY <2>0, FrameTyped
  <2>3. Key[q] = Key[r] /\ Begun(q)
    BY <2>0 DEF Emitted
  <2>4. q # r
    BY <1>2, <2>3 DEF Begun
  <2>5. QED
    BY <1>3, <2>2, <2>3, <2>4
<1>5. QED
  BY <1>1, <1>2, <1>3, <1>4

LEMMA ChatDropped ==
    ASSUME ~Overlap, TypeOK, TypeOK', Emitted, Dropped, [Next]_vars
    PROVE  Dropped' /\ \A t \in Turns : base[t] <= base'[t]
<1> SUFFICES ASSUME NEW t \in Turns
             PROVE  /\ base[t] <= base'[t]
                    /\ base'[t] <= Len(log'[t])
                    /\ \A i \in 1..base'[t] : Silent(log[t][i].run)'
                    /\ \A i \in 1..base'[t], j \in base'[t] + 1 .. Len(log'[t]) : log'[t][i].run # log'[t][j].run
  BY DEF Dropped
<1>0. /\ Len(log[t]) \in Nat /\ Len(log'[t]) \in Nat /\ base[t] \in Nat /\ base'[t] \in Nat
      /\ Len(log[t]) <= Len(log'[t]) /\ base[t] <= Len(log[t])
      /\ \A i \in 1..Len(log[t]) : log'[t][i] = log[t][i]
  BY LogGrows DEF TypeOK, Dropped
<1>1. \A i \in 1..Len(log[t]) : Silent(log[t][i].run) => Silent(log[t][i].run)'
  <2> SUFFICES ASSUME NEW i \in 1..Len(log[t]), Silent(log[t][i].run)
               PROVE  Silent(log[t][i].run)'
    OBVIOUS
  <2> PICK q : q = log[t][i].run
    OBVIOUS
  <2>2. q \in Runs
    BY FrameTyped
  <2>3. Silent(q)'
    BY <2>2, RunsGoOn
  <2>4. log'[t][i].run = q
    BY <1>0
  <2>5. QED
    BY <2>3, <2>4 DEF Silent
<1>2. CASE base'[t] = base[t]
  <2>1. \A i \in 1..base[t] : Silent(log[t][i].run)'
    BY <1>0, <1>1 DEF Dropped
  <2>2. ASSUME NEW i \in 1..base[t], NEW j \in base[t] + 1 .. Len(log'[t])
        PROVE  log'[t][i].run # log'[t][j].run
    <3>1. i \in 1..Len(log[t]) /\ log'[t][i] = log[t][i] /\ Silent(log[t][i].run)
      BY <1>0 DEF Dropped
    <3>2. CASE j <= Len(log[t])
      <4>1. j \in base[t] + 1 .. Len(log[t]) /\ log'[t][j] = log[t][j]
        BY <1>0, <3>2
      <4>2. QED
        BY <3>1, <4>1 DEF Dropped
    <3>3. CASE j > Len(log[t])
      <4>1. PICK r \in Runs : Appends(r, t, j)
        BY <1>0, <3>3, LogGrows
      <4>2. QED
        BY <3>1, <4>1 DEF Appends
    <3>4. QED
      BY <1>0, <3>2, <3>3
  <2>3. base[t] <= base'[t] /\ base'[t] <= Len(log'[t])
    BY <1>0, <1>2
  <2>4. \A i \in 1..base'[t] : Silent(log[t][i].run)'
    BY <1>2, <2>1
  <2>5. \A i \in 1..base'[t], j \in base'[t] + 1 .. Len(log'[t]) : log'[t][i].run # log'[t][j].run
    BY <1>2, <2>2
  <2>6. QED
    BY <2>3, <2>4, <2>5
<1>3. CASE base'[t] # base[t]
  <2>1. PICK r \in Regenerates :
           /\ base' = [base EXCEPT ![Key[r]] = Len(log[Key[r]])]
           /\ UNCHANGED log
           /\ \A i \in 1..Len(log[Key[r]]) : Silent(log[Key[r]][i].run)
    BY <1>3, ResetIsLate
  <2>2. Key[r] = t /\ base'[t] = Len(log[t])
    BY <1>3, <2>1 DEF TypeOK
  <2>3. QED
    BY <1>0, <1>1, <2>1, <2>2
<1>4. QED
  BY <1>2, <1>3
-----------------------------------------------------------------------------
(* The forwarders. *)

(* What a step does to forwarder f: nothing to what it has and where it is, *)
(* or its run starts, or it attaches, or it reads.                          *)
Kept(f) ==
    /\ fwd'[f].turn = fwd[f].turn /\ fwd'[f].cursor = fwd[f].cursor /\ fwd'[f].got = fwd[f].got
    /\ \/ fwd'[f].at = fwd[f].at
       \/ fwd[f].at \in {"read", "ask"} /\ fwd'[f].at \in {"read", "ask", "synthetic", "off"}
Started(f) ==
    /\ f \in Runs /\ (Join(f) \/ Spawn(f))
    /\ fwd'[f].at = "read" /\ fwd'[f].turn = Key[f] /\ fwd'[f].cursor = base'[Key[f]]
Attached(f) ==
    /\ f \in Sockets /\ UNCHANGED <<log, base>>
    /\ fwd'[f].at = "read" /\ fwd'[f].turn \in Turns /\ fwd[f].turn \in {fwd'[f].turn, None}
    /\ fwd'[f].cursor = fwd[f].cursor /\ fwd'[f].got = fwd[f].got
Took(f) ==
    /\ fwd[f].at = "read" /\ fwd'[f].at \in {"read", "ended"} /\ UNCHANGED <<log, base>>
    /\ fwd'[f].turn = fwd[f].turn
    /\ fwd'[f].cursor \in Unread(f)
    /\ fwd'[f].got = fwd[f].got \cup {i \in Unread(f) : i <= fwd'[f].cursor}
    /\ fwd'[f].at = "ended" => log[fwd[f].turn][fwd'[f].cursor].kind = "done"

LEMMA ForwarderSteps ==
    ASSUME TypeOK, TurnKnown, [Next]_vars, NEW f \in Forwarders
    PROVE  Kept(f) \/ Started(f) \/ Attached(f) \/ Took(f)
<1>0. fwd \in [Forwarders -> Forwarding]
  BY DEF TypeOK, Forwarding, Places
<1>1. CASE UNCHANGED fwd
  BY <1>1 DEF Kept
<1>2. ASSUME NEW r \in Runs, Join(r) \/ Spawn(r)
      PROVE  Kept(f) \/ Started(f)
  <2>1. Forward(r, Key[r], base'[Key[r]])
    BY <1>2 DEF Join, Spawn, busVars
  <2>2. CASE fwd' = fwd
    BY <2>2 DEF Kept
  <2>3. CASE /\ r \in Forwarders
             /\ fwd' = [fwd EXCEPT ![r] = [at |-> "read", turn |-> Key[r], cursor |-> base'[Key[r]],
                                           last |-> FALSE, got |-> fwd[r].got]]
    <3>1. CASE f = r
      <4>1. fwd'[f] = [at |-> "read", turn |-> Key[r], cursor |-> base'[Key[r]], last |-> FALSE, got |-> fwd[r].got]
        BY <1>0, <2>3, <3>1
      <4>2. QED
        BY <1>2, <3>1, <4>1 DEF Started
    <3>2. CASE f # r
      BY <1>0, <2>3, <3>2 DEF Kept
    <3>3. QED
      BY <3>1, <3>2
  <2>4. QED
    BY <2>1, <2>2, <2>3 DEF Forward
<1>3. ASSUME NEW g \in Forwarders, NEW t \in Turns, Attach(g, t)
      PROVE  Kept(f) \/ Attached(f)
  <2>1. /\ g \in Sockets /\ fwd[g].turn \in {t, None} /\ UNCHANGED <<log, base>>
        /\ Forward(g, t, fwd[g].cursor)
    BY <1>3 DEF Attach, busVars
  <2>2. CASE fwd' = fwd
    BY <2>2 DEF Kept
  <2>3. CASE fwd' = [fwd EXCEPT ![g] = [at |-> "read", turn |-> t, cursor |-> fwd[g].cursor,
                                        last |-> FALSE, got |-> fwd[g].got]]
    <3>1. CASE f = g
      <4>1. fwd'[f] = [at |-> "read", turn |-> t, cursor |-> fwd[f].cursor, last |-> FALSE, got |-> fwd[f].got]
        BY <1>0, <2>3, <3>1
      <4>2. QED
        BY <2>1, <3>1, <4>1 DEF Attached
    <3>2. CASE f # g
      BY <1>0, <2>3, <3>2 DEF Kept
    <3>3. QED
      BY <3>1, <3>2
  <2>4. QED
    BY <2>1, <2>2, <2>3 DEF Forward
<1>4. ASSUME NEW g \in Forwarders, Read(g)
      PROVE  Kept(f) \/ Took(f)
  <2>1. fwd[g].turn \in Turns /\ UNCHANGED <<log, base>>
    BY <1>4 DEF Read, TurnKnown, busVars
  <2>2. PICK stop \in Unread(g), at \in {"read", "ended"}, got \in SUBSET Nat : ReadTo(g, stop, at, got)
    BY <1>4, <2>1, ReadEffect
  <2>3. fwd' = [fwd EXCEPT ![g].cursor = stop, ![g].last = FALSE, ![g].got = got, ![g].at = at]
    BY <2>2 DEF ReadTo
  <2>4. CASE f = g
    <3>1. fwd'[f].cursor = stop /\ fwd'[f].got = got /\ fwd'[f].at = at /\ fwd'[f].turn = fwd[f].turn
      BY <1>0, <2>3, <2>4 DEF Forwarding
    <3>2. QED
      BY <2>1, <2>2, <2>4, <3>1 DEF Took, ReadTo
  <2>5. CASE f # g
    BY <1>0, <2>3, <2>5 DEF Kept
  <2>6. QED
    BY <2>4, <2>5
<1>5. ASSUME NEW g \in Forwarders, ReadEmpty(g) \/ Ask(g) \/ Disconnect(g)
      PROVE  Kept(f)
  <2>1. PICK at \in {"read", "ask", "synthetic", "off"}, last \in BOOLEAN :
           /\ fwd[g].at \in {"read", "ask"}
           /\ fwd' = [fwd EXCEPT ![g].at = at, ![g].last = last]
    BY <1>0, <1>5 DEF ReadEmpty, Ask, Disconnect, Forwarding
  <2>2. QED
    BY <1>0, <2>1 DEF Kept, Forwarding
<1>6. ASSUME NEW p \in Pods, Crash(p)
      PROVE  Kept(f)
  <2>1. fwd'[f] = IF Home[f] = p /\ fwd[f].at \in {"read", "ask"}
                  THEN [fwd[f] EXCEPT !.at = "off"] ELSE fwd[f]
    BY <1>6 DEF Crash
  <2>2. QED
    BY <1>0, <2>1 DEF Kept, Forwarding
<1>7. QED
  BY <1>1, <1>2, <1>3, <1>4, <1>5, <1>6, ChatChanges DEF FwdStep

LEMMA ChatTurnKnown ==
    ASSUME TypeOK, TurnKnown, [Next]_vars
    PROVE  TurnKnown'
<1> SUFFICES ASSUME NEW f \in Forwarders, fwd'[f].at \notin {"unseen", "off"}
             PROVE  fwd'[f].turn \in Turns
  BY DEF TurnKnown
<1>1. CASE Kept(f)
  BY <1>1 DEF Kept, TurnKnown
<1>2. CASE Started(f)
  BY <1>2, ChatAssumption DEF Started
<1>3. CASE Attached(f)
  BY <1>3 DEF Attached
<1>4. CASE Took(f)
  BY <1>4 DEF Took, TurnKnown
<1>5. QED
  BY <1>1, <1>2, <1>3, <1>4, ForwarderSteps

TypeInv == TypeOK /\ TurnKnown

LEMMA ChatTypeInit == Init => TypeInv
<1> SUFFICES ASSUME Init PROVE TypeInv
  OBVIOUS
<1>1. PICK scene \in Scenes :
        /\ pc = [r \in Runs |-> IF r \in scene.runs THEN "new" ELSE "never"]
        /\ fwd = [f \in Forwarders |-> Off(IF f \in scene.watch THEN "off" ELSE "unseen")]
  BY DEF Init
<1>2. fwd \in [Forwarders -> Forwarding]
  <2>1. Off("off") \in Forwarding /\ Off("unseen") \in Forwarding
    BY DEF Off, Forwarding, Places
  <2>2. QED
    BY <1>1, <2>1
<1>3. TurnKnown
  BY <1>1 DEF TurnKnown, Off
<1>4. pc \in [Runs -> Alive \cup {"never", "new", "over"}]
  BY <1>1
<1>5. log \in [Turns -> Seq(Frames)] /\ base \in [Turns -> Nat] /\ answers \in [Turns -> Nat]
  BY DEF Init
<1>6. sent \in [Runs -> 0..MaxTokens] /\ faults \in 0..MaxFaults
  BY ChatAssumption DEF Init
<1>7. /\ ended \in [Runs -> BOOLEAN] /\ cancel \in [Runs -> BOOLEAN] /\ busFailed \in BOOLEAN
      /\ cleanup \in [Runs -> {"none", "withdraw", "release"}]
      /\ active \in [Pods -> [Turns -> Runs \cup {None}]]
      /\ lock \in Runs \cup {None} /\ advert \in Turns \cup {None}
      /\ listening \subseteq Runs /\ user \subseteq Turns
  BY DEF Init
<1>8. QED
  BY <1>2, <1>3, <1>4, <1>5, <1>6, <1>7 DEF TypeInv, TypeOK, Forwarding, Places

(* Every variable of the chat turns keeps its type: the buffers hold frames *)
(* of runs, and a forwarder that reads has a turn to read.                  *)
THEOREM ChatTyped == Spec => []TypeOK
<1>1. TypeInv /\ [Next]_vars => TypeInv'
  BY ChatTypes, ChatTurnKnown DEF TypeInv
<1>2. TypeInv => TypeOK
  BY DEF TypeInv
<1>3. QED
  BY ChatTypeInit, <1>1, <1>2, PTL DEF Spec

-----------------------------------------------------------------------------
(* Replay. *)

(* A forwarder has got all frames from the last reset up to its cursor, and *)
(* the one at the cursor of an ended forwarder is terminal.                 *)
Following ==
    \A f \in Forwarders :
        /\ fwd[f].turn = None => fwd[f].cursor = 0
        /\ fwd[f].turn \in Turns => /\ fwd[f].cursor <= Len(log[fwd[f].turn])
                                    /\ base[fwd[f].turn] + 1 .. fwd[f].cursor \subseteq fwd[f].got
        /\ fwd[f].at = "ended" => /\ fwd[f].cursor \in 1..Len(log[fwd[f].turn])
                                  /\ log[fwd[f].turn][fwd[f].cursor].kind = "done"

ReplayInv == TypeInv /\ Emitted /\ Dropped /\ Following

LEMMA ChatFollowing ==
    ASSUME ~Overlap, ReplayInv, TypeOK', Dropped', [Next]_vars
    PROVE  Following'
<1> USE DEF ReplayInv, TypeInv
<1> SUFFICES ASSUME NEW f \in Forwarders
             PROVE  /\ fwd'[f].turn = None => fwd'[f].cursor = 0
                    /\ fwd'[f].turn \in Turns => /\ fwd'[f].cursor <= Len(log'[fwd'[f].turn])
                                                 /\ base'[fwd'[f].turn] + 1 .. fwd'[f].cursor \subseteq fwd'[f].got
                    /\ fwd'[f].at = "ended" => /\ fwd'[f].cursor \in 1..Len(log'[fwd'[f].turn])
                                               /\ log'[fwd'[f].turn][fwd'[f].cursor].kind = "done"
  BY DEF Following
<1>0. /\ None \notin Turns
      /\ fwd[f].cursor \in Nat /\ fwd'[f].cursor \in Nat
      /\ \A t \in Turns : /\ base[t] \in Nat /\ base'[t] \in Nat /\ base[t] <= base'[t]
                          /\ Len(log[t]) \in Nat /\ Len(log'[t]) \in Nat
                          /\ Len(log[t]) <= Len(log'[t])
                          /\ \A i \in 1..Len(log[t]) : log'[t][i] = log[t][i]
  <2>1. fwd[f].cursor \in Nat
    BY DEF TypeOK
  <2>2. fwd'[f].cursor \in Nat
    BY DEF TypeOK
  <2>3. \A t \in Turns : base[t] \in Nat /\ base'[t] \in Nat
    BY DEF TypeOK
  <2>4. QED
    BY <2>1, <2>2, <2>3, ChatAssumption, LogGrows, ChatDropped
<1>1. CASE Kept(f)
  <2>1. /\ fwd'[f].turn = fwd[f].turn /\ fwd'[f].cursor = fwd[f].cursor /\ fwd'[f].got = fwd[f].got
        /\ fwd'[f].at = "ended" => fwd[f].at = "ended" /\ fwd[f].turn \in Turns
    BY <1>1 DEF Kept, TurnKnown
  <2>2. fwd[f].turn \in Turns => /\ fwd[f].cursor <= Len(log'[fwd[f].turn])
                                 /\ base'[fwd[f].turn] + 1 .. fwd[f].cursor \subseteq fwd[f].got
    BY <1>0 DEF Following
  <2>3. fwd[f].at = "ended" /\ fwd[f].turn \in Turns =>
           /\ fwd[f].cursor \in 1..Len(log'[fwd[f].turn])
           /\ log'[fwd[f].turn][fwd[f].cursor].kind = "done"
    BY <1>0 DEF Following
  <2>4. fwd[f].turn = None => fwd[f].cursor = 0
    BY DEF Following
  <2>5. QED
    BY <2>1, <2>2, <2>3, <2>4
<1>2. CASE Started(f)
  <2>1. Key[f] \in Turns /\ base'[Key[f]] <= Len(log'[Key[f]])
    BY <1>2, ChatAssumption DEF Started, Dropped
  <2>2. QED
    BY <1>0, <1>2, <2>1 DEF Started
<1>3. CASE Attached(f)
  <2>1. fwd'[f].turn \in Turns /\ fwd'[f].cursor = fwd[f].cursor /\ fwd'[f].got = fwd[f].got
    BY <1>3 DEF Attached
  <2>2. /\ fwd[f].cursor <= Len(log'[fwd'[f].turn])
        /\ base'[fwd'[f].turn] + 1 .. fwd[f].cursor \subseteq fwd[f].got
    <3>1. CASE fwd[f].turn = None
      BY <1>0, <2>1, <3>1 DEF Following
    <3>2. CASE fwd[f].turn = fwd'[f].turn
      <4>1. UNCHANGED <<log, base>>
        BY <1>3 DEF Attached
      <4>2. QED
        BY <2>1, <3>2, <4>1 DEF Following
    <3>3. QED
      BY <1>3, <3>1, <3>2 DEF Attached
  <2>3. QED
    BY <1>0, <1>3, <2>1, <2>2 DEF Attached
<1>4. CASE Took(f)
  <2> PICK t : t = fwd[f].turn
    OBVIOUS
  <2>1. /\ t \in Turns /\ fwd'[f].turn = t /\ UNCHANGED <<log, base>>
        /\ fwd'[f].cursor \in Unread(f)
        /\ fwd'[f].got = fwd[f].got \cup {i \in Unread(f) : i <= fwd'[f].cursor}
        /\ fwd'[f].at = "ended" => log[t][fwd'[f].cursor].kind = "done"
    BY <1>4 DEF Took, TurnKnown
  <2>2. Start(f) \in Nat /\ Unread(f) = Start(f) + 1 .. Len(log[t])
    BY <2>1, UnreadNat DEF Unread
  <2>3. fwd'[f].cursor \in 1..Len(log[t])
    BY <1>0, <2>1, <2>2
  <2>4. ASSUME NEW i \in base[t] + 1 .. fwd'[f].cursor
        PROVE  i \in fwd'[f].got
    <3>1. CASE i <= fwd[f].cursor
      <4>1. i \in base[t] + 1 .. fwd[f].cursor
        BY <1>0, <2>1, <3>1
      <4>2. QED
        BY <2>1, <4>1 DEF Following
    <3>2. CASE i > fwd[f].cursor
      <4>1. i > Start(f)
        BY <1>0, <2>1, <3>2 DEF Start
      <4>2. i \in Unread(f)
        BY <1>0, <2>1, <2>2, <2>3, <4>1
      <4>3. QED
        BY <1>0, <2>1, <4>2
    <3>3. QED
      BY <1>0, <2>1, <3>1, <3>2
  <2>5. QED
    BY <1>0, <2>1, <2>3, <2>4
<1>5. QED
  BY <1>1, <1>2, <1>3, <1>4, ForwarderSteps

(* The step to or in the state ended keeps a complete replay. *)
LEMMA ChatReplay ==
    ASSUME ~Overlap, ReplayInv, CompleteReplay, TypeOK', [Next]_vars
    PROVE  CompleteReplay'
<1> USE DEF ReplayInv, TypeInv
<1> SUFFICES ASSUME NEW f \in Forwarders, fwd'[f].at = "ended"
             PROVE  FramesOf(log[fwd[f].turn][fwd[f].cursor].run)' \subseteq fwd'[f].got
  BY DEF CompleteReplay
<1> PICK t : t = fwd[f].turn
  OBVIOUS
<1>1. CASE Kept(f)
  <2>1. /\ fwd[f].at = "ended" /\ t \in Turns
        /\ fwd'[f].turn = t /\ fwd'[f].cursor = fwd[f].cursor /\ fwd'[f].got = fwd[f].got
    BY <1>1 DEF Kept, TurnKnown
  <2>2. fwd[f].cursor \in 1..Len(log[t]) /\ log[t][fwd[f].cursor].kind = "done"
    BY <2>1 DEF Following
  <2> PICK q : q = log[t][fwd[f].cursor].run
    OBVIOUS
  <2>3. q \in Runs /\ Key[q] = t /\ ended[q]
    BY <2>1, <2>2, FrameTyped DEF Emitted
  <2>4. FramesOf(q) \subseteq fwd[f].got
    BY <2>1 DEF CompleteReplay
  <2>5. ASSUME NEW i \in 1..Len(log'[t]), log'[t][i].run = q
        PROVE  i \in FramesOf(q)
    <3>1. CASE i <= Len(log[t])
      <4>1. i \in 1..Len(log[t]) /\ log'[t][i] = log[t][i]
        BY <2>1, <3>1, LogGrows
      <4>2. QED
        BY <2>3, <2>5, <4>1 DEF FramesOf
    <3>2. CASE i > Len(log[t])
      <4>1. PICK r \in Runs : Appends(r, t, i)
        BY <2>1, <3>2, LogGrows
      <4>2. QED
        BY <2>3, <2>5, <4>1 DEF Appends, Silent
    <3>3. QED
      BY <2>1, <3>1, <3>2, LogGrows
  <2>6. log'[t][fwd'[f].cursor].run = q
    BY <2>1, <2>2, LogGrows
  <2>7. \A i \in 1..Len(log'[t]) : log'[t][i].run = q => i \in fwd'[f].got
    BY <2>1, <2>4, <2>5
  <2>8. FramesOf(log[fwd[f].turn][fwd[f].cursor].run)' = {i \in 1..Len(log'[t]) : log'[t][i].run = q}
    BY <2>1, <2>3, <2>6, ZenonT(60) DEF FramesOf
  <2>9. QED
    BY <2>7, <2>8
<1>2. CASE Took(f)
  <2> PICK stop : stop = fwd'[f].cursor
    OBVIOUS
  <2>1. /\ t \in Turns /\ fwd'[f].turn = t /\ UNCHANGED <<log, base>>
        /\ stop \in Unread(f)
        /\ fwd'[f].got = fwd[f].got \cup {i \in Unread(f) : i <= stop}
        /\ log[t][stop].kind = "done"
    BY <1>2 DEF Took, TurnKnown
  <2>2. /\ Start(f) \in Nat /\ Unread(f) = Start(f) + 1 .. Len(log[t])
        /\ base[t] \in Nat /\ fwd[f].cursor \in Nat /\ Len(log[t]) \in Nat
    <3>1. fwd[f].cursor \in Nat
      BY DEF TypeOK
    <3>2. base[t] \in Nat
      BY <2>1 DEF TypeOK
    <3>3. QED
      BY <2>1, <3>1, <3>2, UnreadNat DEF Unread
  <2>3. Start(f) >= base[t] /\ Start(f) >= fwd[f].cursor /\ Start(f) \in {base[t], fwd[f].cursor}
    BY <2>2 DEF Start
  <2>4. stop \in 1..Len(log[t]) /\ stop > base[t]
    BY <2>1, <2>2, <2>3
  <2> PICK q : q = log[t][stop].run
    OBVIOUS
  <2>5. q \in Runs /\ Key[q] = t
    BY <2>1, <2>4, FrameTyped DEF Emitted
  <2>6. ASSUME NEW i \in 1..Len(log[t]), log[t][i].run = q
        PROVE  i \in fwd'[f].got
    <3>1. i > base[t]
      <4>1. base[t] <= Len(log[t])
        BY <2>1 DEF Dropped
      <4>2. stop \in base[t] + 1 .. Len(log[t])
        BY <2>2, <2>4
      <4>3. i \notin 1..base[t]
        BY <2>1, <2>6, <4>2 DEF Dropped
      <4>4. QED
        BY <2>2, <4>3
    <3>2. i <= stop
      <4>1. ~(stop < i)
        BY <2>1, <2>4, <2>6 DEF Emitted
      <4>2. QED
        BY <2>2, <2>4, <4>1
    <3>3. CASE i <= fwd[f].cursor
      <4>1. i \in base[t] + 1 .. fwd[f].cursor
        BY <2>2, <3>1, <3>3
      <4>2. QED
        BY <2>1, <4>1 DEF Following
    <3>4. CASE i > fwd[f].cursor
      <4>1. i \in Unread(f)
        BY <2>2, <2>3, <3>1, <3>4
      <4>2. QED
        BY <2>1, <3>2, <4>1
    <3>5. QED
      BY <2>2, <3>3, <3>4
  <2>7. log'[t][stop].run = q /\ log' = log
    BY <2>1
  <2>8. QED
    BY <2>1, <2>5, <2>6, <2>7 DEF FramesOf
<1>3. CASE Started(f) \/ Attached(f)
  BY <1>3 DEF Started, Attached
<1>4. QED
  BY <1>1, <1>2, <1>3, ForwarderSteps

LEMMA ReplayNext ==
    ASSUME ~Overlap, ReplayInv, [Next]_vars
    PROVE  ReplayInv'
<1>1. TypeOK' /\ TurnKnown'
  BY ChatTypes, ChatTurnKnown DEF ReplayInv, TypeInv
<1>2. Emitted' /\ Dropped'
  BY <1>1, ChatEmitted, ChatDropped DEF ReplayInv, TypeInv
<1>3. Following'
  BY <1>1, <1>2, ChatFollowing
<1>4. QED
  BY <1>1, <1>2, <1>3 DEF ReplayInv, TypeInv

LEMMA ReplayInit == Init => ReplayInv /\ CompleteReplay
<1> SUFFICES ASSUME Init PROVE ReplayInv /\ CompleteReplay
  OBVIOUS
<1>1. TypeInv
  BY ChatTypeInit
<1>2. PICK scene \in Scenes :
        fwd = [f \in Forwarders |-> Off(IF f \in scene.watch THEN "off" ELSE "unseen")]
  BY DEF Init
<1>3. \A f \in Forwarders : fwd[f].turn = None /\ fwd[f].cursor = 0 /\ fwd[f].at \in {"off", "unseen"}
  BY <1>2 DEF Off
<1>4. \A t \in Turns : Len(log[t]) = 0 /\ base[t] = 0
  BY DEF Init
<1>5. Emitted
  BY <1>4 DEF Init, Emitted
<1>6. Dropped
  BY <1>4 DEF Dropped
<1>7. Following /\ CompleteReplay
  BY <1>3, ChatAssumption DEF Following, CompleteReplay
<1>8. QED
  BY <1>1, <1>5, <1>6, <1>7 DEF ReplayInv

(* A forwarder that a terminal frame has ended has sent its client every    *)
(* frame of that run, from any pod, through any number of reconnects and    *)
(* resets, and whatever fails, as long as the client regenerates only an    *)
(* answer that has ended: a reset then drops no frame of a run that goes    *)
(* on, and the cursor never passes a kept frame by.                         *)
THEOREM ChatCompleteReplay ==
    ASSUME ~Overlap
    PROVE  Spec => []CompleteReplay
<1>1. ReplayInv /\ CompleteReplay /\ [Next]_vars => ReplayInv' /\ CompleteReplay'
  <2> SUFFICES ASSUME ReplayInv, CompleteReplay, [Next]_vars PROVE ReplayInv' /\ CompleteReplay'
    OBVIOUS
  <2>1. ReplayInv'
    BY ReplayNext
  <2>2. CompleteReplay'
    BY <2>1, ChatReplay DEF ReplayInv, TypeInv
  <2>3. QED
    BY <2>1, <2>2
<1>2. QED
  BY ReplayInit, <1>1, PTL DEF Spec
-----------------------------------------------------------------------------
(* Regenerates. *)

(* Frame i of its turn is a terminal one of run r. *)
Final(r, i) == i \in FramesOf(r) /\ log[Key[r]][i].kind = "done"

(* A regenerate does not run beside another run of its turn.                *)
Apart ==
    \A r \in Regenerates, q \in Runs :
        q # r /\ Key[q] = Key[r] /\ Begun(q) /\ Begun(r) => Silent(q) \/ Silent(r)

(* The socket of a run follows the turn of the run, and it goes down with   *)
(* the pod of a regenerate that did not end.                                *)
Bound ==
    \A r \in Runs \cap Forwarders :
        /\ fwd[r].turn \in {None, Key[r]}
        /\ fwd[r].at \in {"read", "ask"} => Begun(r)
        /\ r \in Regenerates /\ pc[r] = "over" /\ fwd[r].at \in {"read", "ask"} => ended[r]

(* While the bus fails nobody, a run that ended has its terminal frame, and *)
(* a forwarder of a regenerate has no frame of another run before that.     *)
EndsLogged == \A r \in Runs : ended[r] => \E i \in Nat : Final(r, i)

OwnFirst ==
    \A r \in Regenerates \cap Forwarders : fwd[r].at \in {"read", "ask"} =>
        \A j \in fwd[r].cursor + 1 .. Len(log[Key[r]]) :
            log[Key[r]][j].run = r \/ \E i \in Nat : i <= j /\ Final(r, i)

EndsOnOwn ==
    \A r \in Regenerates \cap Forwarders : fwd[r].at = "ended" =>
        \E i \in Nat : i <= fwd[r].cursor /\ Final(r, i)

AnswerOrder == EndsLogged /\ OwnFirst /\ EndsOnOwn

EndInv == ReplayInv /\ Apart /\ Bound /\ (busFailed \/ AnswerOrder)

(* A run begins when the client may start it, and nothing else happens to   *)
(* runs then.                                                               *)
LEMMA RunBegins ==
    ASSUME TypeOK, [Next]_vars, NEW r \in Runs, ~Begun(r), Begun(r)'
    PROVE  /\ MayStart(r) /\ (r \in Regenerates => Spawn(r))
           /\ \A s \in Runs \ {r} : pc'[s] = pc[s]
           /\ UNCHANGED <<log, ended>>
<1>1. \E s \in Runs : Join(s) \/ Spawn(s)
  <2> USE DEF Begun, Goto, TypeOK
  <2>1. ~UNCHANGED pc
    OBVIOUS
  <2>2. ASSUME NEW s \in Runs, Acquire(s) \/ AcquireFails(s) \/ GiveUp(s) \/ Check(s) \/ Persist(s)
                               \/ Done(s) \/ Deregister(s)
        PROVE  FALSE
    BY <2>2 DEF Acquire, AcquireFails, GiveUp, Check, Persist, Done, Deregister
  <2>3. ASSUME NEW s \in Runs, Acknowledge(s) \/ Fail(s) \/ Post(s)
        PROVE  FALSE
    BY <2>3 DEF Acknowledge, Fail, Post, Leave
  <2>4. ASSUME NEW s \in Runs, Subscribe(s) \/ Withdraw(s) \/ Release(s)
        PROVE  FALSE
    BY <2>4 DEF Subscribe, Withdraw, Release
  <2>5. ASSUME NEW p \in Pods, Crash(p)
        PROVE  FALSE
    BY <2>5 DEF Crash, Alive
  <2>6. QED
    BY <2>1, <2>2, <2>3, <2>4, <2>5, ChatChanges
<1>2. PICK s \in Runs : Join(s) \/ Spawn(s)
  BY <1>1
<1>3. \E l : pc' = [pc EXCEPT ![s] = l]
  BY <1>2 DEF Join, Spawn, Goto
<1>4. s = r
  BY <1>3 DEF Begun, TypeOK
<1>5. MayStart(r) /\ (r \in Regenerates => Spawn(r)) /\ UNCHANGED <<log, ended>>
  BY <1>2, <1>4 DEF Join, Spawn, busVars
<1>6. QED
  BY <1>3, <1>4, <1>5 DEF TypeOK

LEMMA ChatApart ==
    ASSUME ~Overlap, TypeOK, Emitted, Apart, [Next]_vars
    PROVE  Apart'
<1> SUFFICES ASSUME NEW r \in Regenerates, NEW q \in Runs,
                    q # r, Key[q] = Key[r], Begun(q)', Begun(r)'
             PROVE  Silent(q)' \/ Silent(r)'
  BY DEF Apart
<1>0. r \in Runs
  BY ChatAssumption
<1>1. (Silent(q) => Silent(q)') /\ (Silent(r) => Silent(r)')
  BY <1>0, RunsGoOn
<1>2. CASE Begun(q) /\ Begun(r)
  BY <1>1, <1>2 DEF Apart
<1>3. CASE ~Begun(r)
  <2>1. MayStart(r) /\ Begun(q)
    BY <1>0, <1>3, RunBegins DEF Begun
  <2>2. Silent(q)
    BY <2>1 DEF MayStart, Begun, Silent
  <2>3. QED
    BY <1>1, <2>2
<1>4. CASE Begun(r) /\ ~Begun(q)
  <2>1. MayStart(q)
    BY <1>4, RunBegins
  <2>2. Silent(r)
    BY <1>0, <1>4, <2>1 DEF MayStart, Begun, Silent
  <2>3. QED
    BY <1>1, <2>2
<1>5. QED
  BY <1>2, <1>3, <1>4

LEMMA ChatBound ==
    ASSUME TypeOK, TypeOK', TurnKnown, Emitted, Bound, [Next]_vars
    PROVE  Bound'
<1> SUFFICES ASSUME NEW r \in Runs, r \in Forwarders
             PROVE  /\ fwd'[r].turn \in {None, Key[r]}
                    /\ fwd'[r].at \in {"read", "ask"} => Begun(r)'
                    /\ (r \in Regenerates /\ pc'[r] = "over" /\ fwd'[r].at \in {"read", "ask"}) => ended'[r]
  BY DEF Bound
<1>0. r \notin Sockets
  BY ChatAssumption
<1>1. CASE Started(r)
  <2>1. Key[r] = fwd'[r].turn /\ (Join(r) \/ Spawn(r))
    BY <1>1 DEF Started
  <2>2. Begun(r)' /\ (r \in Regenerates => pc'[r] = "waiting")
    BY <2>1 DEF Join, Spawn, Goto, Begun, TypeOK
  <2>3. QED
    BY <2>1, <2>2
<1>2. CASE Kept(r) \/ Took(r)
  <2>1. /\ fwd'[r].turn = fwd[r].turn
        /\ fwd'[r].at \in {"read", "ask"} => fwd[r].at \in {"read", "ask"}
    BY <1>2 DEF Kept, Took
  <2>2. fwd'[r].at \in {"read", "ask"} => Begun(r)'
    BY <2>1, RunsGoOn DEF Bound
  <2>3. ASSUME r \in Regenerates, pc'[r] = "over", fwd'[r].at \in {"read", "ask"}
        PROVE  ended'[r]
    <3>1. CASE pc[r] = "over"
      BY <2>1, <2>3, <3>1, RunsGoOn DEF Bound
    <3>2. CASE pc[r] # "over"
      <4> USE DEF Goto, TypeOK
      <4>1. ~UNCHANGED pc
        BY <2>3, <3>2
      <4>2. ASSUME NEW s \in Runs, Join(s) \/ Spawn(s)
            PROVE  FALSE
        BY <2>3, <3>2, <4>2 DEF Join, Spawn
      <4>3. ASSUME NEW s \in Runs, Acquire(s) \/ AcquireFails(s) \/ GiveUp(s) \/ Check(s) \/ Persist(s)
                                   \/ Done(s)
            PROVE  FALSE
        BY <2>3, <3>2, <4>3 DEF Acquire, AcquireFails, GiveUp, Check, Persist, Done
      <4>4. ASSUME NEW s \in Runs, Acknowledge(s) \/ Fail(s) \/ Post(s)
            PROVE  FALSE
        BY <2>3, <3>2, <4>4 DEF Acknowledge, Fail, Post, Leave
      <4>5. ASSUME NEW s \in Runs, Subscribe(s) \/ Withdraw(s) \/ Release(s)
            PROVE  FALSE
        BY <2>3, <3>2, <4>5 DEF Subscribe, Withdraw, Release
      <4>6. ASSUME NEW p \in Pods, Crash(p)
            PROVE  FALSE
        <5>1. Home[r] = p
          BY <2>3, <3>2, <4>6 DEF Crash
        <5>2. fwd'[r].at \notin {"read", "ask"}
          BY <4>6, <5>1 DEF Crash
        <5>3. QED
          BY <2>3, <5>2
      <4>7. ASSUME NEW s \in Runs, Deregister(s)
            PROVE  ended'[r]
        <5>1. s = r
          BY <2>3, <3>2, <4>7 DEF Deregister
        <5>2. QED
          BY <4>7, <5>1 DEF Deregister
      <4>8. QED
        BY <4>1, <4>2, <4>3, <4>4, <4>5, <4>6, <4>7, ChatChanges
    <3>3. QED
      BY <3>1, <3>2
  <2>4. QED
    BY <2>1, <2>2, <2>3 DEF Bound
<1>3. CASE Attached(r)
  BY <1>0, <1>3 DEF Attached
<1>4. QED
  BY <1>1, <1>2, <1>3, ForwarderSteps

(* A terminal frame stays where it is. *)
LEMMA FinalStays ==
    ASSUME TypeOK, TypeOK', Emitted, [Next]_vars, NEW r \in Runs, NEW i \in Nat, Final(r, i)
    PROVE  Final(r, i)'
<1>1. Key[r] \in Turns
  BY ChatAssumption
<1>2. /\ Len(log[Key[r]]) \in Nat /\ Len(log'[Key[r]]) \in Nat /\ Len(log[Key[r]]) <= Len(log'[Key[r]])
      /\ \A k \in 1..Len(log[Key[r]]) : log'[Key[r]][k] = log[Key[r]][k]
  BY <1>1, LogGrows
<1>3. i \in 1..Len(log[Key[r]]) /\ log[Key[r]][i].run = r /\ log[Key[r]][i].kind = "done"
  BY DEF Final, FramesOf
<1>4. i \in 1..Len(log'[Key[r]]) /\ log'[Key[r]][i].run = r /\ log'[Key[r]][i].kind = "done"
  BY <1>2, <1>3
<1>5. QED
  BY <1>4 DEF Final, FramesOf

LEMMA ChatEndsLogged ==
    ASSUME TypeOK, TypeOK', Emitted, EndsLogged, [Next]_vars, ~busFailed'
    PROVE  EndsLogged'
<1> SUFFICES ASSUME NEW r \in Runs, ended'[r]
             PROVE  \E i \in Nat : Final(r, i)'
  BY DEF EndsLogged
<1>1. CASE ended[r]
  BY <1>1, FinalStays DEF EndsLogged
<1>2. CASE ~ended[r]
  <2>1. PICK s \in Runs : Done(s) \/ Terminate(s)
    BY <1>2, ChatChanges DEF Token
  <2>2. ended' = [ended EXCEPT ![s] = TRUE] /\ Emit(s, "done")
    BY <2>1 DEF Done, Terminate
  <2>3. s = r
    BY <1>2, <2>2 DEF TypeOK
  <2> DEFINE frame == [run |-> r, kind |-> "done"]
  <2>4. log' = [log EXCEPT ![Key[r]] = Append(@, frame)]
    BY <2>2, <2>3 DEF Emit, BusFault
  <2>5. frame.run = r /\ frame.kind = "done"
    OBVIOUS
  <2> HIDE DEF frame
  <2>6. Key[r] \in Turns /\ log[Key[r]] \in Seq(Frames) /\ log \in [Turns -> Seq(Frames)]
    BY ChatAssumption DEF TypeOK
  <2>7. log'[Key[r]] = Append(log[Key[r]], frame)
    BY <2>4, <2>6
  <2>8. /\ Len(log[Key[r]]) + 1 \in 1..Len(log'[Key[r]])
        /\ log'[Key[r]][Len(log[Key[r]]) + 1] = frame
        /\ Len(log[Key[r]]) + 1 \in Nat
    BY <2>6, <2>7
  <2> PICK k \in Nat : k = Len(log[Key[r]]) + 1
    BY <2>8
  <2>9. Final(r, k)'
    BY <2>5, <2>8 DEF Final, FramesOf
  <2>10. QED
    BY <2>9
<1>3. QED
  BY <1>1, <1>2

LEMMA ChatOwnFirst ==
    ASSUME ~Overlap, ReplayInv, TypeOK', Apart, Bound, AnswerOrder, [Next]_vars, ~busFailed'
    PROVE  OwnFirst'
<1> USE DEF ReplayInv, TypeInv
<1> SUFFICES ASSUME NEW r \in Regenerates, r \in Forwarders, fwd'[r].at \in {"read", "ask"},
                    NEW j \in fwd'[r].cursor + 1 .. Len(log'[Key[r]])
             PROVE  log'[Key[r]][j].run = r \/ \E i \in Nat : i <= j /\ Final(r, i)'
  BY DEF OwnFirst
<1> PICK t \in Turns : t = Key[r]
  BY ChatAssumption
<1>0. /\ r \in Runs /\ r \notin Sockets
      /\ fwd[r].cursor \in Nat /\ fwd'[r].cursor \in Nat
      /\ Len(log[t]) \in Nat /\ Len(log'[t]) \in Nat /\ Len(log[t]) <= Len(log'[t])
  <2>1. fwd[r].cursor \in Nat
    BY DEF TypeOK
  <2>2. fwd'[r].cursor \in Nat
    BY DEF TypeOK
  <2>3. QED
    BY <2>1, <2>2, ChatAssumption, LogGrows
<1>1. CASE Started(r)
  <2>1. Spawn(r) /\ fwd'[r].cursor = base'[t]
    BY <1>1 DEF Started, Join
  <2>2. base'[t] = Len(log[t]) /\ log' = log
    <3>1. base' = [base EXCEPT ![t] = Len(log[t])] /\ log' = log
      BY <2>1 DEF Spawn, Reset, BusFault
    <3>2. QED
      BY <3>1 DEF TypeOK
  <2>3. QED
    BY <1>0, <2>1, <2>2
<1>2. CASE Kept(r) \/ Took(r)
  <2>1. /\ fwd[r].at \in {"read", "ask"} /\ fwd[r].cursor <= fwd'[r].cursor
        /\ j \in fwd[r].cursor + 1 .. Len(log'[t])
    <3>1. CASE Kept(r)
      BY <1>0, <3>1 DEF Kept
    <3>2. CASE Took(r)
      <4>1. fwd[r].at = "read" /\ fwd[r].turn \in Turns /\ fwd'[r].cursor \in Unread(r)
        BY <3>2 DEF Took, TurnKnown
      <4>2. /\ Start(r) \in Nat /\ Unread(r) = Start(r) + 1 .. Len(log[fwd[r].turn])
            /\ base[fwd[r].turn] \in Nat /\ Len(log[fwd[r].turn]) \in Nat
        BY <4>1, UnreadNat DEF Unread, TypeOK
      <4>3. Start(r) >= fwd[r].cursor
        BY <1>0, <4>2 DEF Start
      <4>4. QED
        BY <1>0, <4>1, <4>2, <4>3
    <3>3. QED
      BY <1>2, <3>1, <3>2
  <2>2. CASE j <= Len(log[t])
    <3>1. j \in fwd[r].cursor + 1 .. Len(log[t]) /\ j \in 1..Len(log[t])
      BY <1>0, <2>1, <2>2
    <3>2. log[t][j].run = r \/ \E i \in Nat : i <= j /\ Final(r, i)
      BY <2>1, <3>1 DEF AnswerOrder, OwnFirst
    <3>3. log'[t][j] = log[t][j]
      BY <3>1, LogGrows
    <3>4. QED
      BY <1>0, <3>2, <3>3, FinalStays
  <2>3. CASE j > Len(log[t])
    <3>1. j \in 1..Len(log'[t])
      BY <1>0, <2>1
    <3>2. PICK q \in Runs : Appends(q, t, j)
      BY <2>3, <3>1, LogGrows
    <3>3. CASE q = r
      BY <3>2, <3>3 DEF Appends
    <3>4. CASE q # r
      <4>1. Silent(r)
        BY <1>0, <2>1, <3>2, <3>4 DEF Appends, Apart, Bound
      <4>2. ended[r]
        BY <1>0, <2>1, <4>1 DEF Silent, Bound
      <4>3. PICK i \in Nat : Final(r, i)
        BY <1>0, <4>2 DEF AnswerOrder, EndsLogged
      <4>4. i <= j
        BY <1>0, <2>3, <4>3 DEF Final, FramesOf
      <4>5. QED
        BY <1>0, <4>3, <4>4, FinalStays
    <3>5. QED
      BY <3>3, <3>4
  <2>4. QED
    BY <1>0, <2>2, <2>3
<1>3. CASE Attached(r)
  BY <1>0, <1>3 DEF Attached
<1>4. QED
  BY <1>1, <1>2, <1>3, ForwarderSteps

LEMMA ChatEndsOnOwn ==
    ASSUME ReplayInv, TypeOK', Bound, AnswerOrder, [Next]_vars
    PROVE  EndsOnOwn'
<1> USE DEF ReplayInv, TypeInv
<1> SUFFICES ASSUME NEW r \in Regenerates, r \in Forwarders, fwd'[r].at = "ended"
             PROVE  \E i \in Nat : i <= fwd'[r].cursor /\ Final(r, i)'
  BY DEF EndsOnOwn
<1>0. r \in Runs
  BY ChatAssumption
<1>1. CASE Kept(r)
  <2>1. fwd[r].at = "ended" /\ fwd'[r].cursor = fwd[r].cursor
    BY <1>1 DEF Kept
  <2>2. PICK i \in Nat : i <= fwd[r].cursor /\ Final(r, i)
    BY <2>1 DEF AnswerOrder, EndsOnOwn
  <2>3. QED
    BY <1>0, <2>1, <2>2, FinalStays
<1>2. CASE Took(r)
  <2> PICK t : t = Key[r]
    OBVIOUS
  <2> PICK stop : stop = fwd'[r].cursor
    OBVIOUS
  <2>1. /\ fwd[r].turn \in Turns /\ fwd[r].at = "read"
        /\ stop \in Unread(r) /\ log' = log
        /\ log[fwd[r].turn][stop].kind = "done"
    BY <1>2 DEF Took, TurnKnown
  <2>2. fwd[r].turn = t
    BY <1>0, <2>1, ChatAssumption DEF Bound
  <2>3. /\ Start(r) \in Nat /\ Unread(r) = Start(r) + 1 .. Len(log[t])
        /\ base[t] \in Nat /\ Len(log[t]) \in Nat
    BY <2>1, <2>2, UnreadNat DEF Unread, TypeOK
  <2>4. fwd[r].cursor \in Nat
    BY DEF TypeOK
  <2>5. Start(r) >= fwd[r].cursor
    BY <2>2, <2>3, <2>4 DEF Start
  <2>6. stop \in fwd[r].cursor + 1 .. Len(log[t]) /\ stop \in 1..Len(log[t])
    BY <2>1, <2>3, <2>4, <2>5
  <2>7. \E i \in Nat : i <= stop /\ Final(r, i)
    <3>1. CASE log[t][stop].run = r
      BY <2>1, <2>2, <2>6, <3>1 DEF Final, FramesOf
    <3>2. CASE log[t][stop].run # r
      BY <2>1, <2>6, <3>2 DEF AnswerOrder, OwnFirst
    <3>3. QED
      BY <3>1, <3>2
  <2>8. QED
    BY <1>0, <2>7, FinalStays
<1>3. CASE Started(r) \/ Attached(r)
  BY <1>3 DEF Started, Attached
<1>4. QED
  BY <1>1, <1>2, <1>3, ForwarderSteps

(* A socket that asked for a regenerate is not ended before the answer it   *)
(* asked for has: neither a frame of the answer it replaces, nor of a still *)
(* newer one, comes before the terminal frame of its own run.               *)
THEOREM ChatEndsOnNewAnswer ==
    ASSUME ~Overlap
    PROVE  Spec => []EndsOnNewAnswer
<1>1. Init => EndInv
  <2> SUFFICES ASSUME Init PROVE EndInv
    OBVIOUS
  <2>1. PICK scene \in Scenes :
          /\ pc = [r \in Runs |-> IF r \in scene.runs THEN "new" ELSE "never"]
          /\ fwd = [f \in Forwarders |-> Off(IF f \in scene.watch THEN "off" ELSE "unseen")]
    BY DEF Init
  <2>2. \A f \in Forwarders : fwd[f].turn = None /\ fwd[f].at \in {"off", "unseen"}
    BY <2>1 DEF Off
  <2>3. \A r \in Runs : ~Begun(r) /\ ~ended[r] /\ pc[r] # "over"
    BY <2>1 DEF Begun, Init
  <2>4. Apart
    BY <2>3, ChatAssumption DEF Apart
  <2>5. Bound
    BY <2>2, <2>3 DEF Bound
  <2>6. AnswerOrder
    BY <2>2, <2>3 DEF AnswerOrder, EndsLogged, OwnFirst, EndsOnOwn
  <2>7. QED
    BY <2>4, <2>5, <2>6, ReplayInit DEF EndInv
<1>2. EndInv /\ [Next]_vars => EndInv'
  <2> SUFFICES ASSUME EndInv, [Next]_vars PROVE EndInv'
    OBVIOUS
  <2>1. ReplayInv' /\ TypeOK' /\ TypeOK /\ TurnKnown /\ Emitted
    BY ReplayNext DEF EndInv, ReplayInv, TypeInv
  <2>2. Apart' /\ Bound'
    BY <2>1, ChatApart, ChatBound DEF EndInv
  <2>3. CASE ~busFailed'
    <3>1. ~busFailed
      <4>1. faults \in 0..MaxFaults /\ busFailed \in BOOLEAN
        BY <2>1 DEF TypeOK
      <4>2. QED
        BY <2>3, <4>1, ChatFaults
    <3>2. AnswerOrder
      BY <3>1 DEF EndInv
    <3>3. EndsLogged' /\ OwnFirst' /\ EndsOnOwn'
      BY <2>1, <2>3, <3>2, ChatEndsLogged, ChatOwnFirst, ChatEndsOnOwn DEF EndInv, AnswerOrder
    <3>4. QED
      BY <2>1, <2>2, <3>3 DEF EndInv, AnswerOrder
  <2>4. CASE busFailed'
    BY <2>1, <2>2, <2>4 DEF EndInv
  <2>5. QED
    BY <2>3, <2>4
<1>3. EndInv => EndsOnNewAnswer
  BY DEF EndInv, AnswerOrder, EndsOnOwn, EndsOnNewAnswer, Final
<1>4. QED
  BY <1>1, <1>2, <1>3, PTL DEF Spec
-----------------------------------------------------------------------------
(* The last chance of a forwarder. *)

(* While the bus fails nobody, the turn of a run that works is advertised;  *)
(* a forwarder that was told the turn is over, and reads for the last time, *)
(* has frames to read if a run of its turn has begun to stream since.       *)
Advertised == \A r \in Runs : pc[r] \in Coordinating => advert = Key[r]
LastChance ==
    \A f \in Forwarders, r \in Runs :
        fwd[f].at = "read" /\ fwd[f].last /\ Key[r] = fwd[f].turn /\ pc[r] = "stream" => Unread(f) # {}
AsksBefore == \A f \in Forwarders : fwd[f].at = "ask" => ~fwd[f].last

LiveInv == ReplayInv /\ AsksBefore /\ (busFailed \/ (Holds /\ Advertised /\ LastChance))

(* A run works only once it has the lock, and streams only once its user    *)
(* message is stored and acknowledged.                                      *)
LEMMA RunsWork ==
    ASSUME TypeOK, [Next]_vars, NEW r \in Runs
    PROVE  /\ pc'[r] \in Coordinating => pc[r] \in Coordinating \/ Acquire(r) \/ AcquireFails(r)
           /\ pc'[r] = "stream" => pc[r] = "stream" \/ Persist(r)
<1> DEFINE Goal == /\ pc'[r] \in Coordinating => pc[r] \in Coordinating \/ Acquire(r) \/ AcquireFails(r)
                   /\ pc'[r] = "stream" => pc[r] = "stream" \/ Persist(r)
<1> USE DEF Goto, TypeOK, Coordinating
<1>1. CASE UNCHANGED pc
  BY <1>1
<1>2. ASSUME NEW s \in Runs, Join(s) \/ Spawn(s) \/ GiveUp(s) \/ Deregister(s)
      PROVE  Goal
  BY <1>2 DEF Join, Spawn, GiveUp, Deregister
<1>3. ASSUME NEW s \in Runs, Acquire(s) \/ AcquireFails(s)
      PROVE  Goal
  <2>1. pc' = [pc EXCEPT ![s] = "check"]
    BY <1>3 DEF Acquire, AcquireFails
  <2>2. QED
    BY <1>3, <2>1
<1>4. ASSUME NEW s \in Runs, Check(s) \/ Done(s)
      PROVE  Goal
  BY <1>4 DEF Check, Done
<1>5. ASSUME NEW s \in Runs, Persist(s)
      PROVE  Goal
  <2>1. pc[s] = "persist" /\ pc' = [pc EXCEPT ![s] = "stream"]
    BY <1>5 DEF Persist
  <2>2. QED
    BY <1>5, <2>1
<1>6. ASSUME NEW s \in Runs, Acknowledge(s) \/ Fail(s) \/ Post(s)
      PROVE  Goal
  BY <1>6 DEF Acknowledge, Fail, Post, Leave
<1>7. ASSUME NEW s \in Runs, Subscribe(s) \/ Withdraw(s) \/ Release(s)
      PROVE  Goal
  BY <1>7 DEF Subscribe, Withdraw, Release
<1>8. ASSUME NEW p \in Pods, Crash(p)
      PROVE  Goal
  BY <1>8 DEF Crash
<1>9. QED
  BY <1>1, <1>2, <1>3, <1>4, <1>5, <1>6, <1>7, <1>8, ChatChanges

LEMMA ChatAdvertised ==
    ASSUME TypeOK, Holds, Advertised, [Next]_vars, ~busFailed'
    PROVE  Advertised'
<1> SUFFICES ASSUME NEW r \in Runs, pc'[r] \in Coordinating
             PROVE  advert' = Key[r]
  BY DEF Advertised
<1>1. CASE Acquire(r)
  BY <1>1 DEF Acquire, BusFault
<1>2. CASE AcquireFails(r)
  BY <1>2 DEF AcquireFails, BusFault
<1>3. CASE pc[r] \in Coordinating
  <2>1. advert = Key[r] /\ lock = r /\ r # None
    BY <1>3, ChatAssumption DEF Advertised, Holds
  <2>2. CASE UNCHANGED advert
    BY <2>1, <2>2
  <2>3. ASSUME NEW s \in Runs, Acquire(s) \/ AcquireFails(s)
        PROVE  FALSE
    BY <2>1, <2>3 DEF Acquire, AcquireFails, BusFault
  <2>4. ASSUME NEW s \in Runs, Reannounce(s)
        PROVE  advert' = Key[r]
    <3>1. s = r
      BY <2>1, <2>4 DEF Reannounce, Holds
    <3>2. QED
      BY <2>4, <3>1 DEF Reannounce
  <2>5. ASSUME NEW s \in Runs, Withdraw(s)
        PROVE  FALSE
    <3>1. lock = s /\ pc[s] \notin Coordinating
      BY <2>5 DEF Withdraw, Holds
    <3>2. QED
      BY <1>3, <2>1, <3>1
  <2>6. ASSUME NEW s \in Runs, Release(s)
        PROVE  UNCHANGED advert
    BY <2>6 DEF Release
  <2>7. CASE Lapse
    BY <1>3, <2>1, <2>7 DEF Lapse, Expire
  <2>8. CASE Lose
    BY <2>8 DEF Lose, BusFault
  <2>9. QED
    BY <2>1, <2>2, <2>3, <2>4, <2>5, <2>6, <2>7, <2>8, ChatChanges
<1>4. QED
  BY <1>1, <1>2, <1>3, RunsWork

(* What a step does to the last chance of a forwarder. *)
LEMMA LastSteps ==
    ASSUME TypeOK, TurnKnown, [Next]_vars, NEW f \in Forwarders
    PROVE  \/ fwd'[f] = fwd[f]
           \/ fwd'[f].at \in {"read", "off", "ended"} /\ (fwd'[f].at = "read" => ~fwd'[f].last)
           \/ Ask(f) \/ ReadEmpty(f)
<1>0. fwd \in [Forwarders -> Forwarding]
  BY DEF TypeOK, Forwarding, Places
<1>1. CASE UNCHANGED fwd
  BY <1>1
<1>2. ASSUME NEW g, NEW t, NEW c, Forward(g, t, c)
      PROVE  fwd'[f] = fwd[f] \/ (fwd'[f].at = "read" /\ ~fwd'[f].last)
  <2>1. CASE fwd' = fwd
    BY <2>1
  <2>2. CASE fwd' = [fwd EXCEPT ![g] = [at |-> "read", turn |-> t, cursor |-> c, last |-> FALSE, got |-> fwd[g].got]]
    BY <1>0, <2>2
  <2>3. QED
    BY <1>2, <2>1, <2>2 DEF Forward
<1>3. ASSUME NEW r \in Runs, Join(r) \/ Spawn(r)
      PROVE  fwd'[f] = fwd[f] \/ (fwd'[f].at = "read" /\ ~fwd'[f].last)
  BY <1>2, <1>3 DEF Join, Spawn
<1>4. ASSUME NEW g \in Forwarders, NEW t \in Turns, Attach(g, t)
      PROVE  fwd'[f] = fwd[f] \/ (fwd'[f].at = "read" /\ ~fwd'[f].last)
  BY <1>2, <1>4 DEF Attach
<1>5. ASSUME NEW g \in Forwarders, Read(g)
      PROVE  fwd'[f] = fwd[f] \/ (fwd'[f].at \in {"read", "ended"} /\ ~fwd'[f].last)
  <2>1. fwd[g].turn \in Turns
    BY <1>5 DEF Read, TurnKnown
  <2>2. PICK stop \in Unread(g), at \in {"read", "ended"}, got \in SUBSET Nat : ReadTo(g, stop, at, got)
    BY <1>5, <2>1, ReadEffect
  <2>3. fwd' = [fwd EXCEPT ![g].cursor = stop, ![g].last = FALSE, ![g].got = got, ![g].at = at]
    BY <2>2 DEF ReadTo
  <2>4. CASE f = g
    BY <1>0, <2>3, <2>4 DEF Forwarding
  <2>5. CASE f # g
    BY <1>0, <2>3, <2>5
  <2>6. QED
    BY <2>4, <2>5
<1>6. ASSUME NEW g \in Forwarders, Disconnect(g)
      PROVE  fwd'[f] = fwd[f] \/ fwd'[f].at = "off"
  BY <1>0, <1>6 DEF Disconnect, Forwarding
<1>7. ASSUME NEW g \in Forwarders, g # f, Ask(g) \/ ReadEmpty(g)
      PROVE  fwd'[f] = fwd[f]
  BY <1>0, <1>7 DEF Ask, ReadEmpty
<1>8. ASSUME NEW p \in Pods, Crash(p)
      PROVE  fwd'[f] = fwd[f] \/ fwd'[f].at = "off"
  <2>1. fwd'[f] = fwd[f] \/ fwd'[f] = [fwd[f] EXCEPT !.at = "off"]
    BY <1>8 DEF Crash
  <2>2. QED
    BY <1>0, <2>1 DEF Forwarding
<1>9. QED
  BY <1>1, <1>3, <1>4, <1>5, <1>6, <1>7, <1>8, ChatChanges DEF FwdStep

LEMMA ChatAsksBefore ==
    ASSUME TypeOK, TurnKnown, AsksBefore, [Next]_vars
    PROVE  AsksBefore'
<1> SUFFICES ASSUME NEW f \in Forwarders, fwd'[f].at = "ask"
             PROVE  ~fwd'[f].last
  BY DEF AsksBefore
<1>0. fwd \in [Forwarders -> Forwarding]
  BY DEF TypeOK, Forwarding, Places
<1>1. CASE fwd'[f] = fwd[f]
  BY <1>1 DEF AsksBefore
<1>2. CASE Ask(f)
  BY <1>0, <1>2 DEF Ask, Forwarding
<1>3. CASE ReadEmpty(f)
  <2>1. fwd' = [fwd EXCEPT ![f].at = IF fwd[f].last THEN "synthetic" ELSE "ask"]
    BY <1>3 DEF ReadEmpty
  <2>2. CASE fwd[f].last
    BY <1>0, <2>1, <2>2 DEF Forwarding
  <2>3. CASE ~fwd[f].last
    BY <1>0, <2>1, <2>3 DEF Forwarding
  <2>4. QED
    BY <2>2, <2>3
<1>4. QED
  BY <1>1, <1>2, <1>3, LastSteps

LEMMA ChatLastChance ==
    ASSUME ~Overlap, ReplayInv, TypeOK', AsksBefore, Holds, Advertised, LastChance, [Next]_vars, ~busFailed'
    PROVE  LastChance'
<1> USE DEF ReplayInv, TypeInv
<1> SUFFICES ASSUME NEW f \in Forwarders, NEW r \in Runs,
                    fwd'[f].at = "read", fwd'[f].last, Key[r] = fwd'[f].turn, pc'[r] = "stream"
             PROVE  Unread(f)' # {}
  BY DEF LastChance
<1>0. fwd \in [Forwarders -> Forwarding]
  BY DEF TypeOK, Forwarding, Places
<1>1. CASE fwd'[f] = fwd[f]
  <2> PICK t \in Turns : t = Key[r]
    BY ChatAssumption
  <2>1. /\ fwd[f].turn = t /\ fwd'[f].turn = t /\ fwd'[f].cursor = fwd[f].cursor
        /\ fwd[f].cursor \in Nat /\ base[t] \in Nat /\ base'[t] \in Nat
        /\ Len(log[t]) \in Nat /\ Len(log'[t]) \in Nat /\ Len(log[t]) <= Len(log'[t])
        /\ base[t] <= Len(log[t]) /\ fwd[f].cursor <= Len(log[t])
    <3>1. fwd[f].turn = t /\ fwd'[f].turn = t /\ fwd'[f].cursor = fwd[f].cursor
      BY <1>1
    <3>2. fwd[f].cursor \in Nat
      BY <1>0 DEF Forwarding
    <3>3. base[t] \in Nat /\ base'[t] \in Nat
      BY DEF TypeOK
    <3>4. fwd[f].cursor <= Len(log[t])
      BY <3>1 DEF Following
    <3>5. QED
      BY <3>1, <3>2, <3>3, <3>4, LogGrows DEF Dropped
  <2>2. CASE pc[r] = "stream"
    <3>1. Unread(f) # {}
      BY <1>1, <2>2 DEF LastChance
    <3>2. fwd[f].cursor < Len(log[t]) /\ base[t] < Len(log[t])
      BY <2>1, <3>1 DEF Unread, Start
    <3>3. base'[t] = base[t]
      <4> SUFFICES ASSUME base'[t] # base[t] PROVE FALSE
        OBVIOUS
      <4>1. PICK s \in Regenerates :
               /\ Spawn(s)
               /\ base' = [base EXCEPT ![Key[s]] = Len(log[Key[s]])]
               /\ \A q \in Runs : q # s /\ Key[q] = Key[s] /\ Begun(q) => Silent(q)
        BY ResetIsLate
      <4>2. Key[s] = t /\ r # s
        BY <2>2, <4>1 DEF TypeOK, Spawn
      <4>3. Begun(r) /\ ~Silent(r)
        BY <2>2 DEF Begun, Silent, Emitted
      <4>4. QED
        BY <4>1, <4>2, <4>3
    <3>4. Start(f)' < Len(log'[t])
      BY <2>1, <3>2, <3>3 DEF Start
    <3>5. Start(f)' \in Nat
      BY <2>1 DEF Start
    <3>6. Unread(f)' = (Start(f)' + 1)..Len(log'[t])
      BY <2>1 DEF Unread
    <3>7. Start(f)' + 1 \in (Start(f)' + 1)..Len(log'[t])
      BY <2>1, <3>4, <3>5
    <3>8. QED
      BY <3>6, <3>7
  <2>3. CASE Persist(r)
    <3>1. Emit(r, "token") /\ base' = base
      BY <2>3 DEF Persist
    <3> DEFINE frame == [run |-> r, kind |-> "token"]
    <3>2. log' = [log EXCEPT ![t] = Append(@, frame)]
      BY <3>1 DEF Emit, BusFault
    <3> HIDE DEF frame
    <3>3. log \in [Turns -> Seq(Frames)]
      BY DEF TypeOK
    <3>4. log'[t] = Append(log[t], frame) /\ log[t] \in Seq(Frames)
      BY <3>2, <3>3
    <3>5. Len(log'[t]) = Len(log[t]) + 1
      BY <3>4
    <3>6. Start(f)' \in Nat /\ Start(f)' < Len(log'[t])
      BY <2>1, <3>1, <3>5 DEF Start
    <3>7. Unread(f)' = (Start(f)' + 1)..Len(log'[t])
      BY <2>1 DEF Unread
    <3>8. Start(f)' + 1 \in (Start(f)' + 1)..Len(log'[t])
      BY <2>1, <3>6
    <3>9. QED
      BY <3>7, <3>8
  <2>4. QED
    BY <2>2, <2>3, RunsWork
<1>2. CASE Ask(f)
  <2>1. fwd[f].at = "ask" /\ ~fwd[f].last /\ UNCHANGED <<pc, advert>>
    BY <1>2 DEF Ask, AsksBefore, runVars, busVars
  <2>2. CASE fwd' = [fwd EXCEPT ![f].at = "read"]
    BY <1>0, <2>1, <2>2 DEF Forwarding
  <2>3. CASE LooksOver(Home[f], fwd[f].turn) /\ fwd' = [fwd EXCEPT ![f].at = "read", ![f].last = TRUE]
    <3>1. advert # fwd[f].turn
      BY <2>3 DEF LooksOver, BusFault
    <3>2. fwd'[f].turn = fwd[f].turn
      BY <1>0, <2>3 DEF Forwarding
    <3>3. advert = Key[r]
      BY <2>1 DEF Advertised, Coordinating
    <3>4. QED
      BY <3>1, <3>2, <3>3
  <2>4. QED
    BY <1>2, <2>2, <2>3 DEF Ask
<1>3. CASE ReadEmpty(f)
  <2>1. fwd'[f].at \in {"synthetic", "ask"}
    BY <1>0, <1>3 DEF ReadEmpty, Forwarding
  <2>2. QED
    BY <2>1
<1>4. QED
  BY <1>1, <1>2, <1>3, LastSteps

(* No forwarder tells its client that a turn is over while a run of the     *)
(* turn streams, as long as the bus fails nobody: a forwarder that was told *)
(* so by a stale table or advertisement reads once more, and a run that has *)
(* started in between has left a frame for it by then.                      *)
THEOREM ChatNoFalseEnd ==
    ASSUME ~Overlap
    PROVE  Spec => NoFalseEnd
<1>1. Init => LiveInv
  <2> SUFFICES ASSUME Init PROVE LiveInv
    OBVIOUS
  <2>1. PICK scene \in Scenes :
          /\ pc = [r \in Runs |-> IF r \in scene.runs THEN "new" ELSE "never"]
          /\ fwd = [f \in Forwarders |-> Off(IF f \in scene.watch THEN "off" ELSE "unseen")]
    BY DEF Init
  <2>2. \A f \in Forwarders : fwd[f].at \in {"off", "unseen"}
    BY <2>1 DEF Off
  <2>3. Advertised /\ AsksBefore /\ LastChance
    BY <2>1, <2>2 DEF Advertised, AsksBefore, LastChance, Coordinating
  <2>4. Holds
    BY <2>1 DEF Init, Holds, Coordinating
  <2>5. QED
    BY <2>3, <2>4, ReplayInit DEF LiveInv
<1>2. LiveInv /\ [Next]_vars => LiveInv'
  <2> SUFFICES ASSUME LiveInv, [Next]_vars PROVE LiveInv'
    OBVIOUS
  <2>1. ReplayInv' /\ ReplayInv /\ TypeOK' /\ TypeOK /\ TurnKnown
    BY ReplayNext DEF LiveInv, ReplayInv, TypeInv
  <2>2. AsksBefore'
    BY <2>1, ChatAsksBefore DEF LiveInv
  <2>3. RunTypes
    BY <2>1 DEF RunTypes, TypeOK
  <2>4. CASE ~busFailed'
    <3>1. ~busFailed
      <4>1. faults \in 0..MaxFaults /\ busFailed \in BOOLEAN
        BY <2>1 DEF TypeOK
      <4>2. QED
        BY <2>4, <4>1, ChatFaults
    <3>2. Holds' /\ Advertised' /\ LastChance'
      BY <2>1, <2>3, <2>4, <3>1, ChatHolds, ChatAdvertised, ChatLastChance DEF LiveInv
    <3>3. QED
      BY <2>1, <2>2, <3>2 DEF LiveInv
  <2>5. CASE busFailed'
    BY <2>1, <2>2, <2>5 DEF LiveInv
  <2>6. QED
    BY <2>4, <2>5
<1> DEFINE Honest ==
       \A f \in Forwarders :
          fwd[f].at # "synthetic" /\ fwd'[f].at = "synthetic" /\ ~busFailed' =>
             \A r \in Runs : Key[r] = fwd[f].turn => pc[r] # "stream"
<1>3. LiveInv /\ [Next]_vars => Honest
  <2> SUFFICES ASSUME LiveInv, [Next]_vars, NEW f \in Forwarders, NEW r \in Runs,
                      fwd[f].at # "synthetic", fwd'[f].at = "synthetic", ~busFailed',
                      Key[r] = fwd[f].turn, pc[r] = "stream"
               PROVE  FALSE
    OBVIOUS
  <2>0. TypeOK /\ TurnKnown /\ AsksBefore /\ fwd \in [Forwarders -> Forwarding]
    BY DEF LiveInv, ReplayInv, TypeInv, TypeOK, Forwarding, Places
  <2>1. ReadEmpty(f)
    <3>1. ~Ask(f)
      BY <2>0 DEF Ask, Forwarding
    <3>2. QED
      BY <2>0, <3>1, LastSteps
  <2>2. fwd[f].at = "read" /\ Unread(f) = {} /\ busFailed' = busFailed
    BY <2>1 DEF ReadEmpty, BusFault, NoFault
  <2>3. fwd[f].last
    BY <2>0, <2>1 DEF ReadEmpty, Forwarding
  <2>4. QED
    BY <2>2, <2>3 DEF LiveInv, LastChance
<1> HIDE DEF Honest
<1>4. LiveInv /\ [Next]_vars => [Honest]_vars
  BY <1>3
<1>5. Spec => [][Honest]_vars
  BY <1>1, <1>2, <1>4, PTL DEF Spec
<1>6. QED
  BY <1>5 DEF NoFalseEnd, Honest
=============================================================================

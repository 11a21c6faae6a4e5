----------------------- MODULE ChannelListener_proofs ------------------------
(***************************************************************************)
(* Proofs about ChannelListener for any number of pods, messages and        *)
(* faults.                                                                  *)
(***************************************************************************)
EXTENDS ChannelListener, TLAPS

Working == {"profiles", "trigger"}

(* A subscription has polled no more than has arrived, and a pod that       *)
(* dispatches has taken the message from its stream.                        *)
InOrder ==
    /\ \A p \in Pods : handled[p] <= cursor[p] /\ cursor[p] <= arrived
    /\ \A p \in Pods : pc[p] \in Working => handled[p] < cursor[p]
    /\ \A m \in Named : ClaimKey(m) \in claims => m <= arrived

(* No stream, now or later, yields message m.                               *)
Past(m) == m <= arrived /\ \A p \in Pods : pc[p] \in Open => m <= handled[p]

(* A pod that dispatches holds the claim, and it alone dispatches; what was *)
(* dispatched is claimed until no stream yields it any more.                *)
Claimed ==
    /\ \A p \in Pods : (pc[p] \in Working /\ Current(p) \in Named) =>
          /\ ClaimKey(Current(p)) \in claims
          /\ triggers[Current(p)] = 0
          /\ pc[p] = "profiles" => profiles[Current(p)] = 0
          /\ \A q \in Pods : (pc[q] \in Working /\ Current(q) = Current(p)) => q = p
    /\ \A m \in Named : (profiles[m] > 0 \/ triggers[m] > 0) => (ClaimKey(m) \in claims \/ Past(m))
    /\ \A m \in Named : profiles[m] <= 1 /\ triggers[m] <= 1

ClaimInv == TypeOK /\ InOrder /\ (busFailed \/ Claimed)

(* Distinct messages that have an id have distinct claim keys. *)
LEMMA KeysDistinct ==
    ASSUME NEW m \in Named, NEW n \in Named, ClaimKey(m) = ClaimKey(n)
    PROVE  m = n
  BY ChannelAssumption DEF ClaimKey

LEMMA ChannelInit == Init => ClaimInv
<1> SUFFICES ASSUME Init PROVE ClaimInv
  OBVIOUS
<1>1. TypeOK
  <2>1. claims \subseteq {ClaimKey(m) : m \in Named}
    BY DEF Init
  <2>2. arrived \in 0..N /\ faults \in 0..MaxFaults
    BY ChannelAssumption DEF Init
  <2>3. cursor \in [Pods -> 0..N] /\ handled \in [Pods -> 0..N]
    BY ChannelAssumption DEF Init
  <2>4. pc \in [Pods -> Open \cup {"contend", "subscribe", "release"}]
    BY DEF Init
  <2>5. QED
    BY <2>1, <2>2, <2>3, <2>4 DEF Init, TypeOK
<1>2. InOrder
  BY DEF Init, InOrder, Working
<1>3. Claimed
  BY DEF Init, Claimed, Working, Named
<1>4. QED
  BY <1>1, <1>2, <1>3 DEF ClaimInv

-----------------------------------------------------------------------------
(* A step keeps the types. *)
LEMMA ChannelTypes ==
    ASSUME TypeOK, InOrder, [Next]_vars
    PROVE  TypeOK'
<1>0. N \in Nat /\ MaxFaults \in Nat
  BY ChannelAssumption
<1> USE <1>0 DEF TypeOK, Goto, Open
<1>1. CASE Arrive
  BY <1>1 DEF Arrive
<1>2. ASSUME NEW p \in Pods, Contend(p) PROVE TypeOK'
  BY <1>2 DEF Contend, Fault
<1>3. ASSUME NEW p \in Pods, Prime(p) PROVE TypeOK'
  BY <1>3 DEF Prime
<1>4. ASSUME NEW p \in Pods, Poll(p) PROVE TypeOK'
  <2>1. (cursor[p] + 1 .. arrived) \subseteq Messages
    BY SMTT(30) DEF Messages
  <2>2. QED
    BY <1>4, <2>1 DEF Poll
<1>5. ASSUME NEW p \in Pods, PollFails(p) PROVE TypeOK'
  BY <1>5 DEF PollFails, Fault
<1>6. ASSUME NEW p \in Pods, Release(p) PROVE TypeOK'
  <2>1. faults' \in 0..MaxFaults
    BY <1>6 DEF Release, Fault
  <2>2. lease' \in Pods \cup {None, Gone}
    BY <1>6 DEF Release
  <2>3. QED
    BY <1>6, <2>1, <2>2 DEF Release
<1>7. ASSUME NEW p \in Pods, Stall(p) PROVE TypeOK'
  BY <1>7 DEF Stall, Fault
<1>8. ASSUME NEW p \in Pods, Deposed(p) \/ Crash(p) PROVE TypeOK'
  <2>1. Pending(p) \subseteq Messages
    BY DEF Pending, Messages, InOrder
  <2>2. CASE Deposed(p)
    BY <2>1, <2>2 DEF Deposed
  <2>3. CASE Crash(p)
    BY <2>1, <2>3 DEF Crash, Fault
  <2>4. QED
    BY <1>8, <2>2, <2>3
<1>9. ASSUME NEW p \in Pods, Proceed(p) PROVE TypeOK'
  <2>1. claims' \subseteq {ClaimKey(m) : m \in Named}
    BY <1>9 DEF Proceed
  <2>2. faults' \in 0..MaxFaults
    BY <1>9 DEF Proceed, Fault, BusFault
  <2>3. busFailed' \in BOOLEAN
    BY <1>9, Zenon DEF Proceed, BusFault
  <2>4. /\ pc' = [pc EXCEPT ![p] = "profiles"]
        /\ UNCHANGED <<arrived, cursor, handled, lease, profiles, triggers, received, excused>>
    BY <1>9 DEF Proceed
  <2>5. QED
    BY <2>1, <2>2, <2>3, <2>4
<1>10. ASSUME NEW p \in Pods, Skip(p) PROVE TypeOK'
  <2>1. Current(p) \in 0..N
    BY <1>10 DEF Skip, Named, Messages
  <2>2. QED
    BY <1>10, <2>1 DEF Skip
<1>11. ASSUME NEW p \in Pods, DispatchToProfiles(p) \/ DispatchTrigger(p) PROVE TypeOK'
  <2>1. Current(p) \in Messages /\ Current(p) \in 0..N
    BY <1>11 DEF DispatchToProfiles, DispatchTrigger, Current, Working, InOrder, Messages
  <2>2. CASE DispatchToProfiles(p)
    <3>0. Dispatch(Current(p), profiles)
      BY <2>2 DEF DispatchToProfiles
    <3>1. profiles' \in [Messages -> Nat]
      BY <2>1, <3>0 DEF Dispatch
    <3>2. excused' \subseteq Messages
      BY <2>1, <3>0 DEF Dispatch
    <3>3. faults' \in 0..MaxFaults
      BY <3>0 DEF Dispatch, Fault
    <3>4. QED
      BY <2>2, <3>1, <3>2, <3>3 DEF DispatchToProfiles
  <2>3. CASE DispatchTrigger(p)
    <3>0. Dispatch(Current(p), triggers)
      BY <2>3 DEF DispatchTrigger
    <3>1. triggers' \in [Messages -> Nat]
      BY <2>1, <3>0 DEF Dispatch
    <3>2. excused' \subseteq Messages
      BY <2>1, <3>0 DEF Dispatch
    <3>3. faults' \in 0..MaxFaults
      BY <3>0 DEF Dispatch, Fault
    <3>4. QED
      BY <2>1, <2>3, <3>1, <3>2, <3>3 DEF DispatchTrigger
  <2>4. QED
    BY <1>11, <2>2, <2>3
<1>12. CASE Expire
  BY <1>12 DEF Expire
<1>13. CASE BusRestart
  BY <1>13 DEF BusRestart, Fault, BusFault
<1>14. ASSUME NEW m \in Messages, ExpireClaim(m) PROVE TypeOK'
  BY <1>14 DEF ExpireClaim
<1>15. CASE UNCHANGED vars
  BY <1>15 DEF vars
<1>16. QED
  BY <1>1, <1>2, <1>3, <1>4, <1>5, <1>6, <1>7, <1>8, <1>9, <1>10, <1>11, <1>12,
     <1>13, <1>14, <1>15 DEF Next, PodStep

(* A step keeps the order of polling and handling. *)
LEMMA ChannelOrder ==
    ASSUME TypeOK, InOrder, [Next]_vars
    PROVE  InOrder'
<1> USE DEF TypeOK, InOrder, Goto, Working
<1>1. CASE Arrive \/ Expire \/ BusRestart \/ UNCHANGED vars
  <2>1. \A m \in Named : m \in Int /\ ClaimKey(m)' = ClaimKey(m)
    BY DEF Named, Messages, ClaimKey
  <2>2. /\ UNCHANGED <<pc, cursor, handled>>
        /\ claims' \subseteq claims
        /\ arrived' \in Int /\ arrived <= arrived'
    <3>1. CASE Arrive
      BY <3>1 DEF Arrive
    <3>2. CASE Expire
      BY <3>2 DEF Expire
    <3>3. CASE BusRestart
      BY <3>3 DEF BusRestart
    <3>4. CASE UNCHANGED vars
      BY <3>4 DEF vars
    <3>5. QED
      BY <1>1, <3>1, <3>2, <3>3, <3>4
  <2>3. \A p \in Pods : handled'[p] <= cursor'[p] /\ cursor'[p] <= arrived'
    BY <2>2
  <2>4. \A p \in Pods : pc'[p] \in Working => handled'[p] < cursor'[p]
    BY <2>2
  <2>5. \A m \in Named : ClaimKey(m)' \in claims' => m <= arrived'
    BY <2>1, <2>2
  <2>6. QED
    BY <2>3, <2>4, <2>5
<1>2. ASSUME NEW p \in Pods, Contend(p) \/ Prime(p) \/ Poll(p) \/ PollFails(p)
      PROVE  InOrder'
  BY <1>2 DEF Contend, Prime, Poll, PollFails, ClaimKey
<1>3. ASSUME NEW p \in Pods, Release(p) \/ Stall(p) \/ Deposed(p) \/ Crash(p)
      PROVE  InOrder'
  BY <1>3 DEF Release, Stall, Deposed, Crash, ClaimKey
<1>4. ASSUME NEW p \in Pods, Proceed(p)
      PROVE  InOrder'
  <2>1. handled[p] < cursor[p] /\ Current(p) <= arrived
    BY <1>4 DEF Proceed, Pending, Current
  <2>2. \A q \in Pods : pc'[q] \in Working => handled'[q] < cursor'[q]
    BY <1>4, <2>1 DEF Proceed
  <2>3. ASSUME NEW n \in Named, ClaimKey(n) \in claims'
        PROVE  n <= arrived
    <3>1. CASE ClaimKey(n) \in claims
      BY <3>1
    <3>2. CASE ClaimKey(n) \notin claims
      <4>1. Current(p) \in Named /\ ClaimKey(n) = ClaimKey(Current(p))
        BY <1>4, <2>3, <3>2 DEF Proceed
      <4>2. n = Current(p)
        BY <4>1, KeysDistinct
      <4>3. QED
        BY <4>2, <2>1
    <3>3. QED
      BY <3>1, <3>2
  <2>4. QED
    BY <1>4, <2>2, <2>3 DEF Proceed, ClaimKey
<1>5. ASSUME NEW p \in Pods, Skip(p) \/ DispatchToProfiles(p) \/ DispatchTrigger(p)
      PROVE  InOrder'
  <2>1. handled[p] < cursor[p]
    BY <1>5 DEF Skip, DispatchToProfiles, DispatchTrigger, Pending
  <2>2. QED
    BY <1>5, <2>1 DEF Skip, DispatchToProfiles, DispatchTrigger, Current, ClaimKey
<1>6. ASSUME NEW m \in Messages, ExpireClaim(m)
      PROVE  InOrder'
  BY <1>6 DEF ExpireClaim, ClaimKey
<1>7. QED
  BY <1>1, <1>2, <1>3, <1>4, <1>5, <1>6 DEF Next, PodStep

(* While the bus keeps its keys, a step keeps the claims. *)
LEMMA ChannelClaims ==
    ASSUME TypeOK, InOrder, TypeOK', InOrder', Claimed, [Next]_vars, ~busFailed'
    PROVE  Claimed'
<1>0. /\ N \in Nat
      /\ \A p \in Pods : handled[p] \in Nat /\ cursor[p] \in Nat /\ Current(p) \in Nat
      /\ arrived \in Nat
      /\ \A m \in Named : m \in Nat /\ profiles[m] \in Nat /\ triggers[m] \in Nat
  BY ChannelAssumption, SMTT(30) DEF TypeOK, Named, Messages, Current
<1> USE <1>0 DEF Goto, Working, Open
<1>1. CASE Arrive
  BY <1>1, SMTT(30) DEF Arrive, Claimed, Past, ClaimKey, Current
<1>2. CASE Expire \/ UNCHANGED vars
  BY <1>2 DEF Expire, vars, Claimed, Past, ClaimKey, Current
<1>3. CASE BusRestart
  BY <1>3 DEF BusRestart, BusFault
<1>4. ASSUME NEW p \in Pods, Contend(p) \/ Release(p) \/ PollFails(p) \/ Stall(p)
                              \/ Deposed(p) \/ Crash(p)
      PROVE  Claimed'
  <2>1. /\ UNCHANGED <<arrived, handled, claims, profiles, triggers>>
        /\ \A q \in Pods : pc'[q] \in Open => pc'[q] = pc[q]
    BY <1>4 DEF Contend, Release, PollFails, Stall, Deposed, Crash, TypeOK
  <2>2. QED
    BY <2>1 DEF Claimed, Past, ClaimKey, Current
<1>5. ASSUME NEW p \in Pods, Prime(p)
      PROVE  Claimed'
  BY <1>5 DEF Prime, TypeOK, Claimed, Past, ClaimKey, Current
<1>6. ASSUME NEW p \in Pods, Poll(p)
      PROVE  Claimed'
  BY <1>6 DEF Poll, Claimed, Past, ClaimKey, Current
<1>7. ASSUME NEW p \in Pods, Skip(p)
      PROVE  Claimed'
  BY <1>7 DEF Skip, TypeOK, Claimed, Past, ClaimKey, Current
<1>8. ASSUME NEW p \in Pods, Proceed(p)
      PROVE  Claimed'
  <2>1. handled[p] < Current(p) /\ pc[p] = "drain"
    BY <1>8 DEF Proceed, Current
  <2>2. /\ UNCHANGED <<arrived, handled, profiles, triggers>>
        /\ pc' = [pc EXCEPT ![p] = "profiles"]
        /\ claims \subseteq claims'
    BY <1>8 DEF Proceed
  <2>3. Current(p) \in Named => /\ ClaimKey(Current(p)) \notin claims
                                /\ ClaimKey(Current(p)) \in claims'
    BY <1>8 DEF Proceed, BusFault
  <2>4. Current(p) \in Named => profiles[Current(p)] = 0 /\ triggers[Current(p)] = 0
    BY <2>1, <2>3 DEF Claimed, Past
  <2>5. Current(p) \in Named =>
          \A q \in Pods : pc[q] \in Working => Current(q) # Current(p)
    BY <2>3 DEF Claimed
  <2>6. \A m \in Named : Past(m) => Past(m)'
    BY <2>1, <2>2 DEF Past, TypeOK
  <2>7. QED
    BY <2>1, <2>2, <2>3, <2>4, <2>5, <2>6 DEF Claimed, TypeOK, ClaimKey, Current
<1>9. ASSUME NEW p \in Pods, DispatchToProfiles(p)
      PROVE  Claimed'
  <2>1. /\ UNCHANGED <<arrived, handled, claims, triggers>>
        /\ pc[p] = "profiles" /\ pc' = [pc EXCEPT ![p] = "trigger"]
    BY <1>9 DEF DispatchToProfiles
  <2>2. \A m \in Named : \/ profiles'[m] = profiles[m]
                         \/ m = Current(p) /\ profiles'[m] = profiles[m] + 1
    BY <1>9 DEF DispatchToProfiles, Dispatch, TypeOK, Named
  <2>3. \A m \in Named : Past(m) => Past(m)'
    BY <2>1 DEF Past, TypeOK
  <2>4. /\ \A q \in Pods : Current(q)' = Current(q)
        /\ \A q \in Pods : pc'[q] \in Working => pc[q] \in Working
        /\ \A q \in Pods : pc'[q] = "profiles" => q # p
        /\ \A m \in Named : ClaimKey(m)' = ClaimKey(m)
    BY <2>1 DEF Current, ClaimKey, TypeOK
  <2>5. ASSUME NEW q \in Pods, pc'[q] \in Working, Current(q) \in Named
        PROVE  /\ ClaimKey(Current(q)) \in claims
               /\ triggers[Current(q)] = 0
               /\ pc'[q] = "profiles" => profiles'[Current(q)] = 0
               /\ \A r \in Pods : (pc'[r] \in Working /\ Current(r) = Current(q)) => r = q
    <3>1. pc'[q] = "profiles" => pc[q] = "profiles" /\ Current(q) # Current(p)
      BY <2>1, <2>4, <2>5 DEF Claimed, TypeOK
    <3>2. QED
      BY <2>2, <2>4, <2>5, <3>1 DEF Claimed
  <2>6. ASSUME NEW m \in Named
        PROVE  /\ profiles'[m] <= 1 /\ triggers[m] <= 1
               /\ (profiles'[m] > 0 \/ triggers[m] > 0) => (ClaimKey(m) \in claims \/ Past(m))
    <3>1. CASE profiles'[m] = profiles[m]
      BY <3>1 DEF Claimed
    <3>2. CASE m = Current(p) /\ profiles'[m] = profiles[m] + 1
      <4>1. ClaimKey(m) \in claims /\ triggers[m] = 0 /\ profiles[m] = 0
        BY <2>1, <3>2 DEF Claimed
      <4>2. QED
        BY <3>2, <4>1
    <3>3. QED
      BY <2>2, <3>1, <3>2
  <2>7. /\ \A q \in Pods : (pc'[q] \in Working /\ Current(q)' \in Named) =>
             /\ ClaimKey(Current(q)') \in claims'
             /\ triggers'[Current(q)'] = 0
             /\ pc'[q] = "profiles" => profiles'[Current(q)'] = 0
             /\ \A r \in Pods : (pc'[r] \in Working /\ Current(r)' = Current(q)') => r = q
    BY <2>1, <2>4, <2>5
  <2>8. \A m \in Named : (profiles'[m] > 0 \/ triggers'[m] > 0) => (ClaimKey(m) \in claims' \/ Past(m)')
    BY <2>1, <2>3, <2>6
  <2>9. \A m \in Named : profiles'[m] <= 1 /\ triggers'[m] <= 1
    BY <2>1, <2>6
  <2>10. QED
    BY <2>7, <2>8, <2>9 DEF Claimed, ClaimKey
<1>10. ASSUME NEW p \in Pods, DispatchTrigger(p)
       PROVE  Claimed'
  <2>1. /\ UNCHANGED <<arrived, claims, profiles>>
        /\ pc[p] = "trigger" /\ pc' = [pc EXCEPT ![p] = "drain"]
        /\ handled' = [handled EXCEPT ![p] = Current(p)]
    BY <1>10 DEF DispatchTrigger
  <2>2. \A m \in Named : \/ triggers'[m] = triggers[m]
                         \/ m = Current(p) /\ triggers'[m] = triggers[m] + 1
    BY <1>10 DEF DispatchTrigger, Dispatch, TypeOK, Named
  <2>3. \A m \in Named : Past(m) => Past(m)'
    BY <2>1 DEF Past, TypeOK, Current
  <2>4. \A q \in Pods : pc'[q] \in Working => q # p /\ pc'[q] = pc[q] /\ Current(q)' = Current(q)
    BY <2>1 DEF TypeOK, Current
  <2>5. ASSUME NEW q \in Pods, pc'[q] \in Working, Current(q) \in Named
        PROVE  /\ ClaimKey(Current(q)) \in claims
               /\ triggers'[Current(q)] = 0
               /\ pc'[q] = "profiles" => profiles[Current(q)] = 0
               /\ \A r \in Pods : (pc'[r] \in Working /\ Current(r) = Current(q)) => r = q
    <3>1. pc[q] = pc'[q] /\ Current(q) # Current(p)
      BY <2>1, <2>4, <2>5 DEF Claimed
    <3>2. QED
      BY <2>2, <2>4, <2>5, <3>1 DEF Claimed
  <2>6. ASSUME NEW m \in Named
        PROVE  /\ profiles[m] <= 1 /\ triggers'[m] <= 1
               /\ (profiles[m] > 0 \/ triggers'[m] > 0) => (ClaimKey(m) \in claims \/ Past(m))
    <3>1. CASE triggers'[m] = triggers[m]
      BY <3>1 DEF Claimed
    <3>2. CASE m = Current(p) /\ triggers'[m] = triggers[m] + 1
      <4>1. ClaimKey(m) \in claims /\ triggers[m] = 0 /\ profiles[m] <= 1
        BY <2>1, <3>2 DEF Claimed
      <4>2. QED
        BY <3>2, <4>1
    <3>3. QED
      BY <2>2, <3>1, <3>2
  <2>7. /\ \A q \in Pods : (pc'[q] \in Working /\ Current(q)' \in Named) =>
             /\ ClaimKey(Current(q)') \in claims'
             /\ triggers'[Current(q)'] = 0
             /\ pc'[q] = "profiles" => profiles'[Current(q)'] = 0
             /\ \A r \in Pods : (pc'[r] \in Working /\ Current(r)' = Current(q)') => r = q
    BY <2>1, <2>4, <2>5
  <2>8. \A m \in Named : (profiles'[m] > 0 \/ triggers'[m] > 0) => (ClaimKey(m) \in claims' \/ Past(m)')
    BY <2>1, <2>3, <2>6
  <2>9. \A m \in Named : profiles'[m] <= 1 /\ triggers'[m] <= 1
    BY <2>1, <2>6
  <2>10. QED
    BY <2>7, <2>8, <2>9 DEF Claimed, ClaimKey
<1>11. ASSUME NEW m \in Messages, ExpireClaim(m)
       PROVE  Claimed'
  <2>1. /\ UNCHANGED <<arrived, pc, handled, profiles, triggers>>
        /\ m \in Named /\ claims' = claims \ {ClaimKey(m)}
    BY <1>11 DEF ExpireClaim
  <2>2. Past(m)
    BY <1>11 DEF ExpireClaim, Past, InOrder
  <2>3. \A n \in Named : ClaimKey(n) \in claims => ClaimKey(n) \in claims' \/ n = m
    BY <2>1, KeysDistinct
  <2>4. \A q \in Pods : pc[q] \in Working => Current(q) # m
    BY <2>2 DEF Past, Current
  <2>5. \A n \in Named : Past(n) => Past(n)'
    BY <2>1 DEF Past
  <2>6. \A q \in Pods : Current(q)' = Current(q)
    BY <2>1 DEF Current
  <2>7. QED
    BY <2>1, <2>2, <2>3, <2>4, <2>5, <2>6 DEF Claimed, ClaimKey
<1>12. QED
  BY <1>1, <1>2, <1>3, <1>4, <1>5, <1>6, <1>7, <1>8, <1>9, <1>10, <1>11 DEF Next, PodStep

(* A message becomes at most one set of jobs, however many pods drain the   *)
(* channel, stall, crash or come back, as long as the bus keeps its keys:   *)
(* the claim of a message outlasts every stream that can still yield it.    *)
THEOREM ChannelDispatchesOnce == Spec => []DispatchedOnce
<1>1. ClaimInv /\ [Next]_vars => ClaimInv'
  <2> SUFFICES ASSUME ClaimInv, [Next]_vars PROVE ClaimInv'
    OBVIOUS
  <2>1. TypeOK' /\ InOrder'
    BY ChannelTypes, ChannelOrder DEF ClaimInv
  <2>2. busFailed' = TRUE \/ busFailed' = busFailed
    BY DEF Next, PodStep, vars, Arrive, Contend, Prime, Poll, PollFails, Deposed, Release,
           Proceed, Skip, DispatchToProfiles, DispatchTrigger, Stall, Crash, Expire,
           ExpireClaim, BusRestart, BusFault
  <2>3. QED
    BY <2>1, <2>2, ChannelClaims DEF ClaimInv
<1>2. ClaimInv => DispatchedOnce
  BY DEF ClaimInv, Claimed, DispatchedOnce
<1>3. QED
  BY ChannelInit, <1>1, <1>2, PTL DEF Spec
-----------------------------------------------------------------------------
(* The outcome of message m no longer depends on the streams. *)
Settled(m) == profiles[m] > 0 \/ m \in excused

(* A pod that is at the triggers has settled its message, and a claim was   *)
(* taken by a pod that settles the message or still works on it.            *)
Owned ==
    /\ \A p \in Pods : pc[p] = "trigger" => Settled(Current(p))
    /\ \A m \in Named : ClaimKey(m) \in claims =>
          Settled(m) \/ \E p \in Pods : pc[p] \in Working /\ Current(p) = m

YieldInv == TypeOK /\ InOrder /\ Owned /\ YieldedIsDispatched

(* What is settled stays settled.                                           *)
LEMMA SettledStays ==
    ASSUME TypeOK, InOrder, [Next]_vars, NEW m \in Messages, Settled(m)
    PROVE  Settled(m)'
<1>1. excused \subseteq excused'
  BY DEF Next, PodStep, vars, Arrive, Contend, Prime, Poll, PollFails, Deposed, Release,
         Proceed, Skip, DispatchToProfiles, DispatchTrigger, Dispatch, Stall, Crash, Expire,
         ExpireClaim, BusRestart
<1>2. profiles'[m] = profiles[m] \/ profiles'[m] = profiles[m] + 1
  <2>1. CASE UNCHANGED profiles
    BY <2>1
  <2>2. ASSUME NEW p \in Pods, DispatchToProfiles(p)
        PROVE  profiles'[m] = profiles[m] \/ profiles'[m] = profiles[m] + 1
    BY <2>2 DEF DispatchToProfiles, Dispatch, TypeOK
  <2>3. UNCHANGED profiles \/ \E p \in Pods : DispatchToProfiles(p)
    BY DEF Next, PodStep, vars, Arrive, Contend, Prime, Poll, PollFails, Deposed, Release,
           Proceed, Skip, DispatchTrigger, Stall, Crash, Expire, ExpireClaim, BusRestart
  <2>4. QED
    BY <2>1, <2>2, <2>3
<1>3. profiles[m] \in Nat
  BY DEF TypeOK
<1>4. QED
  BY <1>1, <1>2, <1>3 DEF Settled

(* The pod that holds a claim settles the message, and no other step takes  *)
(* the work from it.                                                        *)
LEMMA ChannelOwners ==
    ASSUME TypeOK, InOrder, Owned, [Next]_vars
    PROVE  Owned'
<1>0. /\ \A m \in Messages : Settled(m) => Settled(m)'
      /\ \A m \in Named : m \in Messages /\ ClaimKey(m)' = ClaimKey(m)
      /\ \A p \in Pods : handled[p] \in Nat /\ cursor[p] \in Nat /\ handled[p] <= cursor[p]
      /\ \A p \in Pods : pc[p] \in Working => Current(p) \in Messages
      /\ pc \in [Pods -> Open \cup {"contend", "subscribe", "release"}]
  <2>1. \A p \in Pods : pc[p] \in Working => Current(p) \in Messages
    BY ChannelAssumption DEF TypeOK, InOrder, Current, Messages
  <2>2. \A p \in Pods : handled[p] \in Nat /\ cursor[p] \in Nat /\ handled[p] <= cursor[p]
    BY ChannelAssumption DEF TypeOK, InOrder
  <2>3. QED
    BY <2>1, <2>2, SettledStays DEF Named, ClaimKey, TypeOK
<1> USE <1>0 DEF Goto, Working
<1>1. ASSUME claims' \subseteq claims,
             \A p \in Pods : pc[p] \in Working \/ pc'[p] \in Working =>
                pc'[p] = pc[p] /\ handled'[p] = handled[p]
      PROVE  Owned'
  BY <1>1 DEF Owned, Current
<1>2. CASE Arrive \/ Expire \/ BusRestart \/ UNCHANGED vars
  BY <1>1, <1>2 DEF Arrive, Expire, BusRestart, vars
<1>3. ASSUME NEW p \in Pods, Contend(p) \/ Prime(p) \/ Poll(p) \/ PollFails(p) \/ Deposed(p)
                             \/ Release(p) \/ Stall(p) \/ Skip(p)
      PROVE  Owned'
  BY <1>1, <1>3 DEF Contend, Prime, Poll, PollFails, Deposed, Release, Stall, Skip, TypeOK
<1>4. ASSUME NEW m \in Messages, ExpireClaim(m)
      PROVE  Owned'
  BY <1>1, <1>4 DEF ExpireClaim
<1>5. ASSUME NEW p \in Pods, Proceed(p)
      PROVE  Owned'
  <2>1. /\ pc[p] = "drain" /\ pc' = [pc EXCEPT ![p] = "profiles"] /\ handled' = handled
    BY <1>5 DEF Proceed
  <2>2. /\ pc'[p] = "profiles"
        /\ \A q \in Pods : q # p => pc'[q] = pc[q]
        /\ \A q \in Pods : Current(q)' = Current(q)
    BY <2>1 DEF Current
  <2>3. \A m \in Named : ClaimKey(m) \in claims' => ClaimKey(m) \in claims \/ m = Current(p)
    BY <1>5, KeysDistinct DEF Proceed
  <2>4. \A q \in Pods : pc'[q] = "trigger" => Settled(Current(q))'
    BY <2>1, <2>2 DEF Owned
  <2>5. \A m \in Named : ClaimKey(m)' \in claims' =>
          Settled(m)' \/ \E q \in Pods : pc'[q] \in Working /\ Current(q)' = m
    BY <2>1, <2>2, <2>3 DEF Owned
  <2>6. QED
    BY <2>4, <2>5 DEF Owned
<1>6. ASSUME NEW p \in Pods, DispatchToProfiles(p)
      PROVE  Owned'
  <2>1. /\ pc[p] = "profiles" /\ pc' = [pc EXCEPT ![p] = "trigger"]
        /\ handled' = handled /\ claims' = claims
    BY <1>6 DEF DispatchToProfiles
  <2>2. Settled(Current(p))'
    <3>1. Dispatch(Current(p), profiles)
      BY <1>6 DEF DispatchToProfiles
    <3>2. Current(p)' = Current(p) /\ Current(p) \in Messages
      BY <2>1 DEF Current
    <3>3. profiles[Current(p)] \in Nat /\ DOMAIN profiles = Messages
      BY <3>2 DEF TypeOK
    <3>4. QED
      BY <3>1, <3>2, <3>3 DEF Dispatch, Settled
  <2>3. \A q \in Pods : Current(q)' = Current(q) /\ (q # p => pc'[q] = pc[q])
    BY <2>1 DEF Current
  <2>4. QED
    BY <2>1, <2>2, <2>3 DEF Owned
<1>7. ASSUME NEW p \in Pods, DispatchTrigger(p)
      PROVE  Owned'
  <2>1. /\ pc[p] = "trigger" /\ pc' = [pc EXCEPT ![p] = "drain"]
        /\ handled' = [handled EXCEPT ![p] = Current(p)] /\ claims' = claims
    BY <1>7 DEF DispatchTrigger
  <2>2. \A q \in Pods : q # p => pc'[q] = pc[q] /\ Current(q)' = Current(q)
    BY <2>1 DEF Current, TypeOK
  <2>3. Settled(Current(p))
    BY <2>1 DEF Owned
  <2>4. QED
    BY <2>1, <2>2, <2>3 DEF Owned
<1>8. ASSUME NEW p \in Pods, Crash(p)
      PROVE  Owned'
  <2>1. /\ pc' = [pc EXCEPT ![p] = "contend"] /\ handled' = handled /\ claims' = claims
        /\ excused' = excused \cup Pending(p)
    BY <1>8 DEF Crash
  <2>2. \A q \in Pods : Current(q)' = Current(q) /\ (q # p => pc'[q] = pc[q])
    BY <2>1 DEF Current
  <2>3. pc[p] \in Working => Settled(Current(p))'
    BY <2>1, <2>2 DEF InOrder, Pending, Open, Settled, Current
  <2>4. QED
    BY <2>1, <2>2, <2>3 DEF Owned
<1>9. QED
  BY <1>2, <1>3, <1>4, <1>5, <1>6, <1>7, <1>8 DEF Next, PodStep

(* A step leaves no yielded message behind. *)
LEMMA ChannelYields ==
    ASSUME TypeOK, InOrder, Owned, YieldedIsDispatched, [Next]_vars
    PROVE  YieldedIsDispatched'
<1>0. /\ received \subseteq Messages
      /\ \A m \in Messages : Settled(m) => Settled(m)'
      /\ \A m \in Messages : m \in Nat
      /\ arrived \in Nat
      /\ \A p \in Pods : handled[p] \in Nat /\ cursor[p] \in Nat /\ handled[p] <= cursor[p]
      /\ pc \in [Pods -> Open \cup {"contend", "subscribe", "release"}]
  BY SettledStays, ChannelAssumption DEF TypeOK, InOrder, Messages
<1> USE <1>0 DEF Goto
<1>1. ASSUME received' = received,
             \A p \in Pods : \A m \in Pending(p) :
                Settled(m)' \/ \E q \in Pods : m \in Pending(q)'
      PROVE  YieldedIsDispatched'
  BY <1>1 DEF YieldedIsDispatched, Settled
<1>2. CASE Arrive \/ Expire \/ BusRestart \/ UNCHANGED vars
  BY <1>1, <1>2 DEF Arrive, Expire, BusRestart, vars, Pending
<1>3. ASSUME NEW p \in Pods, Contend(p) \/ Prime(p) \/ Release(p) \/ Stall(p)
      PROVE  YieldedIsDispatched'
  <2>1. /\ received' = received
        /\ \A q \in Pods : pc[q] \in Open => pc'[q] = pc[q] /\ handled'[q] = handled[q] /\ cursor'[q] = cursor[q]
    BY <1>3 DEF Contend, Prime, Release, Stall, Open, TypeOK
  <2>2. QED
    BY <1>1, <2>1 DEF Pending
<1>4. ASSUME NEW p \in Pods, Proceed(p) \/ DispatchToProfiles(p)
      PROVE  YieldedIsDispatched'
  <2>1. /\ received' = received
        /\ \A q \in Pods : pc[q] \in Open => pc'[q] \in Open
        /\ UNCHANGED <<handled, cursor>>
    BY <1>4 DEF Proceed, DispatchToProfiles, Open
  <2>2. QED
    BY <1>1, <2>1 DEF Pending
<1>5. ASSUME NEW p \in Pods, PollFails(p) \/ Deposed(p) \/ Crash(p)
      PROVE  YieldedIsDispatched'
  <2>1. /\ received' = received /\ UNCHANGED <<handled, cursor>>
        /\ \A q \in Pods : q # p => pc'[q] = pc[q]
        /\ Pending(p) = {} \/ excused' = excused \cup Pending(p)
    BY <1>5 DEF PollFails, Deposed, Crash
  <2>2. QED
    BY <1>1, <2>1 DEF Pending, Settled
<1>6. ASSUME NEW p \in Pods, Skip(p) \/ DispatchTrigger(p)
      PROVE  YieldedIsDispatched'
  <2>1. /\ received' = received /\ cursor' = cursor
        /\ handled' = [handled EXCEPT ![p] = Current(p)]
        /\ \A q \in Pods : pc[q] \in Open => pc'[q] \in Open
        /\ pc[p] \in Open
    BY <1>6 DEF Skip, DispatchTrigger, Open
  <2>2. \A q \in Pods : q # p => handled'[q] = handled[q]
    BY <2>1 DEF TypeOK
  <2> PICK n : n = Current(p)
    OBVIOUS
  <2>3. \A m \in Pending(p) : m = n \/ m \in Pending(p)'
    BY <2>1 DEF Pending, Current, TypeOK
  <2>4. Settled(n)' \/ \E q \in Pods : n \in Pending(q)'
    <3>1. CASE DispatchTrigger(p)
      <4>1. n \in Messages
        BY <3>1, ChannelAssumption DEF DispatchTrigger, InOrder, Working, Current, Messages, TypeOK
      <4>2. Settled(n)
        BY <3>1 DEF DispatchTrigger, Owned
      <4>3. QED
        BY <4>1, <4>2
    <3>2. CASE Skip(p)
      <4>1. n \in Named /\ n \in Messages /\ ClaimKey(n) \in claims /\ pc[p] = "drain"
        BY <3>2 DEF Skip, Named
      <4>2. CASE Settled(n)
        BY <4>1, <4>2
      <4>3. ASSUME NEW q \in Pods, pc[q] \in Working, Current(q) = n
            PROVE  n \in Pending(q)'
        <5>1. q # p /\ handled[q] < cursor[q]
          BY <4>1, <4>3 DEF Working, InOrder
        <5>2. pc'[q] \in Open /\ handled'[q] = handled[q] /\ cursor'[q] = cursor[q]
          BY <2>1, <2>2, <4>3, <5>1 DEF Working, Open
        <5>3. QED
          BY <4>3, <5>1, <5>2 DEF Pending, Current
      <4>4. QED
        BY <4>1, <4>2, <4>3 DEF Owned
    <3>3. QED
      BY <1>6, <3>1, <3>2
  <2>5. \A q \in Pods : q # p => \A m \in Pending(q) : m \in Pending(q)'
    BY <2>1, <2>2 DEF Pending
  <2>6. QED
    BY <1>1, <2>1, <2>3, <2>4, <2>5
<1>7. ASSUME NEW p \in Pods, Poll(p)
      PROVE  YieldedIsDispatched'
  <2>1. /\ received' = received \cup (cursor[p] + 1 .. arrived)
        /\ UNCHANGED <<pc, handled, excused, profiles>>
        /\ cursor' = [cursor EXCEPT ![p] = arrived]
        /\ pc[p] = "drain" /\ Pending(p) = {}
    BY <1>7 DEF Poll
  <2>2. Pending(p)' = cursor[p] + 1 .. arrived
    <3>1. handled[p] = cursor[p]
      BY <2>1 DEF Pending, Open
    <3>2. QED
      BY <2>1, <3>1 DEF Pending, Open, TypeOK
  <2>3. \A q \in Pods : \A m \in Pending(q) : m \in Pending(q)'
    BY <2>1 DEF Pending, TypeOK
  <2>4. QED
    BY <2>1, <2>2, <2>3 DEF YieldedIsDispatched
<1>8. ASSUME NEW m \in Messages, ExpireClaim(m)
      PROVE  YieldedIsDispatched'
  BY <1>1, <1>8 DEF ExpireClaim, Pending
<1>9. QED
  BY <1>2, <1>3, <1>4, <1>5, <1>6, <1>7, <1>8 DEF Next, PodStep

(* A message that a subscription yielded becomes jobs, unless the pod that  *)
(* had it failed or was deposed: nobody skips a message whose claim is not  *)
(* backed by a pod that dispatches it.  It holds even when the bus fails.   *)
THEOREM ChannelYieldedIsDispatched == Spec => []YieldedIsDispatched
<1>1. Init => YieldInv
  <2>1. Init => TypeOK /\ InOrder
    BY ChannelInit DEF ClaimInv
  <2>2. Init => Owned /\ YieldedIsDispatched
    BY DEF Init, Owned, YieldedIsDispatched
  <2>3. QED
    BY <2>1, <2>2 DEF YieldInv
<1>2. YieldInv /\ [Next]_vars => YieldInv'
  BY ChannelTypes, ChannelOrder, ChannelOwners, ChannelYields DEF YieldInv
<1>3. YieldInv => YieldedIsDispatched
  BY DEF YieldInv
<1>4. QED
  BY <1>1, <1>2, <1>3, PTL DEF Spec
=============================================================================

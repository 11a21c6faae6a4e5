------------------------ MODULE GraphExecutor_proofs ------------------------
(***************************************************************************)
(* Proofs about GraphExecutor, for any graph whose walk has the shape of    *)
(* WalkAssumption, any number of attempts, grants and crashes, and about    *)
(* the ordinals under which it journals its steps.                          *)
(***************************************************************************)
EXTENDS GraphExecutor, AutomationRun_proofs

(* Multiplication by a natural number is monotonic.                         *)
LEMMA TimesMonotonic ==
    ASSUME NEW a \in Nat, NEW b \in Nat, NEW c \in Nat, a < b
    PROVE  a * c + c <= b * c
<1>1. PICK d \in Nat : b = a + 1 + d
  BY b - a - 1 \in Nat, b = a + 1 + (b - a - 1)
<1>2. d * c \in Nat
  OBVIOUS
<1>3. b * c = a * c + c + d * c
  BY <1>1
<1>4. QED
  BY <1>2, <1>3, a * c \in Nat, b * c \in Nat

(* Quotient and remainder determine each other: blocks of size c, each with *)
(* offsets below c, do not overlap.                                         *)
LEMMA BlocksApart ==
    ASSUME NEW c \in Nat, NEW a \in Nat, NEW b \in Nat,
           NEW x \in 0..(c - 1), NEW y \in 0..(c - 1),
           a * c + x = b * c + y
    PROVE  a = b /\ x = y
<1>0. a * c \in Nat /\ b * c \in Nat
  OBVIOUS
<1>1. CASE a < b
  <2>1. a * c + c <= b * c
    BY <1>1, TimesMonotonic
  <2>2. QED
    BY <1>0, <2>1
<1>2. CASE b < a
  <2>1. b * c + c <= a * c
    BY <1>2, TimesMonotonic
  <2>2. QED
    BY <1>0, <2>1
<1>3. CASE a = b
  BY <1>0, <1>3
<1>4. QED
  BY <1>1, <1>2, <1>3

(* run_for_each gives no two steps one ordinal, and none that a node of the *)
(* outer walk has: two executions of body nodes, in whatever regions and    *)
(* iterations within the caps, share an ordinal only if they are the same   *)
(* execution, and the ordinals of the outer walk, the indices of a graph of *)
(* at most OrdBase nodes, lie below them all.  The journal's key            *)
(* (run_id, ordinal) therefore tells all steps of a run apart, as the slots *)
(* of GraphExecutor do.                                                     *)
THEOREM OrdinalsDistinct ==
    ASSUME NEW k \in Nat, NEW i \in 0..(MaxIterations - 1), NEW p \in 0..(MaxBodyNodes - 1),
           NEW l \in Nat, NEW j \in 0..(MaxIterations - 1), NEW q \in 0..(MaxBodyNodes - 1)
    PROVE  /\ BodyOrdinal(k, i, p) = BodyOrdinal(l, j, q) => <<k, i, p>> = <<l, j, q>>
           /\ \A idx \in 0..(OrdBase - 1) : idx < BodyOrdinal(k, i, p)
<1> DEFINE B == MaxBodyNodes
           S == MaxIterations * MaxBodyNodes
           x == i * B + p
           y == j * B + q
<1>1. B \in Nat /\ S \in Nat /\ OrdBase \in Nat /\ MaxIterations \in Nat
  BY OrdinalAssumption
<1>2. x \in 0..(S - 1) /\ y \in 0..(S - 1)
  <2>1. i * B + B <= S /\ j * B + B <= S
    BY <1>1, TimesMonotonic
  <2>2. i * B \in Nat /\ j * B \in Nat
    BY <1>1
  <2> HIDE DEF S, B
  <2>3. QED
    BY <1>1, <2>1, <2>2, p \in 0..(B - 1), q \in 0..(B - 1) DEF B
<1>3. k * S \in Nat /\ l * S \in Nat
  BY <1>1
<1>4. BodyOrdinal(k, i, p) = OrdBase + (k * S + x) /\ BodyOrdinal(l, j, q) = OrdBase + (l * S + y)
  <2>1. i * B \in Nat /\ j * B \in Nat
    BY <1>1
  <2>2. QED
    BY <1>1, <1>3, <2>1 DEF BodyOrdinal
<1> HIDE DEF S
<1>5. ASSUME BodyOrdinal(k, i, p) = BodyOrdinal(l, j, q)
      PROVE  <<k, i, p>> = <<l, j, q>>
  <2> HIDE DEF x, y
  <2>1. k * S + x = l * S + y
    BY <1>1, <1>2, <1>3, <1>4, <1>5
  <2>2. k = l /\ x = y
    BY <1>1, <1>2, <2>1, BlocksApart
  <2>3. i * B + p = j * B + q
    BY <2>2 DEF x, y
  <2>4. i = j /\ p = q
    BY <1>1, <2>3, BlocksApart
  <2>5. QED
    BY <2>2, <2>4
<1>6. \A idx \in 0..(OrdBase - 1) : idx < BodyOrdinal(k, i, p)
  <2> HIDE DEF x, y
  <2>1. QED
    BY <1>1, <1>2, <1>3, <1>4
<1>7. QED
  BY <1>5, <1>6

-----------------------------------------------------------------------------
(* The walk.                                                                *)

LEMMA SeqTyped ==
    ASSUME NEW S, NEW w \in Seq(S)
    PROVE  Len(w) \in Nat /\ DOMAIN w = 1..Len(w) /\ \A k \in 1..Len(w) : w[k] \in S
  OBVIOUS

LEMMA WalkTyped ==
    /\ Len(Walk) \in Nat /\ Stops = 1..Len(Walk)
    /\ \A k \in Stops :
          /\ k \in Nat /\ k >= 1
          /\ Walk[k] = [kind |-> Walk[k].kind, slot |-> Walk[k].slot]
          /\ Walk[k].kind \in {"node", "head", "close"} /\ Walk[k].slot \in Slots
    /\ \A j, k \in Stops : Walk[j] = Walk[k] => j = k
<1> DEFINE S == [kind : {"node", "head", "close"}, slot : Slots]
<1>1. Walk \in Seq(S) /\ IsInjective(Walk)
  BY WalkAssumption DEF WalkShape, StopsApart
<1>2. Len(Walk) \in Nat /\ DOMAIN Walk = 1..Len(Walk) /\ \A k \in 1..Len(Walk) : Walk[k] \in S
  BY <1>1, SeqTyped
<1>3. \A j, k \in Stops : Walk[j] = Walk[k] => j = k
  BY <1>1, <1>2 DEF IsInjective, Stops
<1>4. QED
  BY <1>2, <1>3 DEF Stops

LEMMA SlotTyped ==
    ASSUME NEW s \in Slots
    PROVE  s = <<s[1], s[2]>> /\ s[2] \in Nat
<1>1. MaxIterations \in Nat
  BY OrdinalAssumption
<1>2. QED
  BY <1>1, GraphAssumption

LEMMA EndOfLoop ==
    ASSUME NEW f \in Heads
    PROVE  LoopEnd[f] \in Nodes /\ Graph.loopOf[LoopEnd[f]] = f /\ Graph.kind[LoopEnd[f]] = "loopend"
<1>1. Cardinality(EndsFor(Graph, f)) = 1
  BY GraphAssumption DEF Valid, RegionsOK, RegionOK, Heads
<1>2. EndsFor(Graph, f) # {}
  BY <1>1, FS_EmptySet
<1>3. RegionEnd(Graph, f) \in EndsFor(Graph, f)
  BY <1>2 DEF RegionEnd
<1>4. QED
  BY <1>3 DEF EndsFor, EndsOf, OfKind, Nodes, LoopEnd

LEMMA LoopSlots ==
    ASSUME NEW f \in Heads
    PROVE  /\ <<f, 0>> \in Slots /\ Kind[<<f, 0>>] = "foreach"
           /\ <<LoopEnd[f], 0>> \in Slots /\ LoopEnd[f] \in Internal
           /\ \A h \in Heads : LoopEnd[h] = LoopEnd[f] => h = f
           /\ Recorder(<<LoopEnd[f], 0>>) = <<f, 0>>
<1>1. f \in Nodes /\ Graph.kind[f] = "foreach"
  BY DEF Heads, HeadsOf, OfKind, Nodes
<1>2. <<f, 0>> \in Slots
  BY <1>1, GraphAssumption
<1>3. Kind[<<f, 0>>] = "foreach"
  BY <1>1, <1>2, GraphAssumption
<1>4. <<LoopEnd[f], 0>> \in Slots
  BY EndOfLoop, GraphAssumption
<1>5. LoopEnd[f] \in Internal
  BY DEF Internal
<1>6. \A h \in Heads : LoopEnd[h] = LoopEnd[f] => h = f
  BY EndOfLoop
<1>7. \A h \in Heads : <<LoopEnd[h], 0>> = <<LoopEnd[f], 0>> => h = f
  BY <1>6
<1>8. Recorder(<<LoopEnd[f], 0>>) = <<f, 0>>
  BY <1>7 DEF Recorder
<1>9. QED
  BY <1>2, <1>3, <1>4, <1>5, <1>6, <1>8

LEMMA NodeStop ==
    ASSUME NEW k \in Stops, Walk[k].kind = "node"
    PROVE  /\ Walk[k].slot[1] \notin Heads /\ Recorder(Walk[k].slot) = Walk[k].slot
           /\ \A f \in Heads : Walk[k].slot # <<LoopEnd[f], 0>> /\ Walk[k].slot # <<f, 0>>
           /\ Walk[k].slot[2] > 0 => \E f \in Heads : Iteration(Walk[k].slot, f)
<1> DEFINE s == Walk[k].slot
<1>1. s \in Slots /\ s[2] \in Nat /\ s[1] \notin Heads
  BY WalkTyped, SlotTyped, WalkAssumption DEF WalkShape, StopsApart
<1>2. IF s[2] = 0 THEN s[1] \notin Internal ELSE \E f \in Heads : Iteration(s, f)
  BY WalkAssumption DEF WalkShape, StopsApart
<1>3. ASSUME NEW f \in Heads
      PROVE  s # <<LoopEnd[f], 0>> /\ s # <<f, 0>>
  <2>1. s = <<LoopEnd[f], 0>> => s[1] = LoopEnd[f] /\ s[2] = 0
    OBVIOUS
  <2>2. LoopEnd[f] \in Internal
    BY LoopSlots
  <2>3. s # <<f, 0>>
    BY <1>1
  <2>4. QED
    BY <1>2, <2>1, <2>2, <2>3
<1>4. Recorder(s) = s
  BY <1>3 DEF Recorder
<1>5. QED
  BY <1>1, <1>2, <1>3, <1>4

LEMMA LoopStop ==
    ASSUME NEW k \in Stops, Walk[k].kind # "node"
    PROVE  /\ Walk[k].slot[1] \in Heads /\ Walk[k].slot = <<Walk[k].slot[1], 0>>
           /\ Walk[k].kind = "head" => k = HeadAt(Walk[k].slot[1])
           /\ Walk[k].kind = "close" => k = CloseAt(Walk[k].slot[1])
<1> DEFINE f == Walk[k].slot[1]
<1>1. f \in Heads /\ Walk[k].slot[2] = 0
  BY WalkAssumption DEF WalkShape, StopsApart
<1>2. Walk[k].slot = <<f, 0>>
  BY <1>1, WalkTyped, SlotTyped
<1>3. /\ HeadAt(f) \in Stops /\ CloseAt(f) \in Stops
      /\ Walk[HeadAt(f)] = Stop("head", f, 0) /\ Walk[CloseAt(f)] = Stop("close", f, 0)
  BY <1>1, WalkAssumption DEF WalkShape, LoopsWhole
<1>4. Walk[k] = [kind |-> Walk[k].kind, slot |-> <<f, 0>>]
  BY <1>2, WalkTyped
<1>5. QED
  BY <1>1, <1>2, <1>3, <1>4, WalkTyped DEF Stop

(* The iterations of a loop are what lies between its head and its close,   *)
(* and they are of no other loop.                                           *)
LEMMA LoopAt ==
    ASSUME NEW f \in Heads
    PROVE  /\ HeadAt(f) \in Stops /\ CloseAt(f) \in Stops /\ HeadAt(f) < CloseAt(f)
           /\ Walk[HeadAt(f)].kind = "head" /\ Walk[HeadAt(f)].slot = <<f, 0>>
           /\ Walk[CloseAt(f)].kind = "close" /\ Walk[CloseAt(f)].slot = <<f, 0>>
           /\ \A k \in Stops : HeadAt(f) < k /\ k < CloseAt(f) =>
                 Walk[k].kind = "node" /\ Iteration(Walk[k].slot, f)
           /\ \A k \in Stops : Iteration(Walk[k].slot, f) =>
                 HeadAt(f) < k /\ k < CloseAt(f) /\ Walk[k].kind = "node"
<1>1. /\ HeadAt(f) \in Stops /\ CloseAt(f) \in Stops /\ HeadAt(f) < CloseAt(f)
      /\ Walk[HeadAt(f)] = Stop("head", f, 0) /\ Walk[CloseAt(f)] = Stop("close", f, 0)
      /\ \A k \in Stops : HeadAt(f) < k /\ k < CloseAt(f) <=> Iteration(Walk[k].slot, f)
  BY WalkAssumption DEF WalkShape, LoopsWhole
<1>2. \A k \in Stops : Iteration(Walk[k].slot, f) => Walk[k].kind = "node"
  <2> SUFFICES ASSUME NEW k \in Stops, Iteration(Walk[k].slot, f), Walk[k].kind # "node" PROVE FALSE
    OBVIOUS
  <2>1. Walk[k].slot = <<Walk[k].slot[1], 0>>
    BY LoopStop
  <2>2. QED
    BY <2>1 DEF Iteration
<1>3. QED
  BY <1>1, <1>2 DEF Stop

LEMMA OneLoop ==
    ASSUME NEW f \in Heads, NEW h \in Heads, NEW k \in Nat,
           HeadAt(f) < k, k < CloseAt(f), HeadAt(h) < k, k <= CloseAt(h)
    PROVE  f = h
<1>1. /\ HeadAt(f) \in Stops /\ CloseAt(f) \in Stops /\ HeadAt(h) \in Stops /\ CloseAt(h) \in Stops
      /\ HeadAt(f) \in Nat /\ CloseAt(f) \in Nat /\ HeadAt(h) \in Nat /\ CloseAt(h) \in Nat
  BY LoopAt, WalkTyped
<1>2. ~(HeadAt(f) < HeadAt(h))
  <2>1. HeadAt(f) < HeadAt(h) => HeadAt(h) < CloseAt(f)
    BY <1>1
  <2>2. HeadAt(f) < HeadAt(h) => Walk[HeadAt(h)].kind = "node"
    BY <1>1, <2>1, LoopAt
  <2>3. QED
    BY <2>2, LoopAt
<1>3. ~(HeadAt(h) < HeadAt(f))
  <2>1. HeadAt(h) < HeadAt(f) => HeadAt(f) < CloseAt(h)
    BY <1>1
  <2>2. HeadAt(h) < HeadAt(f) => Walk[HeadAt(f)].kind = "node"
    BY <1>1, <2>1, LoopAt
  <2>3. QED
    BY <2>2, LoopAt
<1>4. HeadAt(f) = HeadAt(h)
  BY <1>1, <1>2, <1>3
<1>5. <<f, 0>> = <<h, 0>>
  BY <1>4, LoopAt
<1>6. QED
  BY <1>5

-----------------------------------------------------------------------------
(* The history of a run.  st are its rows, fi its counts of executions.     *)

(* Only a node that succeeded has an output, and a condition has a branch.  *)
RowOK(s, row) ==
    /\ Kind[s] = "condition" /\ row.status = "succeeded" => row.out \in {"true", "false"}
    /\ row.out # "none" => row.status = "succeeded"
    /\ s[1] \in Heads => row.out = "none"

(* The journal decides stop j: its node is finished, or its loop skipped.   *)
SettledAt(st, j) ==
    /\ Walk[j].kind = "node" =>
          \/ st[Walk[j].slot].status \in Finished
          \/ \E f \in Heads : Iteration(Walk[j].slot, f) /\ st[<<f, 0>>].status = "skipped"
    /\ Walk[j].kind = "close" => st[Walk[j].slot].status \in Finished

(* Everything before stop k is decided, and its loop is active.             *)
Reached(st, k) ==
    /\ \A j \in 1..(k - 1) : SettledAt(st, j)
    /\ \A f \in Heads : Iteration(Walk[k].slot, f) => JournalActive(st, <<f, 0>>)

Comes(st, s) == \E k \in Stops : Walk[k].kind # "close" /\ Walk[k].slot = s /\ Reached(st, k)

(* A loop that succeeded was active and all its iterations are decided.     *)
LoopDone(st, f) ==
    /\ JournalActive(st, <<f, 0>>) /\ Iterable(f)
    /\ \A j \in 1..(CloseAt(f) - 1) : SettledAt(st, j)

SkippedRightly(st, s) ==
    ~JournalActive(st, s) \/ (GatedOnRedelivery(s) /\ JournalLatched(st, s))

(* What was recorded of a run agrees with the routing: a slot has a row     *)
(* only when the walk could come to it, was executed only when active and   *)
(* skipped only with reason.                                                *)
History(st, fi) ==
    /\ \A s \in Slots :
          /\ RowOK(s, st[s])
          /\ st[s].status # "none" => Comes(st, s)
          /\ fi[s] > 0 => st[s].status # "none" /\ JournalActive(st, s) /\ s[1] \notin Heads
          /\ st[s].status = "skipped" => SkippedRightly(st, s)
    /\ \A f \in Heads : st[<<f, 0>>].status = "succeeded" => LoopDone(st, f)

(* Finished rows stay as they are.                                          *)
Stands(st, st2) == \A s \in Slots : st[s].status \in Finished => st2[s] = st[s]

LEMMA SettledStands ==
    ASSUME NEW st, NEW st2, Stands(st, st2), NEW j \in Stops, SettledAt(st, j)
    PROVE  SettledAt(st2, j)
<1>1. Walk[j].slot \in Slots /\ \A f \in Heads : <<f, 0>> \in Slots
  BY WalkTyped, LoopSlots
<1>2. \A f \in Heads : st[<<f, 0>>].status = "skipped" => st2[<<f, 0>>].status = "skipped"
  BY <1>1 DEF Stands, Finished
<1>3. st[Walk[j].slot].status \in Finished => st2[Walk[j].slot].status \in Finished
  BY <1>1 DEF Stands
<1>4. QED
  BY <1>2, <1>3 DEF SettledAt

LEMMA SourceOf ==
    ASSUME NEW k \in Stops, Walk[k].kind # "close", NEW o \in Incoming(Walk[k].slot)
    PROVE  /\ Recorder(o.slot) \in Slots
           /\ \E j \in 1..(k - 1) :
                 /\ j \in Stops /\ Walk[j].slot = Recorder(o.slot)
                 /\ \/ Walk[j].kind = "node" /\ Walk[j].slot = o.slot
                    \/ /\ Walk[j].kind = "close" /\ Walk[j].slot[1] \in Heads
                       /\ o.slot = <<LoopEnd[Walk[j].slot[1]], 0>>
           /\ \A f \in Heads : Iteration(o.slot, f) => Iteration(Walk[k].slot, f)
<1>1. PICK j \in 1..(k - 1) :
          \/ Walk[j] = [kind |-> "node", slot |-> o.slot]
          \/ \E f \in Heads : o.slot = <<LoopEnd[f], 0>> /\ Walk[j] = Stop("close", f, 0)
  BY WalkAssumption DEF WalkShape, SourcesFirst
<1>2. \A f \in Heads : Iteration(o.slot, f) => Iteration(Walk[k].slot, f)
  BY WalkAssumption DEF WalkShape, SourcesFirst
<1>3. j \in Stops
  BY WalkTyped
<1>4. CASE Walk[j] = [kind |-> "node", slot |-> o.slot]
  <2>1. Walk[j].kind = "node" /\ Walk[j].slot = o.slot
    BY <1>4
  <2>2. Recorder(o.slot) = o.slot /\ o.slot \in Slots
    BY <1>3, <2>1, NodeStop, WalkTyped
  <2>3. QED
    BY <1>2, <1>3, <2>1, <2>2
<1>5. ASSUME NEW f \in Heads, o.slot = <<LoopEnd[f], 0>>, Walk[j] = Stop("close", f, 0)
      PROVE  Recorder(o.slot) = <<f, 0>> /\ <<f, 0>> \in Slots
             /\ Walk[j].kind = "close" /\ Walk[j].slot = <<f, 0>> /\ Walk[j].slot[1] = f
  BY <1>5, LoopSlots DEF Stop
<1>6. CASE Walk[j] # [kind |-> "node", slot |-> o.slot]
  <2>1. PICK f \in Heads : o.slot = <<LoopEnd[f], 0>> /\ Walk[j] = Stop("close", f, 0)
    BY <1>1, <1>6
  <2>2. /\ Recorder(o.slot) = <<f, 0>> /\ <<f, 0>> \in Slots
        /\ Walk[j].kind = "close" /\ Walk[j].slot = <<f, 0>> /\ Walk[j].slot[1] = f
    BY <1>5, <2>1
  <2>3. QED
    BY <1>2, <1>3, <2>1, <2>2
<1>7. QED
  BY <1>4, <1>6

(* The sources of a stop that the walk has come to are finished. *)
LEMMA SourcesFinished ==
    ASSUME NEW st, NEW k \in Stops, Walk[k].kind # "close",
           \A j \in 1..(k - 1) : SettledAt(st, j),
           \A f \in Heads : Iteration(Walk[k].slot, f) => st[<<f, 0>>].status # "skipped",
           NEW o \in Incoming(Walk[k].slot)
    PROVE  st[Recorder(o.slot)].status \in Finished
<1>1. PICK j \in 1..(k - 1) :
          /\ j \in Stops /\ Walk[j].slot = Recorder(o.slot)
          /\ \/ Walk[j].kind = "node" /\ Walk[j].slot = o.slot
             \/ Walk[j].kind = "close"
  BY SourceOf
<1>2. \A f \in Heads : Iteration(o.slot, f) => st[<<f, 0>>].status # "skipped"
  BY SourceOf
<1>3. SettledAt(st, j)
  OBVIOUS
<1>4. QED
  BY <1>1, <1>2, <1>3 DEF SettledAt

LEMMA ActiveStands ==
    ASSUME NEW st, NEW st2, Stands(st, st2), NEW k \in Stops, Walk[k].kind # "close",
           \A j \in 1..(k - 1) : SettledAt(st, j),
           \A f \in Heads : Iteration(Walk[k].slot, f) => st[<<f, 0>>].status # "skipped"
    PROVE  JournalActive(st2, Walk[k].slot) <=> JournalActive(st, Walk[k].slot)
<1>1. ASSUME NEW o \in Incoming(Walk[k].slot)
      PROVE  st2[Recorder(o.slot)] = st[Recorder(o.slot)]
  <2>1. st[Recorder(o.slot)].status \in Finished
    BY SourcesFinished
  <2>2. Recorder(o.slot) \in Slots
    BY SourceOf
  <2>3. QED
    BY <2>1, <2>2 DEF Stands
<1>2. \A o \in Incoming(Walk[k].slot) : JournalOpen(st2, o) <=> JournalOpen(st, o)
  BY <1>1 DEF JournalOpen
<1>3. QED
  BY <1>2 DEF JournalActive

LEMMA HeadStands ==
    ASSUME NEW st, NEW st2, Stands(st, st2), NEW f \in Heads,
           \A j \in 1..(HeadAt(f) - 1) : SettledAt(st, j)
    PROVE  JournalActive(st2, <<f, 0>>) <=> JournalActive(st, <<f, 0>>)
<1>1. HeadAt(f) \in Stops /\ Walk[HeadAt(f)].kind # "close" /\ Walk[HeadAt(f)].slot = <<f, 0>>
  BY LoopAt
<1>2. \A g \in Heads : ~Iteration(<<f, 0>>, g)
  BY DEF Iteration
<1>3. QED
  BY <1>1, <1>2, ActiveStands

(* An active loop is not skipped. *)
LEMMA ActiveLoop ==
    ASSUME NEW st, NEW fi, History(st, fi), NEW f \in Heads, JournalActive(st, <<f, 0>>)
    PROVE  st[<<f, 0>>].status # "skipped"
<1>1. <<f, 0>> \in Slots /\ ~GatedOnRedelivery(<<f, 0>>)
  BY LoopSlots DEF GatedOnRedelivery
<1>2. QED
  BY <1>1 DEF History, SkippedRightly

LEMMA ReachedStands ==
    ASSUME NEW st, NEW st2, NEW fi, History(st, fi), Stands(st, st2),
           NEW k \in Stops, Walk[k].kind # "close", Reached(st, k)
    PROVE  /\ Reached(st2, k)
           /\ JournalActive(st2, Walk[k].slot) <=> JournalActive(st, Walk[k].slot)
<1>0. \A j \in 1..(k - 1) : j \in Stops
  BY WalkTyped
<1>1. \A j \in 1..(k - 1) : SettledAt(st, j) /\ SettledAt(st2, j)
  BY <1>0, SettledStands DEF Reached
<1>2. ASSUME NEW f \in Heads, Iteration(Walk[k].slot, f)
      PROVE  st[<<f, 0>>].status # "skipped" /\ JournalActive(st2, <<f, 0>>)
  <2>1. JournalActive(st, <<f, 0>>)
    BY <1>2 DEF Reached
  <2>2. st[<<f, 0>>].status # "skipped"
    BY <2>1, ActiveLoop
  <2>3. HeadAt(f) < k /\ HeadAt(f) \in Stops
    BY <1>2, LoopAt
  <2>4. \A j \in 1..(HeadAt(f) - 1) : j \in 1..(k - 1)
    BY <2>3, WalkTyped
  <2>5. JournalActive(st2, <<f, 0>>)
    BY <1>1, <2>1, <2>4, HeadStands
  <2>6. QED
    BY <2>2, <2>5
<1>3. JournalActive(st2, Walk[k].slot) <=> JournalActive(st, Walk[k].slot)
  BY <1>1, <1>2, ActiveStands
<1>4. QED
  BY <1>1, <1>2, <1>3 DEF Reached

LEMMA LatchedStands ==
    ASSUME NEW st, NEW st2, NEW fi, History(st, fi), Stands(st, st2), NEW s, JournalLatched(st, s)
    PROVE  JournalLatched(st2, s)
<1>1. ASSUME NEW j \in Stops, st[Walk[j].slot].out = "old"
      PROVE  st2[Walk[j].slot].out = "old"
  <2>1. Walk[j].slot \in Slots
    BY WalkTyped
  <2>2. st[Walk[j].slot].status = "succeeded"
    BY <1>1, <2>1 DEF History, RowOK
  <2>3. QED
    BY <1>1, <2>1, <2>2 DEF Stands, Finished
<1>2. QED
  BY <1>1 DEF JournalLatched

(* A row that was not finished is written; the rest of the journal stays.   *)
LEMMA HistoryRow ==
    ASSUME NEW st, NEW st2, NEW fi, History(st, fi), NEW z \in Slots,
           st[z].status \notin Finished, \A s \in Slots : s # z => st2[s] = st[s],
           RowOK(z, st2[z]), st2[z].status # "none", Comes(st, z),
           st2[z].status = "skipped" => SkippedRightly(st, z),
           \A f \in Heads : z = <<f, 0>> /\ st2[z].status = "succeeded" => LoopDone(st, f)
    PROVE  History(st2, fi) /\ Stands(st, st2)
<1>1. Stands(st, st2)
  BY DEF Stands
<1>2. \A s \in Slots : Comes(st, s) =>
          Comes(st2, s) /\ (JournalActive(st2, s) <=> JournalActive(st, s))
  BY <1>1, ReachedStands DEF Comes
<1>3. \A s \in Slots : Comes(st, s) /\ SkippedRightly(st, s) => SkippedRightly(st2, s)
  BY <1>1, <1>2, LatchedStands DEF SkippedRightly
<1>4. \A s \in Slots : st2[s].status # "none" => Comes(st, s)
  BY DEF History
<1>5. \A s \in Slots : RowOK(s, st2[s])
  BY DEF History
<1>6. \A s \in Slots : st2[s].status = "skipped" => SkippedRightly(st, s)
  BY DEF History
<1>7. \A s \in Slots : fi[s] > 0 =>
          st2[s].status # "none" /\ JournalActive(st, s) /\ s[1] \notin Heads
  BY DEF History
<1>8. ASSUME NEW f \in Heads, st2[<<f, 0>>].status = "succeeded"
      PROVE  LoopDone(st2, f)
  <2>1. <<f, 0>> \in Slots
    BY LoopSlots
  <2>2. LoopDone(st, f)
    BY <1>8, <2>1 DEF History
  <2>3. Comes(st, <<f, 0>>)
    BY <1>4, <1>8, <2>1
  <2>4. JournalActive(st2, <<f, 0>>)
    BY <1>2, <2>1, <2>2, <2>3 DEF LoopDone
  <2>5. \A j \in 1..(CloseAt(f) - 1) : j \in Stops
    BY LoopAt, WalkTyped
  <2>6. \A j \in 1..(CloseAt(f) - 1) : SettledAt(st2, j)
    BY <1>1, <2>2, <2>5, SettledStands DEF LoopDone
  <2>7. QED
    BY <2>2, <2>4, <2>6 DEF LoopDone
<1>9. ASSUME NEW s \in Slots
      PROVE  /\ RowOK(s, st2[s])
             /\ st2[s].status # "none" => Comes(st2, s)
             /\ fi[s] > 0 => st2[s].status # "none" /\ JournalActive(st2, s) /\ s[1] \notin Heads
             /\ st2[s].status = "skipped" => SkippedRightly(st2, s)
  <2>1. RowOK(s, st2[s])
    BY <1>5
  <2>2. st2[s].status # "none" => Comes(st2, s)
    BY <1>2, <1>4
  <2>3. fi[s] > 0 => st2[s].status # "none" /\ JournalActive(st2, s) /\ s[1] \notin Heads
    BY <1>2, <1>4, <1>7
  <2>4. st2[s].status = "skipped" => SkippedRightly(st2, s)
    BY <1>3, <1>4, <1>6
  <2>5. QED
    BY <2>1, <2>2, <2>3, <2>4
<1>10. QED
  BY <1>1, <1>8, <1>9 DEF History

(* An open and active slot is executed. *)
LEMMA HistoryFire ==
    ASSUME NEW st, NEW fi, NEW fi2, History(st, fi), NEW z \in Slots,
           \A s \in Slots : s # z => fi2[s] = fi[s],
           st[z].status # "none", JournalActive(st, z), z[1] \notin Heads
    PROVE  History(st, fi2)
  BY DEF History

LEMMA HistoryStart ==
    ASSUME NEW st, NEW fi, \A s \in Slots : st[s] = NoStep /\ fi[s] = 0
    PROVE  History(st, fi)
<1>1. \A s \in Slots : st[s].status = "none" /\ st[s].out = "none" /\ fi[s] = 0
  BY DEF NoStep
<1>2. \A f \in Heads : st[<<f, 0>>].status = "none"
  BY <1>1, LoopSlots
<1>3. QED
  BY <1>1, <1>2 DEF History, RowOK

-----------------------------------------------------------------------------
(* A drive.  p are the out-ports it has opened, a the stop it is at, l its  *)
(* redelivery latch: all of them are what the journal says of the stops     *)
(* before a, whichever drive recorded those.                                *)
Exit(j) == IF Walk[j].kind = "close" THEN <<LoopEnd[Walk[j].slot[1]], 0>> ELSE Walk[j].slot

Behind(st, a) == \A j \in 1..(a - 1) : SettledAt(st, j)

Opened(st, p, a) == \A j \in 1..(a - 1) :
    Walk[j].kind # "head" => p[Exit(j)] = OpenedBy(Walk[j].slot, st[Walk[j].slot])

Ahead(p, a) == \A j \in Stops : j >= a /\ Walk[j].kind # "head" => p[Exit(j)] = "unset"

InActiveLoop(st, a) == \A f \in Heads :
    HeadAt(f) < a /\ a <= CloseAt(f) => JournalActive(st, <<f, 0>>)

OldBefore(st, a) == \E j \in 1..(a - 1) : Walk[j].slot[2] = 0 /\ st[Walk[j].slot].out = "old"

Drive(st, p, a, l) ==
    /\ Behind(st, a) /\ Opened(st, p, a) /\ Ahead(p, a) /\ InActiveLoop(st, a)
    /\ l <=> Redelivery \/ OldBefore(st, a)

LEMMA ExitsApart ==
    ASSUME NEW j \in Stops, NEW k \in Stops, Walk[j].kind # "head", Walk[k].kind # "head",
           Exit(j) = Exit(k)
    PROVE  j = k
<1>1. CASE Walk[j].kind = "node" /\ Walk[k].kind = "node"
  <2>1. Walk[j] = Walk[k]
    BY <1>1, WalkTyped DEF Exit
  <2>2. QED
    BY <2>1, WalkTyped
<1>2. ASSUME NEW i \in Stops, NEW m \in Stops, Walk[i].kind = "node", Walk[m].kind = "close"
      PROVE  Exit(i) # Exit(m)
  <2>1. Walk[m].slot[1] \in Heads
    BY <1>2, LoopStop
  <2>2. QED
    BY <1>2, <2>1, NodeStop DEF Exit
<1>3. CASE Walk[j].kind = "close" /\ Walk[k].kind = "close"
  <2>1. /\ Walk[j].slot[1] \in Heads /\ Walk[k].slot[1] \in Heads
        /\ j = CloseAt(Walk[j].slot[1]) /\ k = CloseAt(Walk[k].slot[1])
    BY <1>3, LoopStop
  <2>2. LoopEnd[Walk[j].slot[1]] = LoopEnd[Walk[k].slot[1]]
    BY <1>3 DEF Exit
  <2>3. Walk[j].slot[1] = Walk[k].slot[1]
    BY <2>1, <2>2, LoopSlots
  <2>4. QED
    BY <2>1, <2>3
<1>4. QED
  BY <1>1, <1>2, <1>3, WalkTyped

LEMMA ExitTyped ==
    ASSUME NEW j \in Stops
    PROVE  Exit(j) \in Slots
<1>1. CASE Walk[j].kind = "close"
  BY <1>1, LoopStop, LoopSlots DEF Exit
<1>2. CASE Walk[j].kind # "close"
  BY <1>2, WalkTyped DEF Exit
<1>3. QED
  BY <1>1, <1>2

(* The row that the present stop writes is none that an earlier one reads.  *)
LEMMA EarlierSlot ==
    ASSUME NEW j \in Stops, NEW a \in Stops, j < a, Walk[j].kind # "head"
    PROVE  Walk[j].slot # Walk[a].slot
<1> SUFFICES ASSUME Walk[j].slot = Walk[a].slot PROVE FALSE
  OBVIOUS
<1>0. j \in Nat /\ a \in Nat
  BY WalkTyped
<1>1. CASE Walk[j].kind = "node" /\ Walk[a].kind = "node"
  <2>1. Walk[j] = Walk[a]
    BY <1>1, WalkTyped
  <2>2. QED
    BY <1>0, <2>1, WalkTyped
<1>2. CASE Walk[j].kind # "node" /\ Walk[a].kind = "node"
  BY <1>2, LoopStop, NodeStop
<1>3. CASE Walk[j].kind = "node" /\ Walk[a].kind # "node"
  BY <1>3, LoopStop, NodeStop
<1>4. CASE Walk[j].kind # "node" /\ Walk[a].kind # "node"
  <2> DEFINE f == Walk[a].slot[1]
  <2>1. f \in Heads /\ j = CloseAt(f) /\ (a = HeadAt(f) \/ a = CloseAt(f))
    BY <1>4, LoopStop, WalkTyped
  <2>2. QED
    BY <1>0, <2>1, LoopAt
<1>5. QED
  BY <1>1, <1>2, <1>3, <1>4

LEMMA DriveStart ==
    ASSUME NEW st, NEW p, \A s \in Slots : p[s] = "unset"
    PROVE  Drive(st, p, 1, Redelivery)
<1>1. \A j \in 1..(1 - 1) : FALSE
  OBVIOUS
<1>2. \A j \in Stops : p[Exit(j)] = "unset"
  BY ExitTyped
<1>3. \A f \in Heads : ~(HeadAt(f) < 1)
  BY LoopAt, WalkTyped
<1>4. Behind(st, 1) /\ Opened(st, p, 1) /\ Ahead(p, 1) /\ InActiveLoop(st, 1) /\ ~OldBefore(st, 1)
  BY <1>1, <1>2, <1>3 DEF Behind, Opened, Ahead, InActiveLoop, OldBefore
<1>5. QED
  BY <1>4, Zenon DEF Drive

(* The present stop's row is written while the drive stays where it is. *)
LEMMA DriveStands ==
    ASSUME NEW st, NEW st2, NEW fi, NEW fi2, History(st, fi), History(st2, fi2), Stands(st, st2),
           NEW p, NEW a \in Stops, NEW l, Drive(st, p, a, l),
           \A s \in Slots : s # Walk[a].slot => st2[s] = st[s]
    PROVE  Drive(st2, p, a, l)
<1>0. \A j \in 1..(a - 1) : j \in Stops /\ j < a /\ Walk[j].slot \in Slots
  <2>1. a \in Nat /\ \A j \in 1..(a - 1) : j \in Stops /\ j < a
    BY WalkTyped
  <2>2. QED
    BY <2>1, WalkTyped
<1>1. Behind(st2, a)
  BY <1>0, SettledStands DEF Drive, Behind
<1>2. \A j \in 1..(a - 1) : Walk[j].kind # "head" => st2[Walk[j].slot] = st[Walk[j].slot]
  BY <1>0, EarlierSlot
<1>3. InActiveLoop(st2, a)
  <2> SUFFICES ASSUME NEW f \in Heads, HeadAt(f) < a, a <= CloseAt(f)
               PROVE  JournalActive(st2, <<f, 0>>)
    BY DEF InActiveLoop
  <2>1. \A j \in 1..(HeadAt(f) - 1) : j \in 1..(a - 1)
    BY LoopAt, WalkTyped
  <2>2. QED
    BY <2>1, HeadStands DEF Drive, Behind, InActiveLoop
<1>4. ASSUME NEW j \in 1..(a - 1)
      PROVE  st2[Walk[j].slot].out = "old" <=> st[Walk[j].slot].out = "old"
  <2>1. CASE Walk[j].kind # "head"
    BY <1>2, <2>1
  <2>2. CASE Walk[j].kind = "head"
    <3>1. Walk[j].slot[1] \in Heads /\ Walk[j].slot \in Slots
      BY <1>0, <2>2, LoopStop
    <3>2. st2[Walk[j].slot].out = "none" /\ st[Walk[j].slot].out = "none"
      BY <3>1 DEF History, RowOK
    <3>3. QED
      BY <3>2
  <2>3. QED
    BY <2>1, <2>2
<1>5. OldBefore(st2, a) <=> OldBefore(st, a)
  BY <1>4 DEF OldBefore
<1>6. Opened(st2, p, a)
  BY <1>2 DEF Drive, Opened
<1>7. QED
  BY <1>1, <1>3, <1>5, <1>6, Zenon DEF Drive

(* The drive passes a node that is finished. *)
LEMMA DrivePass ==
    ASSUME NEW st, NEW p, NEW p2, NEW a \in Stops, NEW l, NEW l2,
           Drive(st, p, a, l), Walk[a].kind = "node", st[Walk[a].slot].status \in Finished,
           p2[Walk[a].slot] = OpenedBy(Walk[a].slot, st[Walk[a].slot]),
           \A s \in Slots : s # Walk[a].slot => p2[s] = p[s],
           l2 <=> l \/ (Walk[a].slot[2] = 0 /\ st[Walk[a].slot].out = "old")
    PROVE  Drive(st, p2, a + 1, l2)
<1>0. a \in Nat /\ 1..(a + 1 - 1) = 1..(a - 1) \cup {a} /\ \A j \in 1..(a - 1) : j \in Stops /\ j # a
  BY WalkTyped
<1>1. \A j \in Stops : j # a /\ Walk[j].kind # "head" => p2[Exit(j)] = p[Exit(j)]
  <2> SUFFICES ASSUME NEW j \in Stops, j # a, Walk[j].kind # "head" PROVE p2[Exit(j)] = p[Exit(j)]
    OBVIOUS
  <2>1. Exit(j) # Exit(a) /\ Exit(a) = Walk[a].slot
    BY ExitsApart DEF Exit
  <2>2. QED
    BY <2>1, ExitTyped
<1>2. SettledAt(st, a) /\ p2[Exit(a)] = OpenedBy(Walk[a].slot, st[Walk[a].slot])
  BY DEF SettledAt, Exit
<1>3. \A f \in Heads : HeadAt(f) < a + 1 /\ a + 1 <= CloseAt(f) => HeadAt(f) < a /\ a <= CloseAt(f)
  BY <1>0, LoopAt, WalkTyped
<1>4. OldBefore(st, a + 1) <=> OldBefore(st, a) \/ (Walk[a].slot[2] = 0 /\ st[Walk[a].slot].out = "old")
  BY <1>0 DEF OldBefore
<1>5. \A j \in Stops : j >= a + 1 => j >= a /\ j # a
  BY <1>0, WalkTyped
<1>6. Behind(st, a + 1)
  BY <1>0, <1>2 DEF Drive, Behind
<1>7. Opened(st, p2, a + 1)
  BY <1>0, <1>1, <1>2 DEF Drive, Opened
<1>8. Ahead(p2, a + 1)
  BY <1>1, <1>5 DEF Drive, Ahead
<1>9. InActiveLoop(st, a + 1)
  BY <1>3 DEF Drive, InActiveLoop
<1>10. QED
  BY <1>4, <1>6, <1>7, <1>8, <1>9, Zenon DEF Drive

(* The drive enters an active loop. *)
LEMMA DriveEnter ==
    ASSUME NEW st, NEW fi, History(st, fi), NEW p, NEW a \in Stops, NEW l, Drive(st, p, a, l),
           Walk[a].kind = "head", JournalActive(st, Walk[a].slot)
    PROVE  Drive(st, p, a + 1, l)
<1>0. a \in Nat /\ 1..(a + 1 - 1) = 1..(a - 1) \cup {a}
  BY WalkTyped
<1>1. Walk[a].slot[1] \in Heads /\ Walk[a].slot \in Slots /\ Walk[a].slot = <<Walk[a].slot[1], 0>>
  BY LoopStop, WalkTyped
<1>2. SettledAt(st, a) /\ st[Walk[a].slot].out = "none"
  BY <1>1 DEF SettledAt, History, RowOK
<1>3. ASSUME NEW f \in Heads, HeadAt(f) < a + 1, a + 1 <= CloseAt(f)
      PROVE  JournalActive(st, <<f, 0>>)
  <2>1. HeadAt(f) \in Nat /\ CloseAt(f) \in Nat
    BY LoopAt, WalkTyped
  <2>2. CASE HeadAt(f) = a
    BY <2>2, LoopAt
  <2>3. CASE HeadAt(f) # a
    BY <1>0, <1>3, <2>1, <2>3 DEF Drive, InActiveLoop
  <2>4. QED
    BY <2>2, <2>3
<1>4. OldBefore(st, a + 1) <=> OldBefore(st, a)
  BY <1>0, <1>2 DEF OldBefore
<1>5. \A j \in Stops : j >= a + 1 => j >= a
  BY <1>0, WalkTyped
<1>6. Behind(st, a + 1)
  BY <1>0, <1>2 DEF Drive, Behind
<1>7. Opened(st, p, a + 1)
  BY <1>0 DEF Drive, Opened
<1>8. Ahead(p, a + 1)
  BY <1>5 DEF Drive, Ahead
<1>9. InActiveLoop(st, a + 1)
  BY <1>3 DEF InActiveLoop
<1>10. QED
  BY <1>4, <1>6, <1>7, <1>8, <1>9, Zenon DEF Drive

(* The drive passes a loop that is skipped. *)
LEMMA DriveLeave ==
    ASSUME NEW st, NEW fi, History(st, fi), NEW p, NEW a \in Stops, NEW l, Drive(st, p, a, l),
           Walk[a].kind = "head", st[Walk[a].slot].status = "skipped"
    PROVE  Drive(st, p, CloseAt(Walk[a].slot[1]) + 1, l)
<1> DEFINE f == Walk[a].slot[1]
           c == CloseAt(f)
<1>0. /\ f \in Heads /\ Walk[a].slot = <<f, 0>> /\ a = HeadAt(f) /\ a \in Nat
      /\ c \in Stops /\ c \in Nat /\ a < c /\ <<f, 0>> \in Slots
      /\ Walk[c].kind = "close" /\ Walk[c].slot = <<f, 0>>
  <2>1. f \in Heads /\ Walk[a].slot = <<f, 0>> /\ a = HeadAt(f)
    BY LoopStop
  <2>2. /\ c \in Stops /\ HeadAt(f) < c /\ Walk[c].kind = "close" /\ Walk[c].slot = <<f, 0>>
        /\ <<f, 0>> \in Slots
    BY <2>1, LoopAt, LoopSlots
  <2>3. a \in Nat /\ c \in Nat
    BY <2>2, WalkTyped
  <2> HIDE DEF f, c
  <2>4. QED
    BY <2>1, <2>2, <2>3
<1>1. ~JournalActive(st, <<f, 0>>)
  BY <1>0, ActiveLoop
<1> HIDE DEF f, c
<1>2. ASSUME NEW j \in Stops, a < j, j < c
      PROVE  /\ Walk[j].kind = "node" /\ Walk[j].slot[2] > 0
             /\ SettledAt(st, j) /\ OpenedBy(Walk[j].slot, st[Walk[j].slot]) = "unset"
  <2>1. Walk[j].kind = "node" /\ Iteration(Walk[j].slot, f)
    BY <1>0, <1>2, LoopAt DEF c
  <2>2. SettledAt(st, j)
    BY <1>0, <2>1 DEF SettledAt
  <2>3. ~Comes(st, Walk[j].slot)
    BY <1>0, <1>1, <2>1 DEF Comes, Reached
  <2>4. st[Walk[j].slot].status = "none"
    BY <2>3, WalkTyped DEF History
  <2>5. QED
    BY <2>1, <2>2, <2>4 DEF OpenedBy, Iteration
<1>3. \A j \in 1..(c + 1 - 1) : j \in Stops /\ (j \in 1..(a - 1) \/ j = a \/ (a < j /\ j < c) \/ j = c)
  BY <1>0, WalkTyped
<1>4. \A j \in Stops : j >= a /\ Walk[j].kind # "head" => p[Exit(j)] = "unset"
  BY DEF Drive, Ahead
<1>5. SettledAt(st, c) /\ OpenedBy(Walk[c].slot, st[Walk[c].slot]) = "unset"
  BY <1>0 DEF SettledAt, Finished, OpenedBy
<1>6. SettledAt(st, a)
  BY DEF SettledAt
<1>7. Behind(st, c + 1)
  BY <1>0, <1>2, <1>3, <1>5, <1>6 DEF Drive, Behind
<1>8. Opened(st, p, c + 1)
  <2> SUFFICES ASSUME NEW j \in 1..(c + 1 - 1), Walk[j].kind # "head"
               PROVE  p[Exit(j)] = OpenedBy(Walk[j].slot, st[Walk[j].slot])
    BY <1>0 DEF Opened
  <2>1. CASE j \in 1..(a - 1)
    BY <2>1 DEF Drive, Opened
  <2>2. CASE a < j /\ j < c
    BY <1>0, <1>2, <1>3, <1>4, <2>2, WalkTyped
  <2>3. CASE j = c
    BY <1>0, <1>4, <1>5, <2>3
  <2>4. QED
    BY <1>3, <2>1, <2>2, <2>3
<1>9. \A j \in Stops : j >= c + 1 => j >= a
  BY <1>0, WalkTyped
<1>10. ASSUME NEW h \in Heads, HeadAt(h) < c + 1, c + 1 <= CloseAt(h)
       PROVE  JournalActive(st, <<h, 0>>)
  <2>1. /\ HeadAt(h) \in Stops /\ HeadAt(h) \in Nat /\ CloseAt(h) \in Nat
        /\ Walk[HeadAt(h)].kind = "head" /\ Walk[HeadAt(h)].slot = <<h, 0>>
    BY LoopAt, WalkTyped
  <2>2. HeadAt(h) # c /\ ~(a < HeadAt(h) /\ HeadAt(h) < c)
    BY <1>0, <1>2, <2>1
  <2>3. HeadAt(h) # a
    <3>1. HeadAt(h) = a => <<h, 0>> = <<f, 0>>
      BY <1>0, <2>1
    <3>2. HeadAt(h) = a => CloseAt(h) = c
      BY <3>1 DEF c
    <3>3. QED
      BY <1>0, <1>10, <2>1, <3>2
  <2>4. HeadAt(h) < a /\ a <= CloseAt(h)
    BY <1>0, <1>10, <2>1, <2>2, <2>3
  <2>5. QED
    BY <2>4 DEF Drive, InActiveLoop
<1>11. OldBefore(st, c + 1) <=> OldBefore(st, a)
  <2>1. st[<<f, 0>>].out = "none"
    BY <1>0 DEF History, RowOK
  <2>2. \A j \in 1..(c + 1 - 1) : j \in 1..(a - 1) \/ Walk[j].slot = <<f, 0>> \/ Walk[j].slot[2] > 0
    BY <1>0, <1>2, <1>3
  <2>3. \A j \in 1..(a - 1) : j \in 1..(c + 1 - 1)
    BY <1>0
  <2>4. \A j \in 1..(c + 1 - 1) : Walk[j].slot[2] = 0 /\ st[Walk[j].slot].out = "old" => j \in 1..(a - 1)
    BY <2>1, <2>2
  <2>5. QED
    BY <1>0, <2>3, <2>4 DEF OldBefore
<1>12. Ahead(p, c + 1) /\ InActiveLoop(st, c + 1)
  BY <1>4, <1>9, <1>10 DEF Ahead, InActiveLoop
<1>13. Drive(st, p, c + 1, l)
  BY <1>7, <1>8, <1>11, <1>12, Zenon DEF Drive
<1>14. QED
  BY <1>13 DEF c, f

(* The drive closes a loop. *)
LEMMA DriveClose ==
    ASSUME NEW st, NEW fi, History(st, fi), NEW p, NEW p2, NEW a \in Stops, NEW l, Drive(st, p, a, l),
           Walk[a].kind = "close", st[Walk[a].slot].status = "succeeded", p2[Exit(a)] = "all",
           \A s \in Slots : s # Exit(a) /\ s # Walk[a].slot => p2[s] = p[s]
    PROVE  Drive(st, p2, a + 1, l)
<1>0. a \in Nat /\ 1..(a + 1 - 1) = 1..(a - 1) \cup {a} /\ \A j \in 1..(a - 1) : j \in Stops /\ j # a
  BY WalkTyped
<1>1. /\ Walk[a].slot[1] \in Heads /\ Walk[a].slot \in Slots /\ Walk[a].slot = <<Walk[a].slot[1], 0>>
      /\ Kind[Walk[a].slot] = "foreach"
  <2>1. Walk[a].slot[1] \in Heads /\ Walk[a].slot = <<Walk[a].slot[1], 0>>
    BY LoopStop
  <2>2. Kind[<<Walk[a].slot[1], 0>>] = "foreach" /\ <<Walk[a].slot[1], 0>> \in Slots
    BY <2>1, LoopSlots
  <2>3. QED
    BY <2>1, <2>2
<1>2. SettledAt(st, a) /\ st[Walk[a].slot].out = "none"
  BY <1>1 DEF SettledAt, Finished, History, RowOK
<1>3. OpenedBy(Walk[a].slot, st[Walk[a].slot]) = "all"
  BY <1>1 DEF OpenedBy
<1>4. \A j \in Stops : j # a /\ Walk[j].kind # "head" => p2[Exit(j)] = p[Exit(j)]
  <2> SUFFICES ASSUME NEW j \in Stops, j # a, Walk[j].kind # "head" PROVE p2[Exit(j)] = p[Exit(j)]
    OBVIOUS
  <2>1. Exit(j) # Exit(a) /\ Exit(j) \in Slots
    BY ExitsApart, ExitTyped
  <2>2. Exit(j) # Walk[a].slot
    <3>1. CASE Walk[j].kind = "node"
      BY <1>1, <3>1, NodeStop DEF Exit
    <3>2. CASE Walk[j].kind = "close"
      <4>1. Walk[j].slot[1] \in Heads /\ Exit(j) = <<LoopEnd[Walk[j].slot[1]], 0>>
        BY <3>2, LoopStop DEF Exit
      <4>2. Graph.kind[LoopEnd[Walk[j].slot[1]]] = "loopend"
        BY <4>1, EndOfLoop
      <4>3. Graph.kind[Walk[a].slot[1]] = "foreach"
        BY <1>1 DEF Heads, HeadsOf, OfKind
      <4>4. LoopEnd[Walk[j].slot[1]] # Walk[a].slot[1]
        BY <4>2, <4>3
      <4>5. QED
        BY <1>1, <4>1, <4>4
    <3>3. QED
      BY <3>1, <3>2, WalkTyped
  <2>3. QED
    BY <2>1, <2>2
<1>5. \A f \in Heads : HeadAt(f) < a + 1 /\ a + 1 <= CloseAt(f) => HeadAt(f) < a /\ a <= CloseAt(f)
  BY <1>0, LoopAt, WalkTyped
<1>6. OldBefore(st, a + 1) <=> OldBefore(st, a)
  BY <1>0, <1>2 DEF OldBefore
<1>7. \A j \in Stops : j >= a + 1 => j >= a /\ j # a
  BY <1>0, WalkTyped
<1>8. Behind(st, a + 1)
  BY <1>0, <1>2 DEF Drive, Behind
<1>9. Opened(st, p2, a + 1)
  BY <1>0, <1>3, <1>4 DEF Drive, Opened
<1>10. Ahead(p2, a + 1)
  BY <1>4, <1>7 DEF Drive, Ahead
<1>11. InActiveLoop(st, a + 1)
  BY <1>5 DEF Drive, InActiveLoop
<1>12. QED
  BY <1>6, <1>8, <1>9, <1>10, <1>11, Zenon DEF Drive

-----------------------------------------------------------------------------
(* The inductive invariant: the walk agrees with the journal of its run,    *)
(* and every run's journal agrees with the routing.                         *)
Locals == [at : 1..(Len(Walk) + 1), ports : [Slots -> PortValues]]

WalkTypes ==
    /\ pc \in GraphPcs
    /\ pc \in InLoop => local \in Locals

(* A head that succeeded is walked again; other finished rows are not.      *)
WalkState ==
    /\ pc \in {"walk", "step", "record"} => Drive(step[cur], ports, at, latch)
    /\ pc \in {"step", "record"} =>
          /\ at \in Stops /\ Walk[at].kind # "close"
          /\ step[cur][here].status # "none"
          /\ step[cur][here].status \in Finished =>
                Walk[at].kind = "head" /\ step[cur][here].status = "succeeded"
    /\ pc = "record" =>
          /\ Walk[at].kind = "node"
          /\ outcome.status \in {"succeeded", "failed"} /\ RowOK(here, outcome)
    /\ pc = "loopfail" =>
          /\ at - 1 \in Stops /\ Walk[at - 1].slot[2] > 0
          /\ step[cur][Walk[at - 1].slot].status = "failed"

Histories == \A r \in Runs : History(step[r], fired[r])

GraphInv == RunInv /\ WalkTypes /\ WalkState /\ Histories

(* What a step of the walk has to establish. *)
GraphStep == RunTypeOK' /\ WalkTypes' /\ WalkState' /\ Histories' /\ \E s : Work(s)

LEMMA HasRun ==
    ASSUME GraphInv, pc \in InLoop \cup {"ready"}
    PROVE  /\ cur \in Runs /\ History(step[cur], fired[cur])
           /\ step \in [Runs -> [Slots -> Rows]] /\ step[cur] \in [Slots -> Rows]
           /\ fired \in [Runs -> [Slots -> Nat]] /\ fired[cur] \in [Slots -> Nat]
<1>1. cur \in Runs
  BY DEF GraphInv, RunInv, RunTyped, RunDriving, Working, InBody, InLoop
<1>2. step \in [Runs -> [Slots -> Rows]] /\ fired \in [Runs -> [Slots -> Nat]]
  BY DEF GraphInv, RunInv, RunTyped, RunTypeOK, Rows
<1>3. QED
  BY <1>1, <1>2 DEF GraphInv, Histories

LEMMA AtHere ==
    ASSUME GraphInv, pc \in InLoop
    PROVE  /\ local = [at |-> at, ports |-> ports]
           /\ at \in 1..(Len(Walk) + 1) /\ at \in Nat /\ ports \in [Slots -> PortValues]
           /\ at <= Len(Walk) => at \in Stops
           /\ at \in Stops => here \in Slots /\ here[2] \in Nat /\ at + 1 \in 1..(Len(Walk) + 1)
<1>1. local \in Locals
  BY DEF GraphInv, WalkTypes
<1>2. at \in 1..(Len(Walk) + 1) /\ ports \in [Slots -> PortValues] /\ local = [at |-> at, ports |-> ports]
  BY <1>1 DEF Locals, at, ports
<1>3. at \in Stops => here \in Slots /\ here[2] \in Nat
  BY WalkTyped, SlotTyped DEF here
<1>4. QED
  BY <1>2, <1>3, WalkTyped

(* Where the drive is, the walk has come. *)
LEMMA ReachedHere ==
    ASSUME NEW st, NEW p, NEW a \in Stops, NEW l, Drive(st, p, a, l), Walk[a].kind # "close"
    PROVE  Reached(st, a) /\ Comes(st, Walk[a].slot)
<1>1. \A f \in Heads : Iteration(Walk[a].slot, f) => JournalActive(st, <<f, 0>>)
  <2> SUFFICES ASSUME NEW f \in Heads, Iteration(Walk[a].slot, f) PROVE JournalActive(st, <<f, 0>>)
    OBVIOUS
  <2>1. HeadAt(f) < a /\ a < CloseAt(f) /\ CloseAt(f) \in Nat /\ a \in Nat
    BY LoopAt, WalkTyped
  <2>2. QED
    BY <2>1 DEF Drive, InActiveLoop
<1>2. Reached(st, a)
  BY <1>1 DEF Reached, Drive, Behind
<1>3. QED
  BY <1>2 DEF Comes

(* The edges the drive takes are those that the journal shows as taken. *)
LEMMA RoutesAgree ==
    ASSUME NEW st, NEW fi, History(st, fi), NEW l, Drive(st, ports, at, l),
           at \in Stops, Walk[at].kind # "close"
    PROVE  IsActive(here) <=> JournalActive(st, here)
<1>1. ASSUME NEW o \in Incoming(here)
      PROVE  Taken(o) <=> JournalOpen(st, o)
  <2> DEFINE z == Recorder(o.slot)
  <2>1. PICK j \in 1..(at - 1) :
          /\ j \in Stops /\ Walk[j].slot = z
          /\ \/ Walk[j].kind = "node" /\ Walk[j].slot = o.slot
             \/ /\ Walk[j].kind = "close" /\ Walk[j].slot[1] \in Heads
                /\ o.slot = <<LoopEnd[Walk[j].slot[1]], 0>>
    BY <1>1, SourceOf DEF here
  <2>2. Walk[j].kind # "head" /\ Exit(j) = o.slot
    BY <2>1 DEF Exit
  <2>3. ports[o.slot] = OpenedBy(z, st[z])
    BY <2>1, <2>2 DEF Drive, Opened
  <2>4. z \in Slots
    BY <1>1, SourceOf DEF here
  <2>5. RowOK(z, st[z])
    BY <2>4 DEF History
  <2> HIDE DEF z
  <2>6. CASE st[z].status # "succeeded"
    <3>1. ports[o.slot] = "unset"
      BY <2>3, <2>6 DEF OpenedBy
    <3>2. QED
      BY <2>6, <3>1 DEF Taken, JournalOpen, z
  <2>7. CASE st[z].status = "succeeded" /\ Kind[z] = "condition"
    <3>1. ports[o.slot] = st[z].out /\ st[z].out \in {"true", "false"}
      BY <2>3, <2>5, <2>7 DEF OpenedBy, RowOK
    <3>2. QED
      BY <2>7, <3>1 DEF Taken, JournalOpen, z
  <2>8. CASE st[z].status = "succeeded" /\ Kind[z] # "condition"
    <3>1. ports[o.slot] = "all"
      BY <2>3, <2>8 DEF OpenedBy
    <3>2. QED
      BY <2>8, <3>1 DEF Taken, JournalOpen, z
  <2>9. QED
    BY <2>6, <2>7, <2>8
<1>2. QED
  BY <1>1 DEF IsActive, JournalActive

(* The latch is what the journal says of a node. *)
LEMMA LatchAgrees ==
    ASSUME NEW st, NEW p, NEW a \in Stops, NEW l, Drive(st, p, a, l), Walk[a].kind = "node"
    PROVE  l <=> JournalLatched(st, Walk[a].slot)
<1>1. \A k \in Stops : Walk[k].slot = Walk[a].slot => k = a
  <2> SUFFICES ASSUME NEW k \in Stops, Walk[k].slot = Walk[a].slot PROVE k = a
    OBVIOUS
  <2>1. CASE Walk[k].kind = "node"
    BY <2>1, WalkTyped, ZenonT(60)
  <2>2. CASE Walk[k].kind # "node"
    BY <2>2, LoopStop, NodeStop
  <2>3. QED
    BY <2>1, <2>2
<1>2. OldBefore(st, a) <=>
        \E j, k \in Stops : /\ j < k /\ Walk[k].slot = Walk[a].slot
                            /\ Walk[j].slot[2] = 0 /\ st[Walk[j].slot].out = "old"
  <2>1. \A j : j \in 1..(a - 1) <=> j \in Stops /\ j < a
    BY WalkTyped
  <2>2. QED
    BY <1>1, <2>1 DEF OldBefore
<1>3. l <=> Redelivery \/ OldBefore(st, a)
  BY DEF Drive
<1>4. QED
  BY <1>2, <1>3, Zenon DEF JournalLatched

(* The present row of the walk may be written: it is not finished, unless   *)
(* it is that of a loop which succeeded.                                    *)
LEMMA WroteRow ==
    ASSUME GraphInv, pc \in InLoop, NEW z \in Slots, NEW e \in Rows, CloseRow(z, e),
           step[cur][z].status \notin Finished \/ step[cur][z] = e,
           RowOK(z, e), e.status # "none", Comes(step[cur], z),
           e.status = "skipped" => SkippedRightly(step[cur], z),
           \A f \in Heads : z = <<f, 0>> /\ e.status = "succeeded" => LoopDone(step[cur], f),
           fired' = fired
    PROVE  /\ step' \in [Runs -> [Slots -> Rows]] /\ Histories' /\ OneRow(z)
           /\ History(step'[cur], fired[cur]) /\ Stands(step[cur], step'[cur])
           /\ step'[cur][z] = e /\ \A s \in Slots : s # z => step'[cur][s] = step[cur][s]
<1>1. cur \in Runs /\ step \in [Runs -> [Slots -> Rows]] /\ History(step[cur], fired[cur])
  BY HasRun
<1>2. step' = [step EXCEPT ![cur][z] = e]
  BY DEF CloseRow
<1>3. /\ step' \in [Runs -> [Slots -> Rows]]
      /\ \A r \in Runs, q \in Slots : step'[r][q] = IF r = cur /\ q = z THEN e ELSE step[r][q]
  BY <1>1, <1>2, EntryTyped
<1>4. \A r \in Runs : r # cur => step'[r] = step[r]
  BY <1>1, <1>2
<1>5. step'[cur][z] = e /\ \A s \in Slots : s # z => step'[cur][s] = step[cur][s]
  BY <1>1, <1>3
<1>6. History(step'[cur], fired[cur]) /\ Stands(step[cur], step'[cur])
  <2>1. CASE step[cur][z] = e
    <3>1. step'[cur] = step[cur]
      BY <1>1, <1>2, <2>1
    <3>2. QED
      BY <1>1, <3>1 DEF Stands
  <2>2. CASE step[cur][z].status \notin Finished
    <3> DEFINE st == step[cur]
               st2 == step'[cur]
    <3>1. /\ RowOK(z, st2[z]) /\ st2[z].status # "none"
          /\ st2[z].status = "skipped" => SkippedRightly(st, z)
          /\ \A f \in Heads : z = <<f, 0>> /\ st2[z].status = "succeeded" => LoopDone(st, f)
      BY <1>5
    <3>2. History(st, fired[cur]) /\ st[z].status \notin Finished /\ Comes(st, z)
      BY <1>1, <2>2
    <3>3. \A s \in Slots : s # z => st2[s] = st[s]
      BY <1>5
    <3> HIDE DEF st, st2
    <3>4. History(st2, fired[cur]) /\ Stands(st, st2)
      BY <3>1, <3>2, <3>3, HistoryRow
    <3>5. QED
      BY <3>4 DEF st, st2
  <2>3. QED
    BY <2>1, <2>2
<1>7. Histories'
  BY <1>4, <1>6 DEF GraphInv, Histories
<1>8. OneRow(z)
  BY <1>1, <1>3 DEF OneRow
<1>9. QED
  BY <1>3, <1>5, <1>6, <1>7, <1>8

(* The types of the variables that a step of the walk writes. *)
LEMMA WorkTyped ==
    ASSUME RunTypeOK, WalkFrame, step' \in [Runs -> [Slots -> Rows]],
           stored' \in BOOLEAN, latch' \in BOOLEAN, outcome' \in Rows, failure' \in Failures,
           fired' \in [Runs -> [Slots -> Nat]], under' \subseteq Runs \X (Grants \cup {NoGrant}),
           drives' = drives
    PROVE  RunTypeOK' /\ UNCHANGED <<runStatus, runGrant, cur, drives, phase, tries>>
  BY DEF WalkFrame, RunTypeOK, Rows, adminVars, jobVars

LEMMA WorkTypedSeen ==
    ASSUME GraphInv, WalkFrame, step' \in [Runs -> [Slots -> Rows]],
           latch' \in BOOLEAN, UNCHANGED outcome, failure' \in Failures, UNCHANGED <<stored, seenVars>>
    PROVE  /\ RunTypeOK' /\ UNCHANGED <<runStatus, runGrant, cur, drives, phase, tries>>
           /\ fired' = fired /\ under' = under
<1>1. /\ RunTypeOK /\ fired \in [Runs -> [Slots -> Nat]] /\ outcome \in Rows
      /\ under \subseteq Runs \X (Grants \cup {NoGrant}) /\ stored \in BOOLEAN
  BY DEF GraphInv, RunInv, RunTyped, RunTypeOK, Rows
<1>2. QED
  BY <1>1, WorkTyped DEF seenVars

LEMMA SameOneRow ==
    ASSUME step' = step, fired' = fired, NEW s
    PROVE  OneRow(s)
  BY DEF OneRow

-----------------------------------------------------------------------------
(* The steps of the walk, one by one.                                       *)

LEMMA OpenedTyped ==
    ASSUME NEW s, NEW row, RowOK(s, row)
    PROVE  OpenedBy(s, row) \in PortValues
  BY DEF OpenedBy, RowOK, PortValues

LEMMA WentOn ==
    ASSUME GraphInv, pc \in InLoop, at \in Stops, NEW new \in [Slots -> PortValues], GoOn(new)
    PROVE  local' \in Locals /\ at' = at + 1 /\ ports' = new
<1>1. at + 1 \in 1..(Len(Walk) + 1)
  BY AtHere
<1>2. QED
  BY <1>1 DEF GoOn, Locals, at, ports

LEMMA Left ==
    ASSUME GraphInv, pc \in InLoop, at \in Stops, Walk[at].kind = "head", LeaveLoop
    PROVE  local' \in Locals /\ at' = CloseAt(here[1]) + 1 /\ ports' = ports
<1>1. local = [at |-> at, ports |-> ports] /\ ports \in [Slots -> PortValues]
  BY AtHere
<1>2. CloseAt(here[1]) + 1 \in 1..(Len(Walk) + 1)
  <2>1. here[1] \in Heads
    BY LoopStop DEF here
  <2>2. QED
    BY <2>1, LoopAt, WalkTyped
<1>3. local' = [at |-> CloseAt(here[1]) + 1, ports |-> ports]
  BY <1>1 DEF LeaveLoop
<1>4. QED
  BY <1>1, <1>2, <1>3 DEF Locals, at, ports

(* The walk goes on, or the drive leaves it. *)
LEMMA WalkOn ==
    ASSUME pc' \in {"walk", "err", "finish"}, local' \in Locals,
           pc' = "walk" => Drive(step'[cur'], ports', at', latch')
    PROVE  WalkTypes' /\ WalkState'
  BY DEF WalkTypes, WalkState, GraphPcs

LEMMA StepBegin ==
    ASSUME GraphInv, BeginWalk
    PROVE  GraphStep
<1>1. /\ pc = "ready" /\ pc' = "walk" /\ local' = [at |-> 1, ports |-> [s \in Slots |-> "unset"]]
      /\ latch' = Redelivery /\ step' = step /\ WalkFrame
      /\ UNCHANGED <<stored, outcome, failure, seenVars>>
  BY DEF BeginWalk
<1>2. step \in [Runs -> [Slots -> Rows]] /\ cur \in Runs
  BY <1>1, HasRun
<1>3. latch' \in BOOLEAN /\ failure' \in Failures
  BY <1>1, DriveAssumption DEF GraphInv, RunInv, RunTyped, RunTypeOK
<1>4. /\ RunTypeOK' /\ UNCHANGED <<runStatus, runGrant, cur, drives, phase, tries>>
      /\ fired' = fired /\ under' = under
  BY <1>1, <1>2, <1>3, WorkTypedSeen
<1>5. at' = 1 /\ ports' = [s \in Slots |-> "unset"] /\ local' \in Locals
  BY <1>1, WalkTyped DEF at, ports, Locals, PortValues
<1>6. \A s \in Slots : ports'[s] = "unset"
  BY <1>5
<1>7. Drive(step'[cur'], ports', 1, Redelivery)
  BY <1>6, DriveStart
<1>8. WalkTypes' /\ WalkState'
  BY <1>1, <1>5, <1>7, WalkOn
<1>9. Work(here)
  BY <1>1, <1>4, SameOneRow DEF Work, InBody
<1>10. Histories'
  BY <1>1, <1>4 DEF GraphInv, Histories
<1>11. QED
  BY <1>4, <1>8, <1>9, <1>10 DEF GraphStep

LEMMA StepRestore ==
    ASSUME GraphInv, Restore
    PROVE  GraphStep
<1> DEFINE row == step[cur][here]
           new == [ports EXCEPT ![here] = OpenedBy(here, row)]
<1>1. /\ pc = "walk" /\ pc' = "walk" /\ at <= Len(Walk) /\ Walk[at].kind = "node"
      /\ row.status \in Finished /\ GoOn(new) /\ latch' = LatchedBy(here, row)
      /\ step' = step /\ WalkFrame /\ UNCHANGED <<stored, outcome, failure, seenVars>>
  BY DEF Restore, AtStop
<1>2. /\ cur \in Runs /\ at \in Stops /\ here \in Slots /\ ports \in [Slots -> PortValues]
      /\ step \in [Runs -> [Slots -> Rows]] /\ History(step[cur], fired[cur])
  BY <1>1, HasRun, AtHere DEF InLoop
<1>3. RowOK(here, row)
  BY <1>2 DEF History
<1>4. new \in [Slots -> PortValues]
  BY <1>2, <1>3, OpenedTyped
<1>5. local' \in Locals /\ at' = at + 1 /\ ports' = new
  BY <1>1, <1>2, <1>4, WentOn DEF InLoop
<1>6. latch' \in BOOLEAN /\ failure' \in Failures
  BY <1>1 DEF LatchedBy, GraphInv, RunInv, RunTyped, RunTypeOK
<1>7. /\ RunTypeOK' /\ UNCHANGED <<runStatus, runGrant, cur, drives, phase, tries>>
      /\ fired' = fired /\ under' = under
  BY <1>1, <1>2, <1>6, WorkTypedSeen
<1>8. Drive(step[cur], ports, at, latch)
  BY <1>1 DEF GraphInv, WalkState
<1>9. new[here] = OpenedBy(here, row) /\ \A s \in Slots : s # here => new[s] = ports[s]
  BY <1>2
<1>10. latch' <=> latch \/ (here[2] = 0 /\ row.out = "old")
  BY <1>1, <1>3 DEF LatchedBy, RowOK
<1> HIDE DEF row, new
<1>11. Drive(step[cur], new, at + 1, latch')
  BY <1>1, <1>2, <1>8, <1>9, <1>10, DrivePass DEF here, row
<1>12. WalkTypes' /\ WalkState'
  BY <1>1, <1>5, <1>7, <1>11, WalkOn
<1>13. Work(here)
  BY <1>1, <1>7, SameOneRow DEF Work, InBody
<1>14. Histories'
  BY <1>1, <1>7 DEF GraphInv, Histories
<1>15. QED
  BY <1>7, <1>12, <1>13, <1>14 DEF GraphStep

LEMMA StepRestoreSkipped ==
    ASSUME GraphInv, RestoreSkippedLoop
    PROVE  GraphStep
<1>1. /\ pc = "walk" /\ pc' = "walk" /\ at <= Len(Walk) /\ Walk[at].kind = "head"
      /\ step[cur][here].status = "skipped" /\ LeaveLoop /\ latch' = latch
      /\ step' = step /\ WalkFrame /\ UNCHANGED <<stored, outcome, failure, seenVars>>
  BY DEF RestoreSkippedLoop, AtStop
<1>2. /\ cur \in Runs /\ at \in Stops
      /\ step \in [Runs -> [Slots -> Rows]] /\ History(step[cur], fired[cur])
  BY <1>1, HasRun, AtHere DEF InLoop
<1>3. latch' \in BOOLEAN /\ failure' \in Failures
  BY <1>1 DEF GraphInv, RunInv, RunTyped, RunTypeOK
<1>4. /\ RunTypeOK' /\ UNCHANGED <<runStatus, runGrant, cur, drives, phase, tries>>
      /\ fired' = fired /\ under' = under
  BY <1>1, <1>2, <1>3, WorkTypedSeen
<1>5. local' \in Locals /\ at' = CloseAt(here[1]) + 1 /\ ports' = ports
  BY <1>1, <1>2, Left DEF InLoop
<1>6. Drive(step[cur], ports, at, latch)
  BY <1>1 DEF GraphInv, WalkState
<1>7. Drive(step[cur], ports, CloseAt(here[1]) + 1, latch)
  BY <1>1, <1>2, <1>6, DriveLeave DEF here
<1>8. WalkTypes' /\ WalkState'
  BY <1>1, <1>4, <1>5, <1>7, WalkOn
<1>9. Work(here)
  BY <1>1, <1>4, SameOneRow DEF Work, InBody
<1>10. Histories'
  BY <1>1, <1>4 DEF GraphInv, Histories
<1>11. QED
  BY <1>4, <1>8, <1>9, <1>10 DEF GraphStep

LEMMA StepEnter ==
    ASSUME GraphInv, EnterLoop
    PROVE  GraphStep
<1>1. /\ pc = "step" /\ pc' = "walk" /\ Walk[at].kind = "head" /\ ~Skipping(here)
      /\ GoOn(ports) /\ latch' = latch
      /\ step' = step /\ WalkFrame /\ UNCHANGED <<stored, outcome, failure, seenVars>>
  BY DEF EnterLoop
<1>2. at \in Stops /\ Drive(step[cur], ports, at, latch)
  BY <1>1 DEF GraphInv, WalkState
<1>3. /\ cur \in Runs /\ ports \in [Slots -> PortValues]
      /\ step \in [Runs -> [Slots -> Rows]] /\ History(step[cur], fired[cur])
  BY <1>1, HasRun, AtHere DEF InLoop
<1>4. latch' \in BOOLEAN /\ failure' \in Failures
  BY <1>1 DEF GraphInv, RunInv, RunTyped, RunTypeOK
<1>5. /\ RunTypeOK' /\ UNCHANGED <<runStatus, runGrant, cur, drives, phase, tries>>
      /\ fired' = fired /\ under' = under
  BY <1>1, <1>3, <1>4, WorkTypedSeen
<1>6. local' \in Locals /\ at' = at + 1 /\ ports' = ports
  BY <1>1, <1>2, <1>3, WentOn DEF InLoop
<1>7. JournalActive(step[cur], here)
  BY <1>1, <1>2, <1>3, RoutesAgree DEF Skipping
<1>8. Drive(step[cur], ports, at + 1, latch)
  BY <1>1, <1>2, <1>3, <1>7, DriveEnter DEF here
<1>9. WalkTypes' /\ WalkState'
  BY <1>1, <1>5, <1>6, <1>8, WalkOn
<1>10. Work(here)
  BY <1>1, <1>5, SameOneRow DEF Work, InBody
<1>11. Histories'
  BY <1>1, <1>5 DEF GraphInv, Histories
<1>12. QED
  BY <1>5, <1>9, <1>10, <1>11 DEF GraphStep

(* A step that leaves the loop variables alone. *)
LEMMA StaysPut ==
    ASSUME UNCHANGED local
    PROVE  at' = at /\ ports' = ports /\ here' = here
  BY DEF at, ports, here

LEMMA StepOpen ==
    ASSUME GraphInv, OpenStep
    PROVE  GraphStep
<1> DEFINE st == step[cur]
           st2 == step'[cur]
<1>1. /\ pc = "walk" /\ pc' \in {"step", "err"} /\ at <= Len(Walk) /\ Walk[at].kind # "close"
      /\ st[here].status \in Finished => Walk[at].kind = "head" /\ st[here].status # "skipped"
      /\ OpenRow(here) /\ local' = local /\ latch' = latch /\ WalkFrame
      /\ UNCHANGED <<stored, outcome, failure, seenVars>>
  BY DEF OpenStep, AtStop
<1>2. /\ cur \in Runs /\ at \in Stops /\ here \in Slots
      /\ step \in [Runs -> [Slots -> Rows]] /\ History(st, fired[cur])
  BY <1>1, HasRun, AtHere DEF InLoop
<1>3. Drive(st, ports, at, latch)
  BY <1>1 DEF GraphInv, WalkState
<1>4. RunTypeOK /\ latch' \in BOOLEAN /\ failure' \in Failures
  BY <1>1 DEF GraphInv, RunInv, RunTyped, RunTypeOK
<1>5. /\ step' \in [Runs -> [Slots -> Rows]]
      /\ \A r \in Runs, q \in Slots : step'[r][q] # step[r][q] =>
            /\ r = cur /\ q = here /\ step[r][q].status = "none"
            /\ step'[r][q].status = "running" /\ step'[r][q].out = step[r][q].out
      /\ st2[here].status # "none"
      /\ st[here].status # "none" => step' = step
  BY <1>1, <1>2, <1>4, OpenRowEffect
<1>6. /\ RunTypeOK' /\ UNCHANGED <<runStatus, runGrant, cur, drives, phase, tries>>
      /\ fired' = fired /\ under' = under
  BY <1>1, <1>4, <1>5, WorkTypedSeen
<1>7. \A s \in Slots : s # here => st2[s] = st[s]
  BY <1>2, <1>5
<1>8. \A r \in Runs : r # cur => step'[r] = step[r]
  BY <1>2, <1>5
<1>9. History(st2, fired[cur]) /\ Stands(st, st2)
  <2>1. CASE st[here].status # "none"
    BY <1>2, <1>5, <2>1 DEF Stands
  <2>2. CASE st[here].status = "none"
    <3>1. st2[here].status = "running" /\ st2[here].out = st[here].out
      BY <1>2, <1>5, <2>2
    <3>2. RowOK(here, st2[here])
      <4>1. RowOK(here, st[here])
        BY <1>2 DEF History
      <4>2. QED
        BY <2>2, <3>1, <4>1 DEF RowOK
    <3>3. Comes(st, here)
      BY <1>1, <1>2, <1>3, ReachedHere DEF here
    <3>4. st[here].status \notin Finished
      BY <2>2 DEF Finished
    <3> HIDE DEF st, st2
    <3>5. QED
      BY <1>2, <1>7, <3>1, <3>2, <3>3, <3>4, HistoryRow
  <2>3. QED
    BY <2>1, <2>2
<1>10. Histories'
  BY <1>2, <1>6, <1>8, <1>9 DEF GraphInv, Histories
<1>11. Drive(st2, ports, at, latch)
  <2> HIDE DEF st, st2
  <2>1. QED
    BY <1>2, <1>3, <1>7, <1>9, DriveStands DEF here
<1>12. st2[here].status \in Finished => Walk[at].kind = "head" /\ st2[here].status = "succeeded"
  BY <1>1, <1>2, <1>5 DEF Finished
<1>13. at' = at /\ ports' = ports /\ here' = here
  BY <1>1, StaysPut
<1>14. WalkTypes' /\ WalkState'
  <2>1. local' \in Locals
    BY <1>1 DEF GraphInv, WalkTypes, InLoop
  <2>2. WalkTypes'
    BY <1>1, <2>1 DEF WalkTypes, GraphPcs
  <2>3. pc' # "record" /\ pc' # "loopfail" /\ pc' # "walk"
    BY <1>1
  <2>4. pc' = "step" =>
          /\ Drive(step'[cur'], ports', at', latch') /\ at' \in Stops /\ Walk[at'].kind # "close"
          /\ step'[cur'][here'].status # "none"
          /\ step'[cur'][here'].status \in Finished =>
                Walk[at'].kind = "head" /\ step'[cur'][here'].status = "succeeded"
    BY <1>1, <1>2, <1>5, <1>6, <1>11, <1>12, <1>13
  <2>5. QED
    BY <2>2, <2>3, <2>4, Zenon DEF WalkState
<1>15. OneRow(here)
  BY <1>2, <1>5, <1>6 DEF OneRow, Finished
<1>16. Work(here)
  BY <1>1, <1>6, <1>15 DEF Work, InBody
<1>17. QED
  BY <1>6, <1>10, <1>14, <1>16 DEF GraphStep

LEMMA StepSkip ==
    ASSUME GraphInv, SkipStep
    PROVE  GraphStep
<1> DEFINE st == step[cur]
           st2 == step'[cur]
           e == [status |-> "skipped", out |-> "none"]
<1>1. /\ pc = "step" /\ pc' \in {"walk", "err"} /\ Skipping(here)
      /\ IF Walk[at].kind = "head" THEN LeaveLoop ELSE GoOn(ports)
      /\ CloseRow(here, e) /\ latch' = latch /\ WalkFrame
      /\ UNCHANGED <<stored, outcome, failure, seenVars>>
  BY DEF SkipStep
<1>2. /\ at \in Stops /\ Walk[at].kind # "close" /\ Drive(st, ports, at, latch)
      /\ st[here].status \in Finished => Walk[at].kind = "head" /\ st[here].status = "succeeded"
  BY <1>1 DEF GraphInv, WalkState
<1>3. /\ cur \in Runs /\ here \in Slots /\ ports \in [Slots -> PortValues]
      /\ step \in [Runs -> [Slots -> Rows]] /\ History(st, fired[cur])
  BY <1>1, <1>2, HasRun, AtHere DEF InLoop
<1>4. RunTypeOK /\ latch' \in BOOLEAN /\ failure' \in Failures /\ fired' = fired
  BY <1>1 DEF GraphInv, RunInv, RunTyped, RunTypeOK, seenVars
<1>5. IsActive(here) <=> JournalActive(st, here)
  BY <1>2, <1>3, RoutesAgree
<1>6. Walk[at].kind = "head" =>
          here[1] \in Heads /\ here = <<here[1], 0>> /\ ~GatedOnRedelivery(here)
  <2> SUFFICES ASSUME Walk[at].kind = "head"
               PROVE  here[1] \in Heads /\ here = <<here[1], 0>> /\ ~GatedOnRedelivery(here)
    OBVIOUS
  <2>1. here[1] \in Heads /\ here = <<here[1], 0>>
    BY <1>2, LoopStop DEF here
  <2>2. Kind[<<here[1], 0>>] = "foreach"
    BY <2>1, LoopSlots
  <2>3. QED
    BY <2>1, <2>2 DEF GatedOnRedelivery
<1>7. st[here].status \notin Finished
  <2> SUFFICES ASSUME st[here].status \in Finished PROVE FALSE
    OBVIOUS
  <2>1. Walk[at].kind = "head" /\ st[here].status = "succeeded"
    BY <1>2
  <2>2. here[1] \in Heads /\ st[<<here[1], 0>>].status = "succeeded" /\ ~GatedOnRedelivery(here)
    BY <1>6, <2>1
  <2>3. LoopDone(st, here[1])
    BY <1>3, <2>2 DEF History
  <2>4. JournalActive(st, here)
    BY <1>6, <2>1, <2>3 DEF LoopDone
  <2>5. QED
    BY <1>1, <1>5, <2>2, <2>4 DEF Skipping
<1>8. SkippedRightly(st, here)
  <2>1. CASE ~IsActive(here)
    BY <1>5, <2>1 DEF SkippedRightly
  <2>2. CASE latch /\ GatedOnRedelivery(here)
    <3>1. Walk[at].kind = "node"
      BY <1>2, <1>6, <2>2, WalkTyped
    <3>2. JournalLatched(st, here)
      BY <1>2, <2>2, <3>1, LatchAgrees DEF here
    <3>3. QED
      BY <2>2, <3>2 DEF SkippedRightly
  <2>3. QED
    BY <1>1, <2>1, <2>2 DEF Skipping
<1>9. e \in Rows /\ e.status = "skipped" /\ e.out = "none" /\ RowOK(here, e)
  BY RowsGiven DEF RowOK
<1>10. Comes(st, here)
  BY <1>2, ReachedHere DEF here
<1> HIDE DEF e
<1>11. /\ step' \in [Runs -> [Slots -> Rows]] /\ Histories' /\ OneRow(here)
       /\ History(st2, fired[cur]) /\ Stands(st, st2)
       /\ st2[here] = e /\ \A s \in Slots : s # here => st2[s] = st[s]
  BY <1>1, <1>3, <1>4, <1>7, <1>8, <1>9, <1>10, WroteRow DEF InLoop
<1>12. /\ RunTypeOK' /\ UNCHANGED <<runStatus, runGrant, cur, drives, phase, tries>>
       /\ fired' = fired /\ under' = under
  BY <1>1, <1>4, <1>11, WorkTypedSeen
<1> HIDE DEF st, st2
<1>13. Drive(st2, ports, at, latch)
  BY <1>2, <1>3, <1>11, DriveStands DEF here
<1>14. local' \in Locals /\ Drive(st2, ports', at', latch')
  <2>1. CASE Walk[at].kind = "head"
    <3>1. local' \in Locals /\ at' = CloseAt(here[1]) + 1 /\ ports' = ports
      BY <1>1, <1>2, <2>1, Left DEF InLoop
    <3>2. Drive(st2, ports, CloseAt(here[1]) + 1, latch)
      BY <1>2, <1>9, <1>11, <1>13, <2>1, DriveLeave DEF here
    <3>3. QED
      BY <1>1, <3>1, <3>2
  <2>2. CASE Walk[at].kind # "head"
    <3>1. local' \in Locals /\ at' = at + 1 /\ ports' = ports
      BY <1>1, <1>2, <1>3, <2>2, WentOn DEF InLoop
    <3>2. Walk[at].kind = "node" /\ Exit(at) = here /\ at \in Nat
      BY <1>2, <2>2, WalkTyped DEF Exit, here
    <3>3. ports[here] = "unset"
      <4>1. at >= at
        BY <3>2
      <4>2. QED
        BY <1>2, <1>13, <2>2, <3>2, <4>1 DEF Drive, Ahead
    <3>4. st2[here].status = "skipped" /\ st2[here].out = "none"
      BY <1>9, <1>11
    <3>5. ports[here] = OpenedBy(here, st2[here]) /\ st2[here].status \in Finished
      BY <3>3, <3>4 DEF OpenedBy, Finished
    <3>6. latch <=> latch \/ (here[2] = 0 /\ st2[here].out = "old")
      BY <3>4
    <3>7. Drive(st2, ports, at + 1, latch)
      BY <1>2, <1>13, <3>2, <3>5, <3>6, DrivePass DEF here
    <3>8. QED
      BY <1>1, <3>1, <3>7
  <2>3. QED
    BY <2>1, <2>2
<1>15. WalkTypes' /\ WalkState'
  BY <1>1, <1>12, <1>14, WalkOn DEF st2
<1>16. Work(here)
  BY <1>1, <1>11, <1>12 DEF Work, InBody
<1>17. QED
  BY <1>11, <1>12, <1>15, <1>16 DEF GraphStep

LEMMA NodeResultTyped ==
    ASSUME NEW k \in Stops, Walk[k].kind = "node", NEW e \in NodeResults(Walk[k].slot)
    PROVE  e \in Rows /\ e.status \in {"succeeded", "failed"} /\ RowOK(Walk[k].slot, e)
<1> DEFINE s == Walk[k].slot
<1>0. s[1] \notin Heads
  BY NodeStop
<1>1. CASE Kind[s] = "trigger"
  <2>1. e = [status |-> "succeeded", out |-> "none"]
    BY <1>1 DEF NodeResults
  <2>2. QED
    BY <1>0, <1>1, <2>1, RowsGiven DEF RowOK
<1>2. CASE Kind[s] = "condition"
  <2>1. e = Failed \/ e \in [status : {"succeeded"}, out : {"true", "false"}]
    BY <1>2 DEF NodeResults
  <2>2. QED
    BY <1>0, <1>2, <2>1 DEF RowOK, Failed, Rows, StepStatuses, Outs
<1>3. CASE Kind[s] # "trigger" /\ Kind[s] # "condition"
  <2>1. e \in ActionResults(s)
    BY <1>3 DEF NodeResults
  <2>2. /\ e \in Rows /\ e.status \in {"succeeded", "failed"}
        /\ e.status = "failed" => e.out = "none"
    BY <2>1, ResultTyped
  <2>3. RowOK(s, e)
    BY <1>0, <1>3, <2>2 DEF RowOK
  <2>4. QED
    BY <2>2, <2>3
<1>4. QED
  BY <1>1, <1>2, <1>3

LEMMA StepRun ==
    ASSUME GraphInv, RunStep
    PROVE  GraphStep
<1> DEFINE st == step[cur]
<1>1. /\ pc = "step" /\ pc' = "record" /\ Walk[at].kind = "node" /\ ~Skipping(here)
      /\ outcome' \in NodeResults(here) /\ Fire(here) /\ WalkFrame
      /\ stored' \in IF Kind[here] # "write" THEN {stored}
                     ELSE IF outcome'.status = "succeeded" THEN {TRUE} ELSE {stored, TRUE}
      /\ step' = step /\ latch' = latch /\ local' = local /\ failure' = failure
  BY DEF RunStep, Execute
<1>2. /\ at \in Stops /\ Drive(st, ports, at, latch) /\ st[here].status # "none"
      /\ st[here].status \notin Finished
  BY <1>1 DEF GraphInv, WalkState
<1>3. /\ cur \in Runs /\ here \in Slots
      /\ step \in [Runs -> [Slots -> Rows]] /\ History(st, fired[cur])
      /\ fired \in [Runs -> [Slots -> Nat]]
  BY <1>1, <1>2, HasRun, AtHere DEF InLoop
<1>4. /\ RunTypeOK /\ latch' \in BOOLEAN /\ failure' \in Failures /\ stored' \in BOOLEAN
      /\ drives' = drives /\ under' = under \cup {<<cur, runGrant[cur]>>}
  BY <1>1 DEF GraphInv, RunInv, RunTyped, RunTypeOK, Fire, Authority
<1>5. /\ fired' \in [Runs -> [Slots -> Nat]]
      /\ \A r \in Runs, q \in Slots :
            fired'[r][q] = IF r = cur /\ q = here THEN fired[r][q] + 1 ELSE fired[r][q]
      /\ under' \subseteq Runs \X (Grants \cup {NoGrant})
  BY <1>1, <1>3, <1>4, FireEffect
<1>6. outcome' \in Rows /\ outcome'.status \in {"succeeded", "failed"} /\ RowOK(here, outcome')
  BY <1>1, <1>2, NodeResultTyped DEF here
<1>7. RunTypeOK' /\ UNCHANGED <<runStatus, runGrant, cur, drives, phase, tries>>
  BY <1>1, <1>3, <1>4, <1>5, <1>6, WorkTyped
<1>8. JournalActive(st, here)
  BY <1>1, <1>2, <1>3, RoutesAgree DEF Skipping
<1>9. Histories'
  <2>1. \A r \in Runs : r # cur => fired'[r] = fired[r]
    BY <1>3, <1>5
  <2>2. here[1] \notin Heads
    BY <1>1, <1>2, NodeStop DEF here
  <2>3. \A s \in Slots : s # here => fired'[cur][s] = fired[cur][s]
    BY <1>3, <1>5
  <2>4. History(st, fired'[cur])
    BY <1>2, <1>3, <1>8, <2>2, <2>3, HistoryFire
  <2>5. QED
    BY <1>1, <1>3, <2>1, <2>4 DEF GraphInv, Histories
<1>10. at' = at /\ ports' = ports /\ here' = here
  BY <1>1, StaysPut
<1>11. WalkTypes' /\ WalkState'
  <2>1. WalkTypes'
    BY <1>1 DEF GraphInv, WalkTypes, GraphPcs, InLoop
  <2>2. /\ Drive(step'[cur'], ports', at', latch') /\ at' \in Stops /\ Walk[at'].kind = "node"
        /\ step'[cur'][here'].status # "none" /\ step'[cur'][here'].status \notin Finished
        /\ outcome'.status \in {"succeeded", "failed"} /\ RowOK(here', outcome')
    BY <1>1, <1>2, <1>6, <1>7, <1>10
  <2>3. QED
    BY <1>1, <2>1, <2>2 DEF WalkState
<1>12. OneRow(here)
  BY <1>1, <1>2, <1>3, <1>5 DEF OneRow
<1>13. Work(here)
  BY <1>1, <1>4, <1>7, <1>12 DEF Work, InBody
<1>14. QED
  BY <1>7, <1>9, <1>11, <1>13 DEF GraphStep

(* A step that was executed and not recorded is the present one. *)
LEMMA PendingHere ==
    ASSUME NEW st, NEW fi, History(st, fi), NEW p, NEW a \in Stops, NEW l, Drive(st, p, a, l),
           Walk[a].kind = "node", st[Walk[a].slot].status \notin Finished
    PROVE  Pending(fi, st) \subseteq {Walk[a].slot}
<1> SUFFICES ASSUME NEW t \in Slots, fi[t] > 0, st[t].status \notin Finished, t # Walk[a].slot
             PROVE  FALSE
  BY DEF Pending
<1>1. st[t].status # "none" /\ t[1] \notin Heads /\ Comes(st, t)
  BY DEF History
<1>2. PICK k \in Stops : Walk[k].kind # "close" /\ Walk[k].slot = t /\ Reached(st, k)
  BY <1>1 DEF Comes
<1>3. Walk[k].kind = "node"
  BY <1>1, <1>2, LoopStop
<1>4. ASSUME NEW j \in Stops, Walk[j].kind = "node", Reached(st, j), SettledAt(st, j)
      PROVE  st[Walk[j].slot].status \in Finished
  <2>1. \A f \in Heads : Iteration(Walk[j].slot, f) => st[<<f, 0>>].status # "skipped"
    BY <1>4, ActiveLoop DEF Reached
  <2>2. QED
    BY <1>4, <2>1 DEF SettledAt
<1>5. Reached(st, a)
  BY ReachedHere
<1>6. CASE k < a
  <2>1. k \in 1..(a - 1)
    BY <1>6, WalkTyped
  <2>2. SettledAt(st, k)
    BY <2>1 DEF Drive, Behind
  <2>3. QED
    BY <1>2, <1>3, <1>4, <2>2
<1>7. CASE a < k
  <2>1. a \in 1..(k - 1)
    BY <1>7, WalkTyped
  <2>2. SettledAt(st, a)
    BY <1>2, <2>1 DEF Reached
  <2>3. QED
    BY <1>4, <1>5, <2>2
<1>8. k < a \/ a < k
  BY <1>2, WalkTyped
<1>9. QED
  BY <1>6, <1>7, <1>8

LEMMA StepRecord ==
    ASSUME GraphInv, RecordStep
    PROVE  GraphStep
<1> DEFINE st == step[cur]
           st2 == step'[cur]
           new == [ports EXCEPT ![here] = OpenedBy(here, outcome)]
<1>1. /\ pc = "record" /\ CloseRow(here, outcome) /\ latch' = LatchedBy(here, outcome) /\ GoOn(new)
      /\ WalkFrame /\ UNCHANGED <<stored, outcome, seenVars>>
      /\ \/ pc' = "err" /\ failure' = failure
         \/ pc' = "walk" /\ outcome.status # "failed" /\ failure' = failure
         \/ pc' = "finish" /\ failure' = "action"
         \/ pc' = "loopfail" /\ outcome.status = "failed" /\ here[2] # 0 /\ failure' = failure
  BY DEF RecordStep, FailRun
<1>2. /\ at \in Stops /\ Walk[at].kind = "node" /\ Drive(st, ports, at, latch)
      /\ st[here].status \notin Finished
      /\ outcome.status \in {"succeeded", "failed"} /\ RowOK(here, outcome)
  BY <1>1 DEF GraphInv, WalkState
<1>3. /\ cur \in Runs /\ here \in Slots /\ here[2] \in Nat /\ ports \in [Slots -> PortValues]
      /\ step \in [Runs -> [Slots -> Rows]] /\ History(st, fired[cur]) /\ at \in Nat
  BY <1>1, <1>2, HasRun, AtHere DEF InLoop
<1>4. /\ RunTypeOK /\ latch' \in BOOLEAN /\ failure' \in Failures /\ fired' = fired
      /\ outcome \in Rows
  BY <1>1 DEF GraphInv, RunInv, RunTyped, RunTypeOK, Rows, seenVars, LatchedBy, Failures
<1>5. \A f \in Heads : here # <<f, 0>>
  BY <1>2, NodeStop DEF here
<1>6. Comes(st, here)
  BY <1>2, ReachedHere DEF here
<1>7. /\ step' \in [Runs -> [Slots -> Rows]] /\ Histories' /\ OneRow(here)
      /\ History(st2, fired[cur]) /\ Stands(st, st2)
      /\ st2[here] = outcome /\ \A s \in Slots : s # here => st2[s] = st[s]
  <2>1. outcome.status # "none" /\ outcome.status # "skipped"
    BY <1>2
  <2>2. QED
    BY <1>1, <1>2, <1>3, <1>4, <1>5, <1>6, <2>1, WroteRow DEF InLoop
<1>8. /\ RunTypeOK' /\ UNCHANGED <<runStatus, runGrant, cur, drives, phase, tries>>
      /\ fired' = fired /\ under' = under
  BY <1>1, <1>4, <1>7, WorkTypedSeen
<1>9. new \in [Slots -> PortValues]
  BY <1>2, <1>3, OpenedTyped
<1>10. local' \in Locals /\ at' = at + 1 /\ ports' = new
  BY <1>1, <1>2, <1>9, WentOn DEF InLoop
<1>11. new[here] = OpenedBy(here, outcome) /\ \A s \in Slots : s # here => new[s] = ports[s]
  BY <1>3
<1>12. latch' <=> latch \/ (here[2] = 0 /\ outcome.out = "old")
  BY <1>1, <1>2 DEF LatchedBy, RowOK
<1> HIDE DEF new, st, st2
<1>13. pc' = "walk" => outcome.status = "succeeded"
  BY <1>1, <1>2
<1>14. Drive(st2, ports, at, latch)
  BY <1>2, <1>3, <1>7, DriveStands DEF here
<1>15. pc' = "walk" => Drive(st2, new, at + 1, latch')
  <2> SUFFICES ASSUME outcome.status = "succeeded" PROVE Drive(st2, new, at + 1, latch')
    BY <1>13
  <2>1. st2[here].status \in Finished
    BY <1>7 DEF Finished
  <2>2. QED
    BY <1>2, <1>7, <1>11, <1>12, <1>14, <2>1, DrivePass DEF here
<1>16. WalkTypes' /\ WalkState'
  <2>1. CASE pc' # "loopfail"
    BY <1>1, <1>8, <1>10, <1>15, <2>1, WalkOn DEF st2
  <2>2. CASE pc' = "loopfail"
    <3>1. at' - 1 = at
      BY <1>3, <1>10
    <3>2. Walk[at' - 1].slot = here
      BY <3>1 DEF here
    <3>3. step'[cur'] = st2
      BY <1>8 DEF st2
    <3>4. here[2] > 0 /\ st2[here].status = "failed"
      BY <1>1, <1>3, <1>7, <2>2
    <3>5. WalkTypes'
      BY <1>10, <2>2 DEF WalkTypes, GraphPcs
    <3>6. /\ at' - 1 \in Stops /\ Walk[at' - 1].slot[2] > 0
          /\ step'[cur'][Walk[at' - 1].slot].status = "failed"
      BY <1>2, <3>1, <3>2, <3>3, <3>4
    <3>7. QED
      BY <2>2, <3>5, <3>6 DEF WalkState
  <2>3. QED
    BY <2>1, <2>2
<1>17. Work(here)
  <2>1. Pending(fired[cur], st) \subseteq {here}
    BY <1>2, <1>3, PendingHere DEF here
  <2>2. pc' \in {"walk", "step"} => st2[here].status \in Finished
    BY <1>1, <1>7, <1>13 DEF Finished
  <2>3. pc' = "finish" => failure' # "none"
    BY <1>1
  <2>4. pc' \in {"walk", "err", "finish", "loopfail"}
    BY <1>1
  <2>5. QED
    BY <1>1, <1>7, <1>8, <2>1, <2>2, <2>3, <2>4 DEF Work, InBody, st, st2
<1>18. QED
  BY <1>7, <1>8, <1>16, <1>17 DEF GraphStep

(* The loop that a failed body node fails is its own. *)
LEMMA CurrentLoop ==
    ASSUME at \in Nat, at - 1 \in Stops, Walk[at - 1].slot[2] > 0
    PROVE  CurrentHead \in Heads /\ Iteration(Walk[at - 1].slot, CurrentHead)
<1> DEFINE b == at - 1
           P(g) == \E k \in at..Len(Walk) : /\ Walk[k] = Stop("close", g, 0)
                                            /\ \A j \in at..(k - 1) : Walk[j].kind # "close"
<1>1. Walk[b].kind = "node"
  <2> SUFFICES ASSUME Walk[b].kind # "node" PROVE FALSE
    OBVIOUS
  <2>1. Walk[b].slot = <<Walk[b].slot[1], 0>>
    BY LoopStop
  <2>2. QED
    BY <2>1
<1>2. PICK f \in Heads : Iteration(Walk[b].slot, f)
  BY <1>1, NodeStop
<1>3. HeadAt(f) < b /\ b < CloseAt(f) /\ CloseAt(f) \in Stops /\ HeadAt(f) \in Stops
  BY <1>2, LoopAt
<1>4. /\ Len(Walk) \in Nat /\ HeadAt(f) \in Nat /\ CloseAt(f) \in at..Len(Walk)
      /\ CloseAt(f) \in Nat
  BY <1>3, WalkTyped
<1>5. \A j \in at..(CloseAt(f) - 1) : Walk[j].kind = "node"
  <2> SUFFICES ASSUME NEW j \in at..(CloseAt(f) - 1) PROVE Walk[j].kind = "node"
    OBVIOUS
  <2>1. j \in Stops /\ HeadAt(f) < j /\ j < CloseAt(f)
    BY <1>3, <1>4, WalkTyped
  <2>2. QED
    BY <2>1, LoopAt
<1>6. Walk[CloseAt(f)] = Stop("close", f, 0)
  BY WalkAssumption DEF WalkShape, LoopsWhole
<1>7. P(f)
  BY <1>4, <1>5, <1>6
<1>8. ASSUME NEW g \in Heads, P(g)
      PROVE  g = f
  <2>1. PICK k \in at..Len(Walk) : /\ Walk[k] = Stop("close", g, 0)
                                   /\ \A j \in at..(k - 1) : Walk[j].kind # "close"
    BY <1>8
  <2>2. Walk[k].kind = "close" /\ Walk[k].slot = <<g, 0>>
    BY <2>1 DEF Stop
  <2>3. ~(k < CloseAt(f))
    BY <1>4, <1>5, <2>2
  <2>4. ~(CloseAt(f) < k)
    <3>1. CloseAt(f) < k => CloseAt(f) \in at..(k - 1)
      BY <1>4
    <3>2. QED
      BY <2>1, <3>1, LoopAt
  <2>5. k = CloseAt(f)
    BY <1>4, <2>3, <2>4
  <2>6. <<g, 0>> = <<f, 0>>
    BY <2>2, <2>5, LoopAt
  <2>7. QED
    BY <2>6
<1>9. CurrentHead = CHOOSE g \in Heads : P(g)
  BY DEF CurrentHead
<1> HIDE DEF P
<1>10. CurrentHead = f
  BY <1>7, <1>8, <1>9
<1>11. QED
  BY <1>2, <1>10

(* The walk has come to a loop when it has come into it, or behind it. *)
LEMMA HeadComes ==
    ASSUME NEW st, NEW f \in Heads, NEW k \in Nat, HeadAt(f) < k,
           \A j \in 1..(k - 1) : SettledAt(st, j)
    PROVE  Comes(st, <<f, 0>>)
<1>1. HeadAt(f) \in Stops /\ HeadAt(f) \in Nat
  BY LoopAt, WalkTyped
<1>2. \A j \in 1..(HeadAt(f) - 1) : j \in 1..(k - 1)
  BY <1>1
<1>3. \A g \in Heads : ~Iteration(<<f, 0>>, g)
  BY DEF Iteration
<1>4. Reached(st, HeadAt(f))
  BY <1>2, <1>3, LoopAt DEF Reached
<1>5. QED
  BY <1>1, <1>4, LoopAt DEF Comes

LEMMA StepFailLoop ==
    ASSUME GraphInv, FailLoop
    PROVE  GraphStep
<1> DEFINE st == step[cur]
           st2 == step'[cur]
           h == CurrentHead
           t == Walk[at - 1].slot
<1>1. /\ pc = "loopfail" /\ CloseRow(<<h, 0>>, Failed) /\ local' = local /\ latch' = latch
      /\ WalkFrame /\ UNCHANGED <<stored, outcome, seenVars>>
      /\ (pc' = "finish" /\ failure' = "action") \/ (pc' = "err" /\ failure' = failure)
  BY DEF FailLoop, FailRun
<1>2. at - 1 \in Stops /\ t[2] > 0 /\ st[t].status = "failed"
  BY <1>1 DEF GraphInv, WalkState
<1>3. /\ cur \in Runs /\ step \in [Runs -> [Slots -> Rows]] /\ History(st, fired[cur]) /\ at \in Nat
  BY <1>1, HasRun, AtHere DEF InLoop
<1>4. /\ RunTypeOK /\ latch' \in BOOLEAN /\ failure' \in Failures /\ fired' = fired
  BY <1>1 DEF GraphInv, RunInv, RunTyped, RunTypeOK, seenVars, Failures
<1>5. h \in Heads /\ Iteration(t, h)
  BY <1>2, <1>3, CurrentLoop
<1>6. t \in Slots /\ <<h, 0>> \in Slots
  BY <1>2, <1>5, WalkTyped, LoopSlots
<1>7. PICK k \in Stops : Walk[k].kind # "close" /\ Walk[k].slot = t /\ Reached(st, k)
  BY <1>2, <1>3, <1>6 DEF History, Comes
<1> HIDE DEF h, t
<1>8. \A g \in Heads : Iteration(t, g) => st[<<g, 0>>].status # "skipped"
  BY <1>3, <1>7, ActiveLoop DEF Reached
<1>9. st[<<h, 0>>].status # "succeeded"
  <2> SUFFICES ASSUME st[<<h, 0>>].status = "succeeded" PROVE FALSE
    OBVIOUS
  <2>1. LoopDone(st, h)
    BY <1>3, <1>5 DEF History
  <2>2. HeadAt(h) < k /\ k < CloseAt(h) /\ Walk[k].kind = "node"
    BY <1>5, <1>7, LoopAt
  <2>3. k \in 1..(CloseAt(h) - 1)
    BY <1>5, <2>2, LoopAt, WalkTyped
  <2>4. SettledAt(st, k)
    BY <2>1, <2>3 DEF LoopDone
  <2>5. QED
    BY <1>2, <1>7, <1>8, <2>2, <2>4 DEF SettledAt, Finished
<1>10. st[<<h, 0>>].status \notin Finished
  BY <1>5, <1>8, <1>9 DEF Finished
<1>11. Comes(st, <<h, 0>>)
  <2>1. HeadAt(h) < k /\ k \in Nat
    BY <1>5, <1>7, LoopAt, WalkTyped
  <2>2. QED
    BY <1>5, <1>7, <2>1, HeadComes DEF Reached
<1>12. Failed \in Rows /\ Failed.status = "failed" /\ RowOK(<<h, 0>>, Failed)
  BY RowsGiven DEF RowOK, Failed
<1>13. step' \in [Runs -> [Slots -> Rows]] /\ Histories' /\ OneRow(<<h, 0>>)
  BY <1>1, <1>4, <1>6, <1>10, <1>11, <1>12, WroteRow DEF InLoop
<1>14. /\ RunTypeOK' /\ UNCHANGED <<runStatus, runGrant, cur, drives, phase, tries>>
       /\ fired' = fired /\ under' = under
  BY <1>1, <1>4, <1>13, WorkTypedSeen
<1>15. WalkTypes' /\ WalkState'
  <2>1. local' \in Locals
    BY <1>1 DEF GraphInv, WalkTypes, InLoop
  <2>2. QED
    BY <1>1, <2>1, WalkOn
<1>16. Work(<<h, 0>>)
  BY <1>1, <1>13, <1>14 DEF Work, InBody
<1>17. QED
  BY <1>13, <1>14, <1>15, <1>16 DEF GraphStep

LEMMA StepClose ==
    ASSUME GraphInv, CloseLoop
    PROVE  GraphStep
<1> DEFINE st == step[cur]
           st2 == step'[cur]
           f == here[1]
           e == IF Iterable(f) THEN [status |-> "succeeded", out |-> "none"] ELSE Failed
           new == [ports EXCEPT ![here] = "all", ![<<LoopEnd[f], 0>>] = "all"]
<1>1. /\ pc = "walk" /\ at <= Len(Walk) /\ Walk[at].kind = "close" /\ CloseRow(here, e)
      /\ latch' = latch /\ WalkFrame /\ UNCHANGED <<stored, outcome, seenVars>>
      /\ \/ Iterable(f) /\ GoOn(new) /\ pc' \in {"walk", "err"} /\ failure' = failure
         \/ /\ ~Iterable(f) /\ local' = local
            /\ (pc' = "finish" /\ failure' = "action") \/ (pc' = "err" /\ failure' = failure)
  BY DEF CloseLoop, AtStop, FailRun
<1>2. /\ cur \in Runs /\ at \in Stops /\ here \in Slots /\ at \in Nat
      /\ ports \in [Slots -> PortValues] /\ step[cur] \in [Slots -> Rows]
      /\ step \in [Runs -> [Slots -> Rows]] /\ History(st, fired[cur])
  BY <1>1, HasRun, AtHere DEF InLoop
<1>3. Drive(st, ports, at, latch)
  BY <1>1 DEF GraphInv, WalkState
<1>4. RunTypeOK /\ latch' \in BOOLEAN /\ failure' \in Failures /\ fired' = fired
  BY <1>1 DEF GraphInv, RunInv, RunTyped, RunTypeOK, seenVars, Failures
<1>5. /\ f \in Heads /\ here = <<f, 0>> /\ at = CloseAt(f) /\ HeadAt(f) < at
  BY <1>1, <1>2, LoopStop, LoopAt DEF here
<1>6. JournalActive(st, <<f, 0>>)
  BY <1>2, <1>3, <1>5 DEF Drive, InActiveLoop
<1>7. st[here].status # "skipped"
  BY <1>2, <1>5, <1>6, ActiveLoop
<1>8. Exit(at) = <<LoopEnd[f], 0>> /\ <<LoopEnd[f], 0>> \in Slots
  BY <1>1, <1>5, LoopSlots DEF Exit, here
<1>9. new \in [Slots -> PortValues] /\ new[<<LoopEnd[f], 0>>] = "all"
      /\ \A s \in Slots : s # <<LoopEnd[f], 0>> /\ s # here => new[s] = ports[s]
  BY <1>2, <1>8 DEF PortValues
<1> HIDE DEF f, new
<1>10. st[here].status \notin Finished \/ st[here] = e
  <2> SUFFICES ASSUME st[here].status \in Finished PROVE st[here] = e
    OBVIOUS
  <2>1. st[here].status = "succeeded"
    BY <1>7 DEF Finished
  <2>2. st[here].out = "none"
    BY <1>2, <1>5 DEF History, RowOK, f
  <2>3. Iterable(f)
    BY <1>2, <1>5, <2>1 DEF History, LoopDone
  <2>4. st[here] = [status |-> st[here].status, out |-> st[here].out]
    BY <1>2 DEF Rows
  <2>5. QED
    BY <2>1, <2>2, <2>3, <2>4
<1>11. Comes(st, here)
  BY <1>2, <1>3, <1>5, HeadComes DEF Drive, Behind
<1>12. /\ e \in Rows /\ e.out = "none" /\ e.status \in {"succeeded", "failed"}
       /\ e.status = "succeeded" <=> Iterable(f)
  BY RowsGiven DEF Failed
<1>13. RowOK(here, e)
  <2>1. Kind[here] = "foreach"
    BY <1>5, LoopSlots
  <2>2. QED
    BY <1>12, <2>1 DEF RowOK
<1>14. \A g \in Heads : here = <<g, 0>> /\ e.status = "succeeded" => LoopDone(st, g)
  <2>1. \A g \in Heads : here = <<g, 0>> => g = f
    BY <1>5
  <2>2. Iterable(f) => LoopDone(st, f)
    BY <1>3, <1>5, <1>6 DEF LoopDone, Drive, Behind
  <2>3. QED
    BY <1>12, <2>1, <2>2
<1> HIDE DEF e
<1>15. /\ step' \in [Runs -> [Slots -> Rows]] /\ Histories' /\ OneRow(here)
       /\ History(st2, fired[cur]) /\ Stands(st, st2)
       /\ st2[here] = e /\ \A s \in Slots : s # here => st2[s] = st[s]
  <2>1. e.status # "none" /\ e.status # "skipped"
    BY <1>12
  <2>2. QED
    BY <1>1, <1>2, <1>4, <1>10, <1>11, <1>12, <1>13, <1>14, <2>1, WroteRow DEF InLoop
<1>16. /\ RunTypeOK' /\ UNCHANGED <<runStatus, runGrant, cur, drives, phase, tries>>
       /\ fired' = fired /\ under' = under
  BY <1>1, <1>4, <1>15, WorkTypedSeen
<1> HIDE DEF st, st2
<1>17. Drive(st2, ports, at, latch)
  BY <1>2, <1>3, <1>15, DriveStands DEF here
<1>18. WalkTypes' /\ WalkState'
  <2>1. CASE Iterable(f)
    <3>1. st2[here].status = "succeeded"
      BY <1>12, <1>15, <2>1
    <3>2. Drive(st2, new, at + 1, latch)
      BY <1>1, <1>2, <1>8, <1>9, <1>15, <1>17, <3>1, DriveClose DEF here
    <3>3. GoOn(new) /\ pc' \in {"walk", "err"}
      BY <1>1, <2>1
    <3>4. local' \in Locals /\ at' = at + 1 /\ ports' = new
      BY <1>1, <1>2, <1>9, <3>3, WentOn DEF InLoop
    <3>5. QED
      BY <1>1, <1>16, <3>2, <3>3, <3>4, WalkOn DEF st2
  <2>2. CASE ~Iterable(f)
    <3>1. local' \in Locals
      BY <1>1, <2>2 DEF GraphInv, WalkTypes, InLoop
    <3>2. pc' \in {"finish", "err"}
      BY <1>1, <2>2
    <3>3. QED
      BY <3>1, <3>2, WalkOn
  <2>3. QED
    BY <2>1, <2>2
<1>19. Work(here)
  <2>1. pc' \in {"walk", "err", "finish"} /\ (pc' = "finish" => failure' # "none")
    BY <1>1
  <2>2. QED
    BY <1>1, <1>15, <1>16, <2>1 DEF Work, InBody
<1>20. QED
  BY <1>15, <1>16, <1>18, <1>19 DEF GraphStep

LEMMA StepEnd ==
    ASSUME GraphInv, EndOfWalk
    PROVE  GraphStep
<1> DEFINE st == step[cur]
<1>1. /\ pc = "walk" /\ at > Len(Walk) /\ pc' = "finish" /\ local' = local /\ latch' = latch
      /\ step' = step /\ WalkFrame /\ UNCHANGED <<stored, outcome, failure, seenVars>>
  BY DEF EndOfWalk
<1>2. /\ cur \in Runs /\ at \in Nat
      /\ step \in [Runs -> [Slots -> Rows]] /\ History(st, fired[cur])
  BY <1>1, HasRun, AtHere DEF InLoop
<1>3. latch' \in BOOLEAN /\ failure' \in Failures
  BY <1>1 DEF GraphInv, RunInv, RunTyped, RunTypeOK
<1>4. /\ RunTypeOK' /\ UNCHANGED <<runStatus, runGrant, cur, drives, phase, tries>>
      /\ fired' = fired /\ under' = under
  BY <1>1, <1>2, <1>3, WorkTypedSeen
<1>5. \A j \in Stops : SettledAt(st, j)
  <2>1. \A j \in Stops : j \in 1..(at - 1)
    BY <1>1, <1>2, WalkTyped
  <2>2. Behind(st, at)
    BY <1>1 DEF GraphInv, WalkState, Drive
  <2>3. QED
    BY <2>1, <2>2 DEF Behind
<1>6. ASSUME NEW s \in Slots, st[s].status # "none"
      PROVE  st[s].status \in Finished
  <2>1. PICK k \in Stops : Walk[k].kind # "close" /\ Walk[k].slot = s /\ Reached(st, k)
    BY <1>2, <1>6 DEF History, Comes
  <2>2. CASE Walk[k].kind = "node"
    <3>1. \A f \in Heads : Iteration(s, f) => st[<<f, 0>>].status # "skipped"
      BY <1>2, <2>1, ActiveLoop DEF Reached
    <3>2. QED
      BY <1>5, <2>1, <2>2, <3>1 DEF SettledAt
  <2>3. CASE Walk[k].kind # "node"
    <3>1. s[1] \in Heads /\ s = <<s[1], 0>>
      BY <2>1, <2>3, LoopStop
    <3>2. CloseAt(s[1]) \in Stops /\ Walk[CloseAt(s[1])].kind = "close" /\ Walk[CloseAt(s[1])].slot = s
      BY <3>1, LoopAt
    <3>3. QED
      BY <1>5, <3>2 DEF SettledAt
  <2>4. QED
    BY <2>2, <2>3
<1>7. local' \in Locals
  BY <1>1 DEF GraphInv, WalkTypes, InLoop
<1>8. WalkTypes' /\ WalkState'
  BY <1>1, <1>7, WalkOn
<1>9. Work(here)
  BY <1>1, <1>4, <1>6, SameOneRow DEF Work, InBody
<1>10. Histories'
  BY <1>1, <1>4 DEF GraphInv, Histories
<1>11. QED
  BY <1>4, <1>8, <1>9, <1>10 DEF GraphStep

-----------------------------------------------------------------------------
LEMMA GraphInit == RunInit => GraphInv
<1> SUFFICES ASSUME RunInit PROVE GraphInv
  OBVIOUS
<1>1. RunInv
  BY RunInvInit
<1>2. pc = "none"
  BY DEF RunInit
<1>3. WalkTypes /\ WalkState
  BY <1>2 DEF WalkTypes, WalkState, GraphPcs, InLoop
<1>4. Histories
  <2>1. \A r \in Runs : \A s \in Slots : step[r][s] = NoStep /\ fired[r][s] = 0
    BY DEF RunInit
  <2>2. QED
    BY <2>1, HistoryStart DEF Histories
<1>5. QED
  BY <1>1, <1>3, <1>4 DEF GraphInv

LEMMA WalkSteps ==
    ASSUME GraphInv, WalkNext
    PROVE  GraphStep
  BY StepBegin, StepRestore, StepRestoreSkipped, StepOpen, StepSkip, StepEnter, StepRun, StepRecord,
     StepFailLoop, StepClose, StepEnd DEF WalkNext

LEMMA GraphInvNext == GraphInv /\ [GraphNext]_runVars => GraphInv'
<1> SUFFICES ASSUME GraphInv, [GraphNext]_runVars PROVE GraphInv'
  OBVIOUS
<1>1. CASE WalkNext
  <2>1. GraphStep
    BY <1>1, WalkSteps
  <2>2. RunInv /\ RunTypeOK' /\ \E s : Work(s)
    BY <2>1 DEF GraphStep, GraphInv
  <2>3. RunInv'
    BY <2>2, RunInvWork
  <2>4. QED
    BY <2>1, <2>3 DEF GraphStep, GraphInv
<1>2. CASE SharedNext \/ UNCHANGED runVars
  <2>1. RunInv'
    BY <1>2, RunInvShared DEF GraphInv
  <2>2. /\ UNCHANGED <<step, fired>>
        /\ pc' \in InBody => UNCHANGED <<pc, cur, latch, outcome, local>>
        /\ pc' = pc \/ pc' \in {"none", "load", "open", "gates", "ready", "finish", "ok", "err"}
    BY <1>2, SharedEffect DEF runVars, journalVars, driveVars, seenVars
  <2>3. Histories'
    BY <2>2 DEF GraphInv, Histories
  <2>4. WalkTypes'
    BY <2>2 DEF GraphInv, WalkTypes, GraphPcs, InLoop, InBody
  <2>5. WalkState'
    <3>1. CASE pc' \in InBody
      <4>1. UNCHANGED <<pc, cur, latch, outcome, local, step>>
        BY <2>2, <3>1
      <4>2. at' = at /\ ports' = ports /\ here' = here
        BY <4>1, StaysPut
      <4>3. WalkState
        BY DEF GraphInv
      <4>4. QED
        BY <4>1, <4>2, <4>3 DEF WalkState
    <3>2. CASE pc' \notin InBody
      BY <3>2 DEF WalkState, InBody
    <3>3. QED
      BY <3>1, <3>2
  <2>6. QED
    BY <2>1, <2>3, <2>4, <2>5 DEF GraphInv
<1>3. QED
  BY <1>1, <1>2 DEF GraphNext

(* Every reachable state of the graph executor is well typed: the walk has  *)
(* a run and stays within the stops, and the out-ports it opens are those a *)
(* node or a condition can open.                                            *)
THEOREM GraphTypes == GraphSpec => []TypeOK
<1>1. GraphInv => TypeOK
  BY DEF GraphInv, RunInv, RunTyped, RunDriving, WalkTypes, TypeOK, Locals, Working, InBody, InLoop
<1>2. QED
  BY GraphInit, GraphInvNext, <1>1, PTL DEF GraphSpec

(* Routing is the same over crashes, for every valid graph: a node was      *)
(* executed only if the journal shows a taken edge into it and into the     *)
(* head of its loop, and skipped only if it shows none or a redelivery that *)
(* gates the node.                                                          *)
THEOREM GraphRouting == GraphSpec => []RoutingMatchesJournal
<1>1. ASSUME GraphInv
      PROVE  RoutingMatchesJournal
  <2> SUFFICES ASSUME NEW r \in Runs, NEW s \in Slots
               PROVE  /\ fired[r][s] > 0 =>
                          /\ JournalActive(step[r], s)
                          /\ \A f \in Heads : Iteration(s, f) => JournalActive(step[r], <<f, 0>>)
                      /\ step[r][s].status = "skipped" => SkippedRightly(step[r], s)
    BY DEF RoutingMatchesJournal, SkippedRightly
  <2>1. History(step[r], fired[r])
    BY <1>1 DEF GraphInv, Histories
  <2>2. fired[r][s] > 0 => JournalActive(step[r], s) /\ Comes(step[r], s)
    BY <2>1 DEF History
  <2>3. Comes(step[r], s) => \A f \in Heads : Iteration(s, f) => JournalActive(step[r], <<f, 0>>)
    BY DEF Comes, Reached
  <2>4. QED
    BY <2>1, <2>2, <2>3 DEF History
<1>2. QED
  BY GraphInit, GraphInvNext, <1>1, PTL DEF GraphSpec

(* A loop is recorded as succeeded only when every body node of every       *)
(* iteration is finished, whichever drives did the work.                    *)
THEOREM GraphLoopIsComplete == GraphSpec => []LoopIsComplete
<1>1. ASSUME GraphInv
      PROVE  LoopIsComplete
  <2> SUFFICES ASSUME NEW r \in Runs, NEW f \in Heads, step[r][<<f, 0>>].status = "succeeded",
                      NEW i \in 1..Items[f], NEW p \in 1..Len(Body[f])
               PROVE  step[r][<<Body[f][p], i>>].status \in Finished
    BY DEF LoopIsComplete
  <2> DEFINE s == <<Body[f][p], i>>
  <2>1. History(step[r], fired[r])
    BY <1>1 DEF GraphInv, Histories
  <2>2. LoopDone(step[r], f)
    BY <2>1 DEF History
  <2>3. PICK k \in HeadAt(f)..CloseAt(f) : Walk[k].slot = s
    BY <2>2, WalkAssumption DEF LoopDone, WalkShape, LoopsWhole
  <2>4. HeadAt(f) \in Stops /\ CloseAt(f) \in Stops /\ k \in Stops /\ k \in Nat
    BY <2>3, LoopAt, WalkTyped
  <2>5. HeadAt(f) < k /\ k < CloseAt(f)
    <3>1. s # <<f, 0>>
      OBVIOUS
    <3>2. k # HeadAt(f) /\ k # CloseAt(f)
      BY <2>3, <3>1, LoopAt
    <3>3. QED
      BY <2>3, <2>4, <3>2, WalkTyped
  <2>6. Walk[k].kind = "node" /\ SettledAt(step[r], k)
    BY <2>2, <2>4, <2>5, LoopAt, WalkTyped DEF LoopDone
  <2>7. ASSUME NEW h \in Heads, Iteration(s, h)
        PROVE  h = f
    <3>1. HeadAt(h) < k /\ k < CloseAt(h) /\ CloseAt(h) \in Nat
      BY <2>3, <2>4, <2>7, LoopAt, WalkTyped
    <3>2. QED
      BY <2>4, <2>5, <3>1, OneLoop
  <2>8. QED
    BY <2>3, <2>6, <2>7 DEF SettledAt
<1>2. QED
  BY GraphInit, GraphInvNext, <1>1, PTL DEF GraphSpec

(* A run of a graph is recorded as succeeded only when every step it        *)
(* recorded is finished, those inside loops included.                       *)
THEOREM GraphSuccessIsComplete == GraphSpec => []SuccessIsComplete
<1>1. GraphInv => SuccessIsComplete
  BY DEF GraphInv, RunInv, RunRecorded
<1>2. QED
  BY GraphInit, GraphInvNext, <1>1, PTL DEF GraphSpec

(* A run of a graph acts under the grant it recorded when it was opened.    *)
THEOREM GraphRecordedAuthority == GraphSpec => []RecordedAuthority
<1>1. GraphInv => RecordedAuthority
  BY DEF GraphInv, RunInv, RunRecorded
<1>2. QED
  BY GraphInit, GraphInvNext, <1>1, PTL DEF GraphSpec

(* A resume repeats at most one action of the graph, in or outside a loop:  *)
(* the executions beyond the first of each slot number less than the        *)
(* drives of the run.                                                       *)
THEOREM GraphOneDuplicate == GraphSpec => []OneDuplicatePerResume
<1>1. GraphInv => OneDuplicatePerResume
  BY DEF GraphInv, RunInv, RunRepeats
<1>2. QED
  BY GraphInit, GraphInvNext, <1>1, PTL DEF GraphSpec

(* A node recorded as succeeded or skipped, in a loop or outside, is never  *)
(* executed again in its run and its record stands.                         *)
THEOREM GraphStepsStand == GraphSpec => FinishedStepsStand
<1>1. ASSUME GraphInv, [GraphNext]_runVars
      PROVE  [\A r \in Runs, s \in Slots : step[r][s].status \in Finished =>
                 fired'[r][s] = fired[r][s] /\ step'[r][s] = step[r][s]]_runVars
  <2>1. CASE WalkNext
    <3>1. GraphStep
      BY <1>1, <2>1, WalkSteps
    <3>2. PICK z : OneRow(z)
      BY <3>1 DEF GraphStep, Work
    <3>3. QED
      BY <3>2 DEF OneRow
  <2>2. CASE SharedNext
    BY <2>2, SharedEffect
  <2>3. QED
    BY <1>1, <2>1, <2>2 DEF GraphNext
<1>2. QED
  BY GraphInit, GraphInvNext, <1>1, PTL DEF GraphSpec, FinishedStepsStand

(* Once a write outside loops has recorded "already stored", no later node  *)
(* that is gated on redelivery is executed, not even by a later drive,      *)
(* which knows of the redelivery from the journal alone.                    *)
THEOREM GraphLatchSurvives == GraphSpec => LatchSurvivesResume
<1>1. ASSUME GraphInv, [GraphNext]_runVars
      PROVE  [\A r \in Runs : \A s \in Slots :
                 GatedOnRedelivery(s) /\ JournalLatched(step[r], s)
                     => fired'[r][s] = fired[r][s]]_runVars
  <2>1. CASE RunStep
    <3>1. /\ pc = "step" /\ Walk[at].kind = "node" /\ ~(latch /\ GatedOnRedelivery(here)) /\ Fire(here)
      BY <2>1 DEF RunStep, Execute, Skipping
    <3>2. at \in Stops /\ Drive(step[cur], ports, at, latch)
      BY <1>1, <3>1 DEF GraphInv, WalkState
    <3>3. cur \in Runs /\ here \in Slots /\ RunTypeOK
      BY <1>1, <3>1, <3>2, HasRun, AtHere DEF InLoop, GraphInv, RunInv, RunTyped
    <3>4. latch <=> JournalLatched(step[cur], here)
      BY <3>1, <3>2, LatchAgrees DEF here
    <3>5. \A r \in Runs, s \in Slots : r # cur \/ s # here => fired'[r][s] = fired[r][s]
      BY <3>1, <3>3, FireEffect
    <3>6. QED
      BY <3>1, <3>4, <3>5
  <2>2. CASE WalkNext /\ ~RunStep
    <3>1. fired' = fired
      BY <2>2 DEF WalkNext, BeginWalk, Restore, RestoreSkippedLoop, OpenStep, SkipStep, EnterLoop,
                  RecordStep, FailLoop, CloseLoop, EndOfWalk, seenVars
    <3>2. QED
      BY <3>1
  <2>3. CASE SharedNext
    BY <2>3, SharedEffect
  <2>4. QED
    BY <1>1, <2>1, <2>2, <2>3 DEF GraphNext
<1>2. QED
  BY GraphInit, GraphInvNext, <1>1, PTL DEF GraphSpec, LatchSurvivesResume
=============================================================================

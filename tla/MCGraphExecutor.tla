--------------------------- MODULE MCGraphExecutor ---------------------------
(***************************************************************************)
(* A small graph for TLC: a write and a condition; on true a loop over two  *)
(* elements that writes and notifies; the notification at the end is        *)
(* reached both ways, and may be followed by a loop over more elements than *)
(* the cap.                                                                 *)
(*                                                                         *)
(*   1 trigger -> 2 write -> 3 condition                                    *)
(*     -(true)->  4 foreach [ 5 write -> 6 effect ] 7 loop end -> 8 effect   *)
(*     -(false)-> 8 effect -> 9 condition                                   *)
(*     -(true)->  10 foreach [ 11 code ] 12 loop end                        *)
(***************************************************************************)
EXTENDS GraphExecutor, TLC

Edge(from, port, to) == [from |-> from, port |-> port, to |-> to]

MailGraph ==
    [nodes |-> <<12, 11, 10, 1, 2, 3, 6, 5, 4, 7, 8, 9>>,
     kind  |-> <<"trigger", "write", "condition", "foreach", "write", "effect",
                 "loopend", "effect", "condition", "foreach", "code", "loopend">>,
     edges |-> <<Edge(9, "true", 10), Edge(8, "", 9), Edge(7, "", 8), Edge(10, "", 11),
                 Edge(11, "", 12), Edge(1, "", 2), Edge(2, "", 3), Edge(3, "false", 8),
                 Edge(3, "true", 4), Edge(4, "", 5), Edge(5, "", 6), Edge(6, "", 7)>>,
     loopOf |-> 7 :> 4 @@ 12 :> 10,
     commitOn |-> <<>>]
MailItems == 4 :> 2 @@ 10 :> 3
MailSlots == {<<n, 0>> : n \in 1..12} \cup {<<n, i>> : n \in {5, 6, 7, 11, 12}, i \in 1..2}
MailKind  == [s \in MailSlots |-> MailGraph.kind[s[1]]]

-----------------------------------------------------------------------------
(* The graph algorithms against reference definitions, over all edges       *)
(* between a few nodes.                                                     *)

SmallGraph(kinds, arcs, ends) ==
    LET n == Len(kinds)
        all == [k \in 1..(n * n) |-> Edge(1 + ((k - 1) \div n), "", 1 + ((k - 1) % n))]
    IN  [nodes |-> [k \in 1..n |-> k], kind |-> kinds,
         edges |-> SelectSeq(all, LAMBDA e : <<e.from, e.to>> \in arcs),
         loopOf |-> ends, commitOn |-> [t \in {} |-> NoNode]]

(* A cycle: nodes that all have a predecessor among them. *)
Cyclic(g) == \E S \in SUBSET Ids(g) \ {{}} :
    \A n \in S : \E e \in EdgesOf(g) : e.to = n /\ e.from \in S

Position(g) == LET order == TopoOrder(g)
               IN  [n \in Ids(g) |-> CHOOSE k \in DOMAIN order : order[k] = n]

(* topo_order lists every node once, after all its predecessors, or the     *)
(* graph has a cycle.                                                       *)
TopoOrderIsRight(g) ==
    IF Cyclic(g) THEN Len(TopoOrder(g)) < Len(g.nodes)
    ELSE LET pos == Position(g)
         IN  /\ Len(TopoOrder(g)) = Len(g.nodes) /\ ToSet(TopoOrder(g)) = Ids(g)
             /\ \A e \in EdgesOf(g) : pos[e.from] < pos[e.to]

(* Where the outer walk comes to each node: a loop is walked at its head.   *)
WalkedAt(g) ==
    LET pos == Position(g)
        in(n) == {f \in HeadsOf(g) : n \in Between(g, f) \cup {RegionEnd(g, f)}}
    IN  [n \in Ids(g) |-> pos[IF in(n) = {} THEN n ELSE CHOOSE f \in in(n) : TRUE]]

(* In a graph whose regions are accepted no two regions meet, and a walk    *)
(* that runs every loop at its head comes to each node after the nodes it   *)
(* has edges from.                                                         *)
RegionsAreRight(g) ==
    ~Cyclic(g) /\ RegionsOK(g) =>
        LET walkedAt == WalkedAt(g) IN
        /\ \A f, h \in HeadsOf(g) : f # h => Between(g, f) \cap Between(g, h) = {}
        /\ \A e \in EdgesOf(g) :
              \/ walkedAt[e.from] < walkedAt[e.to]
              \/ \E f \in HeadsOf(g) : {e.from, e.to} \subseteq {f, RegionEnd(g, f)} \cup Between(g, f)

Pairs(n) == {a \in (1..n) \X (1..n) : a[1] # a[2]}

(* The sets of pairs that differ from base in at most three pairs. *)
Near(base, n) ==
    {(base \ d) \cup (d \ base) : d \in {{}} \cup {{a, b, c} : a, b, c \in Pairs(n)}}

ASSUME TopoOrderChecked ==
    \A arcs \in SUBSET Pairs(4) :
        TopoOrderIsRight(SmallGraph(<<"trigger", "pure", "pure", "pure">>, arcs, <<>>))

ASSUME TwoRegionsChecked ==
    \A arcs \in Near({<<1, 2>>, <<2, 3>>, <<3, 4>>, <<4, 5>>, <<5, 6>>}, 6) :
        RegionsAreRight(SmallGraph(<<"foreach", "pure", "loopend", "foreach", "pure", "loopend">>,
                                   arcs, 3 :> 1 @@ 6 :> 4))

ASSUME OneRegionChecked ==
    \A arcs \in Near({<<1, 2>>, <<2, 3>>, <<2, 4>>, <<3, 4>>, <<4, 5>>, <<5, 6>>}, 6) :
        RegionsAreRight(SmallGraph(<<"trigger", "foreach", "pure", "pure", "loopend", "pure">>,
                                   arcs, 5 :> 2))
=============================================================================

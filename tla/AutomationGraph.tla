--------------------------- MODULE AutomationGraph ---------------------------
(***************************************************************************)
(* The pure algorithms on the graph of an automation (catalerum-automation, *)
(* graph.rs): validate, topo_order and for_each_regions, and the ordinals   *)
(* under which the executor journals the steps of a graph.                  *)
(*                                                                         *)
(* A graph is a record: nodes is the sequence of ids in the order of the    *)
(* document, kind gives their kinds, edges is a sequence of records         *)
(* [from, port, to], loopOf[l] is the node that loop end l names, and       *)
(* commitOn[t] the node a collect trigger names, or NoNode.  Names of loop  *)
(* variables and paths are left out.                                        *)
(***************************************************************************)
EXTENDS Integers, Sequences, FiniteSets, SequencesExt

CONSTANTS
    MaxIterations,  \* MAX_LOOP_ITERATIONS
    MaxBodyNodes,   \* MAX_LOOP_BODY_NODES
    OrdBase,        \* REGION_ORD_BASE
    NoNode

ASSUME OrdinalAssumption ==
    {MaxIterations, MaxBodyNodes, OrdBase} \subseteq Nat \ {0}

Ids(g)      == ToSet(g.nodes)
EdgesOf(g)  == ToSet(g.edges)
OfKind(g, K) == {n \in Ids(g) : g.kind[n] \in K}

Triggers(g) == OfKind(g, {"trigger", "collect"})
HeadsOf(g)  == OfKind(g, {"foreach"})
EndsOf(g)   == OfKind(g, {"loopend"})
Actions(g)  == OfKind(g, {"write", "pure", "effect", "rerun"})

-----------------------------------------------------------------------------
(* topo_order: Kahn's algorithm. *)

(* Every node's in-degree, an edge that is drawn twice counting twice, and  *)
(* the nodes without in-edges queued in the order of the document.          *)
KahnInit(g) ==
    LET indeg == [n \in Ids(g) |->
                    Cardinality({k \in DOMAIN g.edges : g.edges[k].to = n /\ g.edges[k].from \in Ids(g)})]
    IN  [order |-> <<>>, indeg |-> indeg,
         queue |-> SelectSeq(g.nodes, LAMBDA n : indeg[n] = 0)]

Relax(s, e) ==
    [s EXCEPT !.indeg[e.to] = @ - 1,
              !.queue = IF s.indeg[e.to] = 1 THEN Append(@, e.to) ELSE @]

KahnStep(g, s) ==
    LET id  == Head(s.queue)
        out == SelectSeq(g.edges, LAMBDA e : e.from = id /\ e.to \in Ids(g))
    IN  FoldLeft(Relax, [s EXCEPT !.queue = Tail(@), !.order = Append(@, id)], out)

(* What Kahn's algorithm emits: all nodes, unless the graph has a cycle.    *)
TopoOrder(g) ==
    FoldLeft(LAMBDA s, n : IF s.queue = <<>> THEN s ELSE KahnStep(g, s),
             KahnInit(g), g.nodes).order

-----------------------------------------------------------------------------
(* for_each_regions. *)

(* The nodes reachable from start over arcs without going on from the       *)
(* boundary: one round of the worklist per node reaches them all.           *)
Reachable(g, arcs, start, boundary) ==
    FoldLeft(LAMBDA S, n : S \cup {a[2] : a \in {b \in arcs : b[1] \in S \ {boundary}}},
             {start}, g.nodes)

ReachForward(g, start, boundary) ==
    Reachable(g, {<<e.from, e.to>> : e \in EdgesOf(g)}, start, boundary)

ReachBackward(g, start, boundary) ==
    Reachable(g, {<<e.to, e.from>> : e \in EdgesOf(g)}, start, boundary)

EndsFor(g, f) == {l \in EndsOf(g) : g.loopOf[l] = f}
RegionEnd(g, f) == CHOOSE l \in EndsFor(g, f) : TRUE

Between(g, f) ==
    LET end == RegionEnd(g, f)
    IN  (ReachForward(g, f, end) \cap ReachBackward(g, end, f)) \ {f, end}

RegionBody(g, f) ==
    LET body == Between(g, f) IN SelectSeq(TopoOrder(g), LAMBDA n : n \in body)

(* Nothing crosses the boundary of the region but head -> body and          *)
(* body -> end.                                                            *)
Isolated(g, f) ==
    LET body == Between(g, f)
        end  == RegionEnd(g, f)
    IN  \A e \in EdgesOf(g) :
            /\ e.to \in body => e.from \in body \cup {f}
            /\ e.from \in body => e.to \in body \cup {end}
            /\ e.from = f => e.to \in body
            /\ e.to = end => e.from \in body

RegionOK(g, f) ==
    /\ Cardinality(EndsFor(g, f)) = 1
    /\ Len(RegionBody(g, f)) \in 1..MaxBodyNodes
    /\ Between(g, f) \cap (Triggers(g) \cup HeadsOf(g) \cup EndsOf(g)) = {}
    /\ Isolated(g, f)

RegionsOK(g) ==
    /\ \A f \in HeadsOf(g) : RegionOK(g, f)
    /\ \A l \in EndsOf(g) : g.loopOf[l] \in HeadsOf(g)

-----------------------------------------------------------------------------
(* validate. *)
Valid(g) ==
    /\ IsInjective(g.nodes)
    /\ \A e \in EdgesOf(g) : {e.from, e.to} \subseteq Ids(g)
    /\ Triggers(g) # {}
    /\ \A e \in EdgesOf(g) : e.to \notin Triggers(g)
    /\ OfKind(g, {"collect"}) # {} => Cardinality(Triggers(g)) = 1
    /\ \A t \in OfKind(g, {"collect"}) : g.commitOn[t] \in Actions(g) \cup {NoNode}
    /\ \A e \in EdgesOf(g) : g.kind[e.from] = "condition" => e.port \in {"true", "false"}
    /\ Len(TopoOrder(g)) = Len(g.nodes)
    /\ RegionsOK(g)

-----------------------------------------------------------------------------
(* The ordinal of a step: the index of a node in the order, or, for body    *)
(* position pos of iteration i of the region with index k, a number past    *)
(* all of those (run_for_each).                                             *)
BodyOrdinal(k, i, pos) ==
    OrdBase + k * (MaxIterations * MaxBodyNodes) + i * MaxBodyNodes + pos
=============================================================================

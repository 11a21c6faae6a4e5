---------------------------- MODULE GraphExecutor ----------------------------
(***************************************************************************)
(* The graph executor of catalerum-automation: a DAG walked in topological  *)
(* order, with condition branches and ForEach loops, journalled one step    *)
(* per node and, inside a loop, one per node and iteration.                 *)
(*                                                                         *)
(* The order of the walk and the loop regions are those of AutomationGraph. *)
(* A slot <<n, i>> is node n outside any loop (i = 0) or in iteration i of  *)
(* its loop; it stands for the ordinal that keys the step in the journal    *)
(* (GraphExecutor_proofs: no two slots have the same).                      *)
(***************************************************************************)
EXTENDS AutomationRun, AutomationGraph

CONSTANTS
    Graph,      \* the graph of the automation
    Entry,      \* the trigger nodes the firing event matches
    Items,      \* Items[f]: the length of the array f iterates; NotArray if none
    NotArray

Nodes    == Ids(Graph)
Edges    == EdgesOf(Graph)
Heads    == HeadsOf(Graph)
Order    == TopoOrder(Graph)
Body     == [f \in Heads |-> RegionBody(Graph, f)]
LoopEnd  == [f \in Heads |-> RegionEnd(Graph, f)]

(* Nodes that the loop drives, not the outer walk.                          *)
Internal == UNION {ToSet(Body[f]) \cup {LoopEnd[f]} : f \in Heads}

(* A graph that validate refuses fails the run at the gates.                *)
ASSUME GraphAssumption ==
    /\ Valid(Graph)
    /\ Entry \subseteq Triggers(Graph)
    /\ Slots = {<<n, 0>> : n \in Nodes} \cup
               {<<n, i>> : n \in Internal, i \in 1..MaxIterations}
    /\ Kind = [s \in Slots |-> Graph.kind[s[1]]]

(* run_for_each refuses a source that is no array, or one beyond the cap; a *)
(* loop's own, lower cap is left out.  Missing and null are zero elements.  *)
Iterable(f) == Items[f] # NotArray /\ Items[f] <= MaxIterations

(* The order in which a drive comes to the slots.  A loop is entered and    *)
(* closed at its head; its body is passed once per element in between.      *)
Stop(kind, n, i) == [kind |-> kind, slot |-> <<n, i>>]

Passes(f) == FlattenSeq([i \in 1..(IF Iterable(f) THEN Items[f] ELSE 0) |->
                [p \in 1..Len(Body[f]) |-> Stop("node", Body[f][p], i)]])

Visit(n) ==
    IF n \in Internal THEN <<>>
    ELSE IF n \in Heads THEN <<Stop("head", n, 0)>> \o Passes(n) \o <<Stop("close", n, 0)>>
    ELSE <<Stop("node", n, 0)>>

Walk  == FlattenSeq([k \in 1..Len(Order) |-> Visit(Order[k])])
Stops == 1..Len(Walk)

(* Where the loop with head f begins and ends.                              *)
HeadAt(f)  == CHOOSE k \in Stops : Walk[k] = Stop("head", f, 0)
CloseAt(f) == CHOOSE k \in Stops : Walk[k] = Stop("close", f, 0)

(* The loop variables: the position in the walk, and the maps `succeeded`   *)
(* and `branch`: which out-ports of a slot may be followed.                 *)
at    == local.at
ports == local.ports
here  == Walk[at].slot
PortValues == {"unset", "all", "true", "false"}

GraphPcs == {"none", "load", "open", "gates", "ready", "walk", "step", "record",
             "loopfail", "finish", "ok", "err"}
InLoop == {"walk", "step", "record", "loopfail"}

TypeOK ==
    /\ RunTypeOK
    /\ pc \in GraphPcs
    /\ pc \in InLoop =>
        /\ cur \in Runs
        /\ local \in [at : 1..(Len(Walk) + 1), ports : [Slots -> PortValues]]

(* The out-ports with an edge into s.  Inside a loop only edges of the same *)
(* iteration count.                                                         *)
Incoming(s) ==
    {[slot |-> <<e.from, s[2]>>, port |-> e.port] :
        e \in {d \in Edges : d.to = s[1] /\ <<d.from, s[2]>> \in Slots}}

(* Slot s is an iteration of the loop with head f.                          *)
Iteration(s, f) == s[2] > 0 /\ s[1] \in ToSet(Body[f])

(* What topo_order and for_each_regions make of the walk of a valid graph.  *)
(* The stops are distinct, and of the kind that their slot calls for.       *)
StopsApart ==
    /\ Walk \in Seq([kind : {"node", "head", "close"}, slot : Slots])
    /\ IsInjective(Walk)
    /\ \A k \in Stops : LET s == Walk[k].slot IN
        IF Walk[k].kind = "node"
        THEN s[1] \notin Heads /\ (IF s[2] = 0 THEN s[1] \notin Internal
                                            ELSE \E f \in Heads : Iteration(s, f))
        ELSE s[1] \in Heads /\ s[2] = 0

(* Between the head and the close of a loop are its iterations, all of      *)
(* them, and nothing else.                                                  *)
LoopsWhole == \A f \in Heads :
    /\ {HeadAt(f), CloseAt(f)} \subseteq Stops /\ HeadAt(f) < CloseAt(f)
    /\ Walk[HeadAt(f)] = Stop("head", f, 0) /\ Walk[CloseAt(f)] = Stop("close", f, 0)
    /\ \A k \in Stops : HeadAt(f) < k /\ k < CloseAt(f) <=> Iteration(Walk[k].slot, f)
    /\ Iterable(f) => \A i \in 1..Items[f] : \A p \in 1..Len(Body[f]) :
          \E k \in HeadAt(f)..CloseAt(f) : Walk[k].slot = <<Body[f][p], i>>

(* The walk comes to a slot after the slots that have an edge into it, and  *)
(* no edge leaves an iteration.                                             *)
SourcesFirst == \A k \in Stops : Walk[k].kind # "close" =>
    \A o \in Incoming(Walk[k].slot) :
        /\ \E j \in 1..(k - 1) :
              \/ Walk[j] = [kind |-> "node", slot |-> o.slot]
              \/ \E f \in Heads : o.slot = <<LoopEnd[f], 0>> /\ Walk[j] = Stop("close", f, 0)
        /\ \A f \in Heads : Iteration(o.slot, f) => Iteration(Walk[k].slot, f)

WalkShape == StopsApart /\ LoopsWhole /\ SourcesFirst

ASSUME WalkAssumption == WalkShape

(* The head of its loop drives a body node; the event drives a trigger.     *)
Seeded(s) ==
    IF s[2] = 0 THEN s[1] \in Entry
                ELSE \E e \in Edges : e.to = s[1] /\ e.from \in Heads

(* An edge is taken when its source succeeded and, for a condition, chose   *)
(* that port.                                                               *)
Taken(o) == ports[o.slot] \in {"all", o.port} \ {"unset"}

IsActive(s) == Seeded(s) \/ \E o \in Incoming(s) : Taken(o)

Skipping(s) == ~IsActive(s) \/ (latch /\ GatedOnRedelivery(s))

(* Mutant: a condition opens both of its ports.                             *)
OpenedWhole(s, result) == IF result.status # "succeeded" THEN "unset" ELSE "all"

(* The out-ports that a slot with this recorded result opens.               *)
OpenedBy(s, result) ==
    IF result.status # "succeeded" THEN "unset"
    ELSE IF Kind[s] = "condition" THEN result.out ELSE "all"

(* Only a write outside loops latches the run as a redelivery.              *)
LatchedBy(s, result) ==
    latch \/ (s[2] = 0 /\ result.status = "succeeded" /\ result.out = "old")

NodeResults(s) ==
    CASE Kind[s] = "trigger"   -> {[status |-> "succeeded", out |-> "none"]}
      [] Kind[s] = "condition" -> {Failed} \cup [status : {"succeeded"}, out : {"true", "false"}]
      [] OTHER                 -> ActionResults(s)

-----------------------------------------------------------------------------
WalkFrame == UNCHANGED <<adminVars, runStatus, runGrant, runError, cur, snap, jobVars>>

GoOn(new) == local' = [at |-> at + 1, ports |-> new]

(* Past the loop headed by the current head.                                *)
LeaveLoop == local' =
    [local EXCEPT !.at = CloseAt(here[1]) + 1]

AtStop(kind) == pc = "walk" /\ at <= Len(Walk) /\ Walk[at].kind = kind

BeginWalk ==
    /\ pc = "ready"
    /\ pc' = "walk"
    /\ local' = [at |-> 1, ports |-> [s \in Slots |-> "unset"]]
    /\ latch' = Redelivery
    /\ WalkFrame
    /\ UNCHANGED <<stored, step, outcome, failure, seenVars>>

(* Mutant: the latch is not restored.                                       *)
RestoreWithoutLatch ==
    /\ AtStop("node")
    /\ step[cur][here].status \in Finished
    /\ GoOn([ports EXCEPT ![here] = OpenedBy(here, step[cur][here])])
    /\ WalkFrame
    /\ UNCHANGED <<pc, stored, step, latch, outcome, failure, seenVars>>

(* A node finished by an earlier drive: its output, branch and latch are    *)
(* restored from the journal.                                               *)
Restore ==
    /\ AtStop("node")
    /\ step[cur][here].status \in Finished
    /\ GoOn([ports EXCEPT ![here] = OpenedBy(here, step[cur][here])])
    /\ latch' = LatchedBy(here, step[cur][here])
    /\ WalkFrame
    /\ UNCHANGED <<pc, stored, step, outcome, failure, seenVars>>

(* A loop that an earlier drive skipped.                                    *)
RestoreSkippedLoop ==
    /\ AtStop("head")
    /\ step[cur][here].status = "skipped"
    /\ LeaveLoop
    /\ WalkFrame
    /\ UNCHANGED <<pc, stored, step, latch, outcome, failure, seenVars>>

(* Mutant: finished nodes are opened again.                                 *)
OpenStepAgain ==
    /\ AtStop("node") \/ (AtStop("head") /\ step[cur][here].status # "skipped")
    /\ OpenRow(here)
    /\ pc' \in {"step", "err"}
    /\ WalkFrame
    /\ UNCHANGED <<stored, latch, outcome, local, failure, seenVars>>

(* add_step, or reuse of the row an earlier drive left.  A head that        *)
(* succeeded is walked again, for its loop's results.                       *)
OpenStep ==
    /\ \/ AtStop("node") /\ step[cur][here].status \notin Finished
       \/ AtStop("head") /\ step[cur][here].status # "skipped"
    /\ OpenRow(here)
    /\ pc' \in {"step", "err"}
    /\ WalkFrame
    /\ UNCHANGED <<stored, latch, outcome, local, failure, seenVars>>

SkipStep ==
    /\ pc = "step"
    /\ Skipping(here)
    /\ CloseRow(here, [status |-> "skipped", out |-> "none"])
    /\ pc' \in {"walk", "err"}
    /\ IF Walk[at].kind = "head" THEN LeaveLoop ELSE GoOn(ports)
    /\ WalkFrame
    /\ UNCHANGED <<stored, latch, outcome, failure, seenVars>>

EnterLoop ==
    /\ pc = "step" /\ Walk[at].kind = "head"
    /\ ~Skipping(here)
    /\ pc' = "walk"
    /\ GoOn(ports)
    /\ WalkFrame
    /\ UNCHANGED <<stored, step, latch, outcome, failure, seenVars>>

RunStep ==
    /\ pc = "step" /\ Walk[at].kind = "node"
    /\ ~Skipping(here)
    /\ Execute(here, NodeResults(here))
    /\ pc' = "record"
    /\ WalkFrame
    /\ UNCHANGED <<step, latch, local, failure>>

(* Mutant: a failed body node does not fail its loop.                       *)
RecordStepGoesOn ==
    /\ pc = "record"
    /\ CloseRow(here, outcome)
    /\ latch' = LatchedBy(here, outcome)
    /\ GoOn([ports EXCEPT ![here] = OpenedBy(here, outcome)])
    /\ IF outcome.status = "failed" /\ here[2] = 0
       THEN FailRun("action") ELSE pc' = "walk" /\ UNCHANGED failure
    /\ WalkFrame
    /\ UNCHANGED <<stored, outcome, seenVars>>

(* finish_step; a failed node fails the run, a failed body node its loop    *)
(* first.                                                                   *)
RecordStep ==
    /\ pc = "record"
    /\ CloseRow(here, outcome)
    /\ latch' = LatchedBy(here, outcome)
    /\ GoOn([ports EXCEPT ![here] = OpenedBy(here, outcome)])
    /\ \/ pc' = "err" /\ UNCHANGED failure
       \/ IF outcome.status # "failed" THEN pc' = "walk" /\ UNCHANGED failure
          ELSE IF here[2] = 0 THEN FailRun("action")
          ELSE pc' = "loopfail" /\ UNCHANGED failure
    /\ WalkFrame
    /\ UNCHANGED <<stored, outcome, seenVars>>

(* The head whose body the walk is in.                                      *)
CurrentHead == CHOOSE f \in Heads : \E k \in at..Len(Walk) :
    /\ Walk[k] = Stop("close", f, 0)
    /\ \A j \in at..(k - 1) : Walk[j].kind # "close"

FailLoop ==
    /\ pc = "loopfail"
    /\ CloseRow(<<CurrentHead, 0>>, Failed)
    /\ FailRun("action") \/ (pc' = "err" /\ UNCHANGED failure)
    /\ WalkFrame
    /\ UNCHANGED <<stored, latch, outcome, local, seenVars>>

(* Mutant: a source that cannot be iterated fails its loop but not the run. *)
CloseLoopGoesOn ==
    /\ AtStop("close")
    /\ CloseRow(here, IF Iterable(here[1]) THEN [status |-> "succeeded", out |-> "none"] ELSE Failed)
    /\ GoOn(ports)
    /\ WalkFrame
    /\ UNCHANGED <<pc, stored, latch, outcome, failure, seenVars>>

(* Every iteration is through: the head succeeds and its LoopEnd publishes  *)
(* the results; or the source could not be iterated.                        *)
CloseLoop ==
    /\ AtStop("close")
    /\ LET f == here[1] IN
       IF Iterable(f)
       THEN /\ CloseRow(here, [status |-> "succeeded", out |-> "none"])
            /\ GoOn([ports EXCEPT ![here] = "all", ![<<LoopEnd[f], 0>>] = "all"])
            /\ pc' \in {"walk", "err"}
            /\ UNCHANGED failure
       ELSE /\ CloseRow(here, Failed)
            /\ FailRun("action") \/ (pc' = "err" /\ UNCHANGED failure)
            /\ UNCHANGED local
    /\ WalkFrame
    /\ UNCHANGED <<stored, latch, outcome, seenVars>>

EndOfWalk ==
    /\ pc = "walk" /\ at > Len(Walk)
    /\ pc' = "finish"
    /\ WalkFrame
    /\ UNCHANGED <<stored, step, latch, outcome, local, failure, seenVars>>

WalkNext ==
    \/ BeginWalk \/ Restore \/ RestoreSkippedLoop \/ OpenStep \/ SkipStep
    \/ EnterLoop \/ RunStep \/ RecordStep \/ FailLoop \/ CloseLoop \/ EndOfWalk

GraphNext == SharedNext \/ WalkNext

GraphSpec == RunInit /\ [][GraphNext]_runVars

-----------------------------------------------------------------------------
(* Routing as the journal records it, st being the rows of a run.           *)

(* The row that tells whether slot s succeeded: its own or, for the end of  *)
(* a loop, that of the head.                                                *)
Recorder(s) ==
    IF \E f \in Heads : s = <<LoopEnd[f], 0>>
    THEN <<CHOOSE f \in Heads : s = <<LoopEnd[f], 0>>, 0>> ELSE s

JournalOpen(st, o) ==
    LET src == Recorder(o.slot)
    IN  /\ st[src].status = "succeeded"
        /\ Kind[src] = "condition" => st[src].out = o.port

JournalActive(st, s) ==
    Seeded(s) \/ \E o \in Incoming(s) : JournalOpen(st, o)

(* Some write outside loops that the walk passes before slot s recorded     *)
(* "already stored".                                                        *)
JournalLatched(st, s) ==
    \/ Redelivery
    \/ \E j, k \in Stops :
        /\ j < k /\ Walk[k].slot = s
        /\ Walk[j].slot[2] = 0 /\ st[Walk[j].slot].out = "old"

(* "downstream routing is identical" over crashes: a node was executed only *)
(* if the journal shows a taken edge into it, and into the head of its      *)
(* loop, and skipped only if it shows none, or a redelivery that gates the  *)
(* node.                                                                    *)
RoutingMatchesJournal == \A r \in Runs : \A s \in Slots :
    /\ fired[r][s] > 0 =>
        /\ JournalActive(step[r], s)
        /\ \A f \in Heads : Iteration(s, f) => JournalActive(step[r], <<f, 0>>)
    /\ step[r][s].status = "skipped" =>
        ~JournalActive(step[r], s) \/ (GatedOnRedelivery(s) /\ JournalLatched(step[r], s))

(* Once a write outside loops has recorded "already stored", no later node  *)
(* that is gated on redelivery is executed, not even after a resume.        *)
LatchSurvivesResume ==
    [][\A r \in Runs : \A s \in Slots :
        GatedOnRedelivery(s) /\ JournalLatched(step[r], s)
            => fired'[r][s] = fired[r][s]]_runVars

(* A loop is recorded as succeeded only when every body node of every       *)
(* iteration is finished, whichever drives did the work.                    *)
LoopIsComplete == \A r \in Runs : \A f \in Heads :
    step[r][<<f, 0>>].status = "succeeded" =>
        \A i \in 1..Items[f] : \A p \in 1..Len(Body[f]) :
            step[r][<<Body[f][p], i>>].status \in Finished
=============================================================================

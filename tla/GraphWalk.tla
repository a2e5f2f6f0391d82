----------------------------- MODULE GraphWalk -----------------------------
(***************************************************************************)
(* ComponentGraph.reachable_from (analysis/component_graph.py): a depth-   *)
(* first walk with an explicit stack over the edge list of the component   *)
(* graph, following only edges of at least a given confidence.  The        *)
(* cross-component rule and the reachability annotation rely on it.        *)
(***************************************************************************)
EXTENDS Naturals, Sequences

CONSTANTS
    Nodes,       \* node keys
    EdgeLists,   \* edge lists a graph may have
    Thresholds   \* values of min_confidence, in hundredths

WalkEdge == [source : Nodes, target : Nodes, confidence : Nat]

ASSUME WalkConstants ==
    /\ EdgeLists \subseteq Seq(WalkEdge)
    /\ Thresholds \subseteq Nat

VARIABLES
    arcs,      \* the edge list of the graph
    start,     \* node_name
    minimum,   \* min_confidence
    walk,      \* "pop", "edges", "done"
    stack,
    visited,
    current,   \* node whose edges are being followed
    at         \* position in the edge list

walkVars == <<arcs, start, minimum, walk, stack, visited, current, at>>

input == <<arcs, start, minimum>>

-----------------------------------------------------------------------------
(* What the walk is for.                                                   *)

(* m -> n by an edge the walk may follow. *)
Step(m, n) ==
    \E k \in DOMAIN arcs :
        /\ arcs[k].source = m /\ arcs[k].target = n
        /\ arcs[k].confidence >= minimum

Closed(S) == \A m \in S, n \in Nodes : Step(m, n) => n \in S

(* The least closed set that contains the start. *)
Reachable ==
    {n \in Nodes : \A S \in SUBSET Nodes : start \in S /\ Closed(S) => n \in S}

-----------------------------------------------------------------------------
WalkInit ==
    /\ arcs \in EdgeLists /\ start \in Nodes /\ minimum \in Thresholds
    /\ walk = "pop" /\ stack = <<start>> /\ visited = {}
    /\ current = start /\ at = 1

Top == stack[Len(stack)]
Rest == SubSeq(stack, 1, Len(stack) - 1)

(* Mutant of Pop: the visited test comes before the node is taken off. *)
PopPeeks ==
    /\ walk = "pop" /\ stack # <<>> /\ Top \notin visited
    /\ stack' = Rest
    /\ visited' = visited \cup {Top} /\ current' = Top /\ at' = 1
    /\ walk' = "edges"
    /\ UNCHANGED input

(* The next node; one pushed twice is skipped the second time. *)
Pop ==
    /\ walk = "pop" /\ stack # <<>>
    /\ stack' = Rest
    /\ IF Top \in visited
       THEN UNCHANGED <<walk, visited, current, at>>
       ELSE /\ visited' = visited \cup {Top}
            /\ current' = Top /\ at' = 1 /\ walk' = "edges"
    /\ UNCHANGED input

(* edges_from and the test in the loop. *)
Follows(e) ==
    /\ e.source = current
    /\ e.confidence >= minimum
    /\ e.target \notin visited

Examine ==
    /\ walk = "edges" /\ at <= Len(arcs)
    /\ stack' = IF Follows(arcs[at]) THEN Append(stack, arcs[at].target)
                ELSE stack
    /\ at' = at + 1
    /\ UNCHANGED <<input, walk, visited, current>>

(* Mutant of EndOfEdges: the last edge of the list is left out. *)
EndOfEdgesEarly ==
    /\ walk = "edges" /\ at >= Len(arcs)
    /\ walk' = "pop"
    /\ UNCHANGED <<input, stack, visited, current, at>>

EndOfEdges ==
    /\ walk = "edges" /\ at > Len(arcs)
    /\ walk' = "pop"
    /\ UNCHANGED <<input, stack, visited, current, at>>

Return ==
    /\ walk = "pop" /\ stack = <<>>
    /\ walk' = "done"
    /\ visited' = visited \ {start}
    /\ UNCHANGED <<input, stack, current, at>>

WalkNext == Pop \/ Examine \/ EndOfEdges \/ Return

(* The walk is an ordinary call: it runs until it returns. *)
WalkSpec == WalkInit /\ [][WalkNext]_walkVars /\ WF_walkVars(WalkNext)

-----------------------------------------------------------------------------
(* Every variable keeps its type. *)
WalkTypes ==
    /\ arcs \in Seq(WalkEdge) /\ start \in Nodes /\ minimum \in Nat
    /\ walk \in {"pop", "edges", "done"}
    /\ stack \in Seq(Nodes)
    /\ visited \subseteq Nodes
    /\ current \in Nodes
    /\ at \in 1..(Len(arcs) + 1)

(***************************************************************************)
(* reachable_from returns exactly the other nodes a path of sufficiently   *)
(* confident edges leads to, whatever the order of the edge list and       *)
(* however often a node is pushed.                                         *)
(***************************************************************************)
ReturnsReachable == walk = "done" => visited = Reachable \ {start}

(* The walk returns on every graph, cyclic ones included: visited nodes are *)
(* not expanded again.                                                      *)
Returns == <>(walk = "done")

-----------------------------------------------------------------------------
OnStack == {stack[j] : j \in DOMAIN stack}

(* Only reachable nodes are visited or waiting. *)
Sound ==
    /\ OnStack \subseteq Reachable
    /\ visited \subseteq Reachable
    /\ walk = "edges" => current \in visited

(* Every step out of a visited node leads to a node that is visited, is    *)
(* waiting, or is still to come in the scan of the current edge list.      *)
Complete ==
    walk # "done" =>
        /\ start \in visited \cup OnStack
        /\ \A k \in DOMAIN arcs :
              arcs[k].source \in visited /\ arcs[k].confidence >= minimum
              => \/ arcs[k].target \in visited \cup OnStack
                 \/ walk = "edges" /\ arcs[k].source = current /\ k >= at

(* The inductive invariant of GraphProofs. *)
WalkInv == WalkTypes /\ Sound /\ Complete /\ ReturnsReachable
=============================================================================

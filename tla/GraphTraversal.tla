---------------------------- MODULE GraphTraversal ----------------------------
(****************************************************************************)
(* Traversal of one workflow graph: which nodes the engine enqueues, skips  *)
(* or leaves alone as nodes end, in whatever order they end. The threads,   *)
(* queues, commands and failures are the business of GraphEngine, which     *)
(* implements this specification.                                           *)
(****************************************************************************)
EXTENDS WorkflowGraph, FiniteSets

CONSTANT Graphs   \* the graphs a run may be given

ASSUME GraphsAreWellFormed == \A g \in Graphs : IsWorkflowGraph(g)

VARIABLES
  graph,      \* the graph of this run
  nodeState,  \* Node.state
  edgeState,  \* Edge.state
  launched,   \* how often each node was enqueued, retries of it aside
  outcome     \* the handle each node ended with, NotEnded before

vars == <<graph, nodeState, edgeState, launched, outcome>>

NotEnded == "not ended"

ASSUME NotEndedIsNoHandle == NotEnded \notin Handles

Init ==
  /\ graph \in Graphs
  /\ nodeState = InitialNodes(graph)
  /\ edgeState = InitialEdges(graph)
  /\ launched = [n \in graph.nodes |-> 0]
  /\ outcome = [n \in graph.nodes |-> NotEnded]

Launch(S) == launched' = [n \in graph.nodes |-> launched[n] + IF n \in S THEN 1 ELSE 0]

\* run() enqueues the root.
Start ==
  /\ launched[graph.root] = 0
  /\ nodeState' = [nodeState EXCEPT ![graph.root] = "taken"]
  /\ Launch({graph.root})
  /\ UNCHANGED <<graph, edgeState, outcome>>

InFlight(n) == launched[n] > 0 /\ outcome[n] = NotEnded

\* Node n ends, in success or with its failure absorbed by its strategy.
End(n, handle) ==
  LET skipped  == SkippedAfter(graph, edgeState, n, handle)
      enqueued == LateAfter(graph, edgeState, n, handle)
                    \union ReadyAfter(graph, edgeState, n, handle)
  IN  /\ InFlight(n)
      /\ edgeState' = EdgesAfter(graph, edgeState, n, handle)
      /\ nodeState' = [m \in graph.nodes |-> IF m \in enqueued THEN "taken"
                                             ELSE IF m \in skipped THEN "skipped"
                                             ELSE nodeState[m]]
      /\ Launch(enqueued)
      /\ outcome' = [outcome EXCEPT ![n] = handle]
      /\ UNCHANGED graph

Next == Start \/ \E n \in graph.nodes : \E handle \in HandlesOf(graph, n) : End(n, handle)

Spec == Init /\ [][Next]_vars

----------------------------------------------------------------------------
(* Properties *)

\* The types of the state.
TypeOK ==
  /\ IsWorkflowGraph(graph)
  /\ nodeState \in [graph.nodes -> States]
  /\ edgeState \in [graph.edges -> States]
  /\ launched \in [graph.nodes -> Nat]
  /\ outcome \in [graph.nodes -> Handles \union {NotEnded}]

\* A node is enqueued at most once, though every incoming edge that is decided
\* gives the engine an occasion to: two branches that meet in a join, one taken
\* and one skipped, do not run the join twice (process_node_success and
\* propagate_skip_from_edge both enqueue).
LaunchedOnce == \A n \in graph.nodes : launched[n] <= 1

\* A node runs only after all its incoming edges are decided and one of them
\* was taken; a skipped node never runs, and all its edges are skipped.
LaunchedWhenDecided ==
  \A n \in graph.nodes :
    /\ launched[n] > 0 /\ n # graph.root =>
         /\ \A e \in In(graph, n) : edgeState[e] # "unknown"
         /\ \E e \in In(graph, n) : edgeState[e] = "taken"
    /\ nodeState[n] = "skipped" =>
         /\ launched[n] = 0
         /\ \A e \in In(graph, n) \union Out(graph, n) : edgeState[e] = "skipped"

\* An edge is decided once: what a finished branch took or skipped is never
\* revised by another branch, nor is a skipped node revived.
DecisionsAreFinal ==
  [][/\ \A e \in graph.edges : edgeState[e] # "unknown" => edgeState'[e] = edgeState[e]
     /\ \A n \in graph.nodes : nodeState[n] # "unknown" => nodeState'[n] = nodeState[n]]_vars

\* The nodes the choices made so far send the run through, computed from the
\* outcomes alone: the least set that holds the root and the heads of the
\* edges its members selected.
ChosenPaths ==
  {n \in graph.nodes :
     \A T \in SUBSET graph.nodes :
       /\ graph.root \in T
       /\ \A m \in T : outcome[m] # NotEnded =>
            \A e \in SelectedEdges(graph, m, outcome[m]) : e.head \in T
       => n \in T}

\* The nodes whose fate hangs on the entry points alone: no cycle and no orphan
\* (Graph.init refuses neither) blocks a join on the way to them. A container's
\* run is given the whole configuration, of which only the inside is grounded.
Grounded ==
  {n \in graph.nodes :
     \A T \in SUBSET graph.nodes :
       (\A m \in graph.nodes :
          \/ m \in InactiveRoots(graph) \union {graph.root}
          \/ In(graph, m) # {} /\ \A e \in In(graph, m) : e.tail \in T
          => m \in T)
       => n \in T}

Rooted == Grounded = graph.nodes

Quiet == launched[graph.root] > 0 /\ \A n \in graph.nodes : ~InFlight(n)

\* When nothing is left to run, every grounded node is decided, and those that
\* ran are the ones on the chosen paths, no more and no fewer: the order in
\* which parallel nodes ended made no difference.
NoNodeLeftBehind ==
  Quiet => \A n \in Grounded :
             /\ nodeState[n] # "unknown"
             /\ nodeState[n] = "taken" <=> n \in ChosenPaths
=============================================================================

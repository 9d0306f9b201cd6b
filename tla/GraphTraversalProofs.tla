------------------------- MODULE GraphTraversalProofs -------------------------
(****************************************************************************)
(* The safety of the traversal for every set of well-formed graphs: nodes   *)
(* are launched at most once and only when decided, skipped nodes never     *)
(* run, and no decision is revised. The invariant that carries it relates   *)
(* the state of an edge to the fate of the node it leaves (an edge is       *)
(* decided only by the end or the skip of its tail) and the state of a node *)
(* to the edges that enter it.                                              *)
(****************************************************************************)
EXTENDS GraphTraversal, WorkflowGraphProofs

\* The states of the nodes agree with what was launched and what ended.
NodesAgree ==
  \A n \in graph.nodes :
    /\ nodeState[n] = "taken" <=> launched[n] > 0
    /\ outcome[n] # NotEnded => launched[n] > 0

\* An edge is decided only by the end or the skip of the node it leaves.
EdgesAgree ==
  \A e \in graph.edges : edgeState[e] # "unknown" =>
    outcome[e.tail] # NotEnded \/ nodeState[e.tail] = "skipped"

\* A decided node has only decided edges behind it.
NodesWait ==
  \A n \in graph.nodes : nodeState[n] # "unknown" =>
    \A e \in In(graph, n) : edgeState[e] # "unknown"

RootNotSkipped == nodeState[graph.root] # "skipped"

IInv ==
  /\ TypeOK
  /\ NodesAgree
  /\ EdgesAgree
  /\ NodesWait
  /\ RootNotSkipped
  /\ LaunchedOnce
  /\ LaunchedWhenDecided

----------------------------------------------------------------------------

LEMMA InvCoherent == IInv => Coherent(graph, nodeState, edgeState)
<1> SUFFICES ASSUME IInv PROVE Coherent(graph, nodeState, edgeState)
    OBVIOUS
<1>1. ASSUME NEW e \in graph.edges, nodeState[e.tail] = "unknown" PROVE edgeState[e] = "unknown"
  <2>1. e.tail \in graph.nodes
      BY DEF IInv, TypeOK, IsWorkflowGraph
  <2> QED
      BY <1>1, <2>1 DEF IInv, EdgesAgree, NodesAgree
<1> QED
    BY <1>1 DEF Coherent, IInv, NodesWait

\* The graph as it is built: only what hangs on inactive roots is decided.
LEMMA InitInv == Init => IInv
<1> SUFFICES ASSUME Init PROVE IInv
    OBVIOUS
<1> DEFINE unknown == Unknown(graph.edges)
           cut     == InactiveCut(graph)
           S       == SkippedNodes(graph, unknown, cut)
           dead    == InactiveRoots(graph) \union S
<1>1. IsWorkflowGraph(graph)
    BY GraphsAreWellFormed DEF Init
<1>2. /\ nodeState = [n \in graph.nodes |-> IF n \in dead THEN "skipped" ELSE "unknown"]
      /\ edgeState = [e \in graph.edges |-> IF e \in SkippedEdges(graph, cut, S)
                                            THEN "skipped" ELSE unknown[e]]
      /\ unknown = [e \in graph.edges |-> "unknown"]
    BY DEF Init, InitialNodes, InitialEdges, AfterSkip, Unknown
<1>3. TypeOK
    BY <1>1, <1>2 DEF Init, TypeOK, States, Kinds
<1>4. \A m \in S : /\ m \in graph.nodes
                   /\ In(graph, m) \intersect SkippedEdges(graph, cut, S) # {}
                   /\ \A e \in In(graph, m) : edgeState[e] = "skipped"
  <2> SUFFICES ASSUME NEW m \in S
               PROVE  /\ m \in graph.nodes
                      /\ In(graph, m) \intersect SkippedEdges(graph, cut, S) # {}
                      /\ \A e \in In(graph, m) : edgeState[e] = "skipped"
      OBVIOUS
  <2>1. /\ m \in graph.nodes
        /\ In(graph, m) \intersect SkippedEdges(graph, cut, S) # {}
        /\ \A e \in In(graph, m) : e \in SkippedEdges(graph, cut, S) \/ unknown[e] = "skipped"
      BY SkippedNodesSound
  <2>2. In(graph, m) \subseteq graph.edges
      BY DEF In
  <2> QED
      BY <2>1, <2>2, <1>2
<1>5. \A m \in InactiveRoots(graph) : m # graph.root /\ In(graph, m) = {}
    BY <1>1 DEF InactiveRoots, Roots, IsWorkflowGraph
<1>6. graph.root \notin dead
    BY <1>1, <1>4, <1>5 DEF IsWorkflowGraph
<1>7. \A e \in graph.edges : e.tail \in dead => edgeState[e] = "skipped"
    BY <1>2 DEF SkippedEdges, InactiveCut
<1>8. \A e \in graph.edges : edgeState[e] # "unknown" => e.tail \in dead
    BY <1>2 DEF SkippedEdges, InactiveCut
<1>9. \A m \in dead : \A e \in In(graph, m) : edgeState[e] = "skipped"
    BY <1>4, <1>5
<1>10. NodesAgree
    BY <1>2 DEF NodesAgree, Init
<1>11. EdgesAgree
    BY <1>1, <1>2, <1>8 DEF EdgesAgree, IsWorkflowGraph
<1>12. NodesWait
    BY <1>2, <1>9 DEF NodesWait
<1>13. RootNotSkipped
    BY <1>1, <1>2, <1>6 DEF RootNotSkipped, IsWorkflowGraph
<1>14. LaunchedOnce /\ LaunchedWhenDecided
    BY <1>2, <1>7, <1>9, SMTT(20) DEF LaunchedOnce, LaunchedWhenDecided, Init, Out
<1> QED
    BY <1>3, <1>10, <1>11, <1>12, <1>13, <1>14 DEF IInv

LEMMA StartInv == IInv /\ Start => IInv'
<1> SUFFICES ASSUME IInv, Start PROVE IInv'
    OBVIOUS
<1> USE DEF IInv, Start, Launch
<1>1. graph.root \in graph.nodes /\ In(graph, graph.root) = {} /\ nodeState[graph.root] = "unknown"
  <2>1. graph.root \in graph.nodes /\ In(graph, graph.root) = {}
      BY DEF TypeOK, IsWorkflowGraph
  <2> QED
      BY <2>1 DEF RootNotSkipped, NodesAgree, TypeOK, States
<1>2. /\ nodeState' = [n \in graph.nodes |-> IF n = graph.root THEN "taken" ELSE nodeState[n]]
      /\ launched' = [n \in graph.nodes |-> IF n = graph.root THEN 1 ELSE launched[n]]
  <2>1. nodeState' = [n \in graph.nodes |-> IF n = graph.root THEN "taken" ELSE nodeState[n]]
      BY <1>1 DEF TypeOK
  <2>2. \A n \in graph.nodes : launched[n] \in Nat /\ launched[graph.root] = 0
      BY <1>1 DEF TypeOK
  <2>3. \A n \in graph.nodes : launched[n] + (IF n \in {graph.root} THEN 1 ELSE 0)
                                = IF n = graph.root THEN 1 ELSE launched[n]
      BY <2>2
  <2> QED
      BY <2>1, <2>3
<1>3. TypeOK'
    BY <1>1, <1>2 DEF TypeOK, States
<1>4. NodesAgree'
    BY <1>1, <1>2 DEF NodesAgree
<1>5. EdgesAgree'
    BY <1>1, <1>2 DEF EdgesAgree, TypeOK, IsWorkflowGraph
<1>6. NodesWait'
    BY <1>1, <1>2 DEF NodesWait
<1>7. RootNotSkipped'
    BY <1>1, <1>2 DEF RootNotSkipped
<1>8. LaunchedOnce'
    BY <1>1, <1>2 DEF LaunchedOnce
<1>9. LaunchedWhenDecided'
    BY <1>1, <1>2 DEF LaunchedWhenDecided
<1> QED
    BY <1>3, <1>4, <1>5, <1>6, <1>7, <1>8, <1>9

\* What an End step does, in the terms of the invariant.
LEMMA EndStep ==
  ASSUME IInv, NEW n \in graph.nodes, NEW handle, End(n, handle)
  PROVE  LET skipped  == SkippedAfter(graph, edgeState, n, handle)
             enqueued == LateAfter(graph, edgeState, n, handle)
                           \union ReadyAfter(graph, edgeState, n, handle)
         IN  /\ edgeState' \in [graph.edges -> States]
             /\ \A e \in graph.edges : edgeState[e] # "unknown" => edgeState'[e] = edgeState[e]
             /\ \A e \in graph.edges : edgeState'[e] # "unknown" =>
                  edgeState[e] # "unknown" \/ e.tail = n \/ e.tail \in skipped
             /\ \A m \in skipped : /\ m \in graph.nodes /\ nodeState[m] = "unknown"
                                   /\ \A e \in In(graph, m) \union Out(graph, m) : edgeState'[e] = "skipped"
             /\ \A m \in enqueued : /\ m \in graph.nodes /\ nodeState[m] = "unknown"
                                    /\ m \notin skipped
                                    /\ IsNodeReady(graph, edgeState', m)
<1>1. Coherent(graph, nodeState, edgeState)
    BY InvCoherent
<1>2. nodeState[n] = "taken" /\ outcome[n] = NotEnded
    BY DEF End, InFlight, IInv, NodesAgree
<1>3. \A e \in Out(graph, n) : edgeState[e] = "unknown"
    BY <1>2 DEF IInv, EdgesAgree, Out
<1>4. edgeState \in [graph.edges -> States] /\ IsWorkflowGraph(graph)
    BY DEF IInv, TypeOK
<1> QED
    BY <1>1, <1>2, <1>3, <1>4, EndDecides DEF End

LEMMA EndInv ==
  ASSUME IInv, NEW n \in graph.nodes, NEW handle \in HandlesOf(graph, n), End(n, handle)
  PROVE  IInv'
<1> DEFINE skipped  == SkippedAfter(graph, edgeState, n, handle)
           enqueued == LateAfter(graph, edgeState, n, handle)
                         \union ReadyAfter(graph, edgeState, n, handle)
<1>1. /\ edgeState' \in [graph.edges -> States]
      /\ \A e \in graph.edges : edgeState[e] # "unknown" => edgeState'[e] = edgeState[e]
      /\ \A e \in graph.edges : edgeState'[e] # "unknown" =>
           edgeState[e] # "unknown" \/ e.tail = n \/ e.tail \in skipped
      /\ \A m \in skipped : /\ m \in graph.nodes /\ nodeState[m] = "unknown"
                            /\ \A e \in In(graph, m) \union Out(graph, m) : edgeState'[e] = "skipped"
      /\ \A m \in enqueued : /\ m \in graph.nodes /\ nodeState[m] = "unknown"
                             /\ m \notin skipped
                             /\ IsNodeReady(graph, edgeState', m)
    BY EndStep
<1>2. /\ graph' = graph
      /\ nodeState' = [m \in graph.nodes |-> IF m \in enqueued THEN "taken"
                                             ELSE IF m \in skipped THEN "skipped"
                                             ELSE nodeState[m]]
      /\ outcome' = [outcome EXCEPT ![n] = handle]
    BY DEF End
<1>3. \A m \in graph.nodes : launched[m] \in Nat
    BY DEF IInv, TypeOK
<1>4. launched' = [m \in graph.nodes |-> IF m \in enqueued THEN 1 ELSE launched[m]]
  <2>1. \A m \in enqueued : launched[m] = 0
      BY <1>1, <1>3 DEF IInv, NodesAgree
  <2>2. launched' = [m \in graph.nodes |-> launched[m] + (IF m \in enqueued THEN 1 ELSE 0)]
      BY DEF End, Launch
  <2> QED
      BY <1>3, <2>1, <2>2
<1>5. /\ nodeState[n] = "taken" /\ launched[n] > 0 /\ outcome[n] = NotEnded
      /\ n \notin enqueued /\ n \notin skipped
    BY <1>1 DEF End, InFlight, IInv, NodesAgree
<1>6. handle \in Handles /\ handle # NotEnded
    BY DefaultHandles, NotEndedIsNoHandle DEF HandlesOf
<1>7. \A m \in graph.nodes : In(graph, m) \subseteq graph.edges /\ Out(graph, m) \subseteq graph.edges
    BY DEF In, Out
<1>8. TypeOK'
    BY <1>1, <1>2, <1>4, <1>6 DEF IInv, TypeOK, States
<1>9. NodesAgree'
    BY <1>1, <1>2, <1>4, <1>5 DEF IInv, NodesAgree, TypeOK
<1>10. EdgesAgree'
  <2> SUFFICES ASSUME NEW e \in graph.edges, edgeState'[e] # "unknown"
               PROVE  outcome'[e.tail] # NotEnded \/ nodeState'[e.tail] = "skipped"
      BY <1>2 DEF EdgesAgree
  <2>1. e.tail \in graph.nodes
      BY DEF IInv, TypeOK, IsWorkflowGraph
  <2>2. CASE edgeState[e] # "unknown"
      BY <2>1, <2>2, <1>1, <1>2, <1>6 DEF IInv, EdgesAgree, TypeOK
  <2>3. CASE e.tail = n
      BY <2>1, <2>3, <1>2, <1>6 DEF IInv, TypeOK
  <2>4. CASE e.tail \in skipped
      BY <2>1, <2>4, <1>1, <1>2
  <2> QED
      BY <1>1, <2>2, <2>3, <2>4
<1>11. NodesWait'
    BY <1>1, <1>2, <1>7 DEF IInv, NodesWait, IsNodeReady
<1>12. RootNotSkipped'
  <2>1. In(graph, graph.root) = {} /\ graph.root \in graph.nodes
      BY DEF IInv, TypeOK, IsWorkflowGraph
  <2>2. graph.root \notin skipped
      BY <2>1, SkippedNodesSound DEF SkippedAfter
  <2> QED
      BY <2>1, <2>2, <1>1, <1>2 DEF IInv, RootNotSkipped
<1>13. LaunchedOnce'
    BY <1>2, <1>4 DEF IInv, LaunchedOnce
<1>14. LaunchedWhenDecided'
  <2> SUFFICES ASSUME NEW m \in graph.nodes
               PROVE  /\ launched'[m] > 0 /\ m # graph.root => IsNodeReady(graph, edgeState', m)
                      /\ nodeState'[m] = "skipped" =>
                           /\ launched'[m] = 0
                           /\ \A e \in In(graph, m) \union Out(graph, m) : edgeState'[e] = "skipped"
      BY <1>2 DEF LaunchedWhenDecided, IsNodeReady
  <2>1. CASE m \in enqueued
      BY <2>1, <1>1, <1>2, <1>4
  <2>2. CASE m \in skipped
    <3>1. launched[m] = 0
        BY <2>2, <1>1, <1>3 DEF IInv, NodesAgree
    <3> QED
        BY <3>1, <2>2, <1>1, <1>2, <1>4
  <2>3. CASE m \notin enqueued \union skipped
    <3>1. nodeState'[m] = nodeState[m] /\ launched'[m] = launched[m]
        BY <2>3, <1>2, <1>4
    <3>2. launched[m] > 0 /\ m # graph.root => IsNodeReady(graph, edgeState', m)
        BY <1>1, <1>7 DEF IInv, LaunchedWhenDecided, IsNodeReady
    <3>3. nodeState[m] = "skipped" =>
            \A e \in In(graph, m) \union Out(graph, m) : edgeState'[e] = "skipped"
        BY <1>1, <1>7 DEF IInv, LaunchedWhenDecided
    <3> QED
        BY <3>1, <3>2, <3>3 DEF IInv, LaunchedWhenDecided
  <2> QED
      BY <2>1, <2>2, <2>3
<1> QED
    BY <1>8, <1>9, <1>10, <1>11, <1>12, <1>13, <1>14 DEF IInv

LEMMA NextInv == IInv /\ [Next]_vars => IInv'
<1> SUFFICES ASSUME IInv, [Next]_vars PROVE IInv'
    OBVIOUS
<1>1. CASE Start
    BY <1>1, StartInv
<1>2. CASE \E n \in graph.nodes : \E handle \in HandlesOf(graph, n) : End(n, handle)
    BY <1>2, EndInv
<1>3. CASE UNCHANGED vars
    BY <1>3 DEF vars, IInv, TypeOK, NodesAgree, EdgesAgree, NodesWait, RootNotSkipped,
                LaunchedOnce, LaunchedWhenDecided
<1> QED
    BY <1>1, <1>2, <1>3 DEF Next

----------------------------------------------------------------------------

\* The types of the state, in every behaviour over well-formed graphs.
THEOREM TypeCorrect == Spec => []TypeOK
<1>1. Init => IInv
    BY InitInv
<1>2. IInv /\ [Next]_vars => IInv'
    BY NextInv
<1>3. IInv => TypeOK
    BY DEF IInv
<1> QED
    BY <1>1, <1>2, <1>3, PTL DEF Spec

\* No node is launched twice, whatever the graph and the order of the ends:
\* what process_node_success and propagate_skip_from_edge enqueue never overlaps.
THEOREM NeverLaunchedTwice == Spec => []LaunchedOnce
<1>1. Init => IInv
    BY InitInv
<1>2. IInv /\ [Next]_vars => IInv'
    BY NextInv
<1>3. IInv => LaunchedOnce
    BY DEF IInv
<1> QED
    BY <1>1, <1>2, <1>3, PTL DEF Spec

\* Joins wait for all their incoming edges, and skipped nodes never run.
THEOREM JoinsWaitAndSkipsHold == Spec => []LaunchedWhenDecided
<1>1. Init => IInv
    BY InitInv
<1>2. IInv /\ [Next]_vars => IInv'
    BY NextInv
<1>3. IInv => LaunchedWhenDecided
    BY DEF IInv
<1> QED
    BY <1>1, <1>2, <1>3, PTL DEF Spec

\* What has been decided, of an edge or of a node, is never decided otherwise.
THEOREM DecisionsNeverRevised == Spec => DecisionsAreFinal
<1> DEFINE Final == /\ \A e \in graph.edges : edgeState[e] # "unknown" => edgeState'[e] = edgeState[e]
                    /\ \A n \in graph.nodes : nodeState[n] # "unknown" => nodeState'[n] = nodeState[n]
<1>1. Init => IInv
    BY InitInv
<1>2. IInv /\ [Next]_vars => IInv'
    BY NextInv
<1>3. IInv /\ [Next]_vars => [Final]_vars
  <2> SUFFICES ASSUME IInv, Next PROVE Final
      OBVIOUS
  <2>1. CASE Start
    <3>1. nodeState[graph.root] = "unknown"
        BY <2>1 DEF Start, IInv, TypeOK, States, IsWorkflowGraph, NodesAgree, RootNotSkipped
    <3> QED
        BY <2>1, <3>1 DEF Start, IInv, TypeOK
  <2>2. ASSUME NEW n \in graph.nodes, NEW handle \in HandlesOf(graph, n), End(n, handle)
        PROVE  Final
    <3> DEFINE skipped  == SkippedAfter(graph, edgeState, n, handle)
               enqueued == LateAfter(graph, edgeState, n, handle)
                             \union ReadyAfter(graph, edgeState, n, handle)
    <3>1. /\ \A e \in graph.edges : edgeState[e] # "unknown" => edgeState'[e] = edgeState[e]
          /\ \A m \in skipped \union enqueued : nodeState[m] = "unknown"
        BY <2>2, EndStep
    <3>2. \A m \in graph.nodes : m \notin skipped \union enqueued => nodeState'[m] = nodeState[m]
        BY <2>2 DEF End
    <3> QED
        BY <3>1, <3>2
  <2> QED
      BY <2>1, <2>2 DEF Next
<1> QED
    BY <1>1, <1>2, <1>3, PTL DEF Spec, DecisionsAreFinal

----------------------------------------------------------------------------
(* That no node is left behind needs to be told what the end of a node     *)
(* leaves: all edges behind it decided as it chose, and no node undecided   *)
(* whose incoming edges all are.                                            *)

\* The edges behind a node that ended are decided, by its choice.
Propagated ==
  \A n \in graph.nodes : outcome[n] # NotEnded =>
    \A e \in Out(graph, n) :
      edgeState[e] = IF e \in SelectedEdges(graph, n, outcome[n]) THEN "taken" ELSE "skipped"

\* A node with its incoming edges decided is decided with the last of them.
Settled ==
  \A n \in graph.nodes :
    In(graph, n) # {} /\ (\A e \in In(graph, n) : edgeState[e] # "unknown") => nodeState[n] # "unknown"

InactiveSkipped == \A n \in InactiveRoots(graph) : nodeState[n] = "skipped"

\* What was launched lies on the chosen paths, in graphs with cycles too.
OnChosenPaths == \A n \in graph.nodes : nodeState[n] = "taken" => n \in ChosenPaths

SInv == Propagated /\ Settled /\ InactiveSkipped /\ OnChosenPaths

LEMMA InitSettled == Init => SInv
<1> SUFFICES ASSUME Init PROVE SInv
    OBVIOUS
<1> DEFINE cut == InactiveCut(graph)
           S   == SkippedNodes(graph, Unknown(graph.edges), cut)
<1>1. /\ nodeState = [n \in graph.nodes |-> IF n \in InactiveRoots(graph) \union S
                                            THEN "skipped" ELSE "unknown"]
      /\ edgeState = [e \in graph.edges |-> IF e \in SkippedEdges(graph, cut, S)
                                            THEN "skipped" ELSE Unknown(graph.edges)[e]]
      /\ \A e \in graph.edges : Unknown(graph.edges)[e] = "unknown"
    BY DEF Init, InitialNodes, InitialEdges, AfterSkip, Unknown
<1>2. Propagated
    BY DEF Init, Propagated
<1>3. Settled
  <2> SUFFICES ASSUME NEW n \in graph.nodes, In(graph, n) # {},
                      \A e \in In(graph, n) : edgeState[e] # "unknown"
               PROVE  n \in S
      BY <1>1 DEF Settled
  <2>1. In(graph, n) \subseteq SkippedEdges(graph, cut, S)
      BY <1>1 DEF In
  <2> QED
      BY <2>1, SkippedNodesClosed DEF ClosedUnderSkip
<1>4. InactiveSkipped
    BY <1>1 DEF InactiveSkipped, InactiveRoots, Roots
<1>5. OnChosenPaths
    BY <1>1 DEF OnChosenPaths
<1> QED
    BY <1>2, <1>3, <1>4, <1>5 DEF SInv

LEMMA StartSettled == IInv /\ SInv /\ Start => SInv'
<1> SUFFICES ASSUME IInv, SInv, Start PROVE SInv'
    OBVIOUS
<1>1. graph.root \in graph.nodes /\ nodeState[graph.root] = "unknown"
    BY DEF Start, IInv, TypeOK, States, IsWorkflowGraph, NodesAgree, RootNotSkipped
<1>2. /\ graph' = graph /\ edgeState' = edgeState /\ outcome' = outcome
      /\ nodeState' = [n \in graph.nodes |-> IF n = graph.root THEN "taken" ELSE nodeState[n]]
    BY <1>1 DEF Start, IInv, TypeOK
<1>3. Propagated' /\ Settled'
    BY <1>2 DEF SInv, Propagated, Settled
<1>4. InactiveSkipped'
    BY <1>1, <1>2 DEF SInv, InactiveSkipped, InactiveRoots, Roots
<1>5. OnChosenPaths'
  <2>1. ChosenPaths' = ChosenPaths /\ graph.root \in ChosenPaths
      BY <1>1, <1>2 DEF ChosenPaths
  <2> QED
      BY <1>2, <2>1 DEF SInv, OnChosenPaths
<1> QED
    BY <1>3, <1>4, <1>5 DEF SInv

\* What the end of node n does to the edges behind it and to the nodes it
\* gives their last decided edge.
LEMMA EndStepSettles ==
  ASSUME IInv, NEW n \in graph.nodes, NEW handle, End(n, handle)
  PROVE  LET settled == SkippedAfter(graph, edgeState, n, handle)
                          \union LateAfter(graph, edgeState, n, handle)
                          \union ReadyAfter(graph, edgeState, n, handle)
         IN  /\ \A e \in Out(graph, n) :
                  edgeState'[e] = IF e \in SelectedEdges(graph, n, handle) THEN "taken" ELSE "skipped"
             /\ \A m \in graph.nodes :
                  (\A e \in In(graph, m) : edgeState'[e] # "unknown") =>
                    m \in settled \/ \A e \in In(graph, m) : edgeState[e] # "unknown"
<1>1. Coherent(graph, nodeState, edgeState)
    BY InvCoherent
<1>2. nodeState[n] = "taken" /\ outcome[n] = NotEnded
    BY DEF End, InFlight, IInv, NodesAgree
<1>3. \A e \in Out(graph, n) : edgeState[e] = "unknown"
    BY <1>2 DEF IInv, EdgesAgree, Out
<1>4. edgeState \in [graph.edges -> States]
    BY DEF IInv, TypeOK
<1> QED
    BY <1>1, <1>2, <1>3, <1>4, EndSettles DEF End

LEMMA EndSettled ==
  ASSUME IInv, SInv, NEW n \in graph.nodes, NEW handle \in HandlesOf(graph, n), End(n, handle)
  PROVE  SInv'
<1> DEFINE skipped  == SkippedAfter(graph, edgeState, n, handle)
           enqueued == LateAfter(graph, edgeState, n, handle)
                         \union ReadyAfter(graph, edgeState, n, handle)
<1>1. /\ \A e \in graph.edges : edgeState[e] # "unknown" => edgeState'[e] = edgeState[e]
      /\ \A m \in skipped \union enqueued : m \in graph.nodes /\ nodeState[m] = "unknown"
    BY EndStep
<1>2. /\ \A e \in Out(graph, n) :
           edgeState'[e] = IF e \in SelectedEdges(graph, n, handle) THEN "taken" ELSE "skipped"
      /\ \A m \in graph.nodes :
           (\A e \in In(graph, m) : edgeState'[e] # "unknown") =>
             m \in skipped \union enqueued \/ \A e \in In(graph, m) : edgeState[e] # "unknown"
    BY EndStepSettles
<1>3. /\ graph' = graph
      /\ nodeState' = [m \in graph.nodes |-> IF m \in enqueued THEN "taken"
                                             ELSE IF m \in skipped THEN "skipped"
                                             ELSE nodeState[m]]
      /\ \A m \in graph.nodes : outcome'[m] = IF m = n THEN handle ELSE outcome[m]
      /\ outcome[n] = NotEnded
    BY DEF End, InFlight, IInv, TypeOK
<1>4. Propagated'
  <2> SUFFICES ASSUME NEW m \in graph.nodes, outcome'[m] # NotEnded, NEW e \in Out(graph, m)
               PROVE  edgeState'[e] = IF e \in SelectedEdges(graph, m, outcome'[m])
                                      THEN "taken" ELSE "skipped"
      BY <1>3 DEF Propagated
  <2>1. CASE m = n
      BY <2>1, <1>2, <1>3
  <2>2. CASE m # n
    <3>1. edgeState[e] = IF e \in SelectedEdges(graph, m, outcome[m]) THEN "taken" ELSE "skipped"
        BY <2>2, <1>3 DEF SInv, Propagated
    <3> QED
        BY <3>1, <2>2, <1>1, <1>3 DEF Out
  <2> QED
      BY <2>1, <2>2
<1>5. Settled'
  <2> SUFFICES ASSUME NEW m \in graph.nodes, In(graph, m) # {},
                      \A e \in In(graph, m) : edgeState'[e] # "unknown"
               PROVE  nodeState'[m] # "unknown"
      BY <1>3 DEF Settled
  <2>1. m \in skipped \union enqueued \/ nodeState[m] # "unknown"
      BY <1>2 DEF SInv, Settled
  <2> QED
      BY <2>1, <1>3
<1>6. InactiveSkipped'
    BY <1>1, <1>3 DEF SInv, InactiveSkipped, InactiveRoots, Roots
<1>7. ChosenPaths \subseteq ChosenPaths'
  <2> SUFFICES ASSUME NEW m \in ChosenPaths, NEW T \in SUBSET graph.nodes, graph.root \in T,
                      \A k \in T : outcome'[k] # NotEnded =>
                        \A e \in SelectedEdges(graph, k, outcome'[k]) : e.head \in T
               PROVE  m \in T
      BY <1>3 DEF ChosenPaths
  <2>1. \A k \in T : outcome[k] # NotEnded =>
          \A e \in SelectedEdges(graph, k, outcome[k]) : e.head \in T
      BY <1>3
  <2> QED
      BY <2>1 DEF ChosenPaths
<1>8. OnChosenPaths'
  <2> SUFFICES ASSUME NEW m \in graph.nodes, nodeState'[m] = "taken"
               PROVE  m \in ChosenPaths'
      BY <1>3 DEF OnChosenPaths
  <2>1. CASE nodeState[m] = "taken"
      BY <2>1, <1>7 DEF SInv, OnChosenPaths
  <2>2. CASE m \in enqueued
    <3>1. PICK e \in In(graph, m) : edgeState'[e] = "taken"
        BY <2>2, EndStep DEF IsNodeReady
    <3>2. /\ IInv' /\ Propagated'
          /\ e \in graph.edges /\ e.head = m /\ e.tail \in graph.nodes /\ e \in Out(graph, e.tail)
        BY <3>1, <1>4, EndInv DEF IInv, TypeOK, IsWorkflowGraph, In, Out
    <3>3. nodeState'[e.tail] # "skipped"
        BY <3>1, <3>2, <1>3 DEF IInv, LaunchedWhenDecided
    <3>4. outcome'[e.tail] # NotEnded
        BY <3>1, <3>2, <3>3, <1>3 DEF IInv, EdgesAgree
    <3>5. e \in SelectedEdges(graph, e.tail, outcome'[e.tail])
        BY <3>1, <3>2, <3>4, <1>3 DEF Propagated
    <3>6. nodeState[e.tail] = "taken"
        BY <3>2, <3>4, <1>3 DEF IInv, NodesAgree, End, InFlight
    <3>7. e.tail \in ChosenPaths'
        BY <3>2, <3>6, <1>7 DEF SInv, OnChosenPaths
    <3> QED
        BY <3>2, <3>4, <3>5, <3>7, <1>3 DEF ChosenPaths
  <2> QED
      BY <2>1, <2>2, <1>3
<1> QED
    BY <1>4, <1>5, <1>6, <1>8 DEF SInv

LEMMA NextSettled == IInv /\ SInv /\ [Next]_vars => SInv'
<1> SUFFICES ASSUME IInv, SInv, [Next]_vars PROVE SInv'
    OBVIOUS
<1>1. CASE Start
    BY <1>1, StartSettled
<1>2. CASE \E n \in graph.nodes : \E handle \in HandlesOf(graph, n) : End(n, handle)
    BY <1>2, EndSettled
<1>3. CASE UNCHANGED vars
    BY <1>3 DEF vars, SInv, Propagated, Settled, InactiveSkipped, OnChosenPaths, ChosenPaths
<1> QED
    BY <1>1, <1>2, <1>3 DEF Next

\* With nothing left to run, the decided nodes are closed under the rule that
\* grounds a node: each node that ended or was skipped decided all its edges.
LEMMA QuietDecides ==
  ASSUME IInv, SInv, Quiet
  PROVE  \A n \in Grounded : nodeState[n] # "unknown"
<1> DEFINE D == {n \in graph.nodes : nodeState[n] # "unknown"}
<1>1. ASSUME NEW n \in D, NEW e \in Out(graph, n) PROVE edgeState[e] # "unknown"
  <2>1. nodeState[n] \in {"taken", "skipped"}
      BY DEF IInv, TypeOK, States
  <2>2. CASE nodeState[n] = "skipped"
      BY <2>2, <1>1 DEF IInv, LaunchedWhenDecided
  <2>3. CASE nodeState[n] = "taken"
    <3>1. outcome[n] # NotEnded
        BY <2>3 DEF IInv, NodesAgree, Quiet, InFlight
    <3> QED
        BY <3>1, <1>1 DEF SInv, Propagated
  <2> QED
      BY <2>1, <2>2, <2>3
<1>2. ASSUME NEW n \in graph.nodes,
             \/ n \in InactiveRoots(graph) \union {graph.root}
             \/ In(graph, n) # {} /\ \A e \in In(graph, n) : e.tail \in D
      PROVE  n \in D
  <2>1. CASE n \in InactiveRoots(graph)
      BY <2>1 DEF SInv, InactiveSkipped
  <2>2. CASE n = graph.root
      BY <2>2 DEF Quiet, IInv, NodesAgree
  <2>3. CASE In(graph, n) # {} /\ \A e \in In(graph, n) : e.tail \in D
    <3>1. \A e \in In(graph, n) : edgeState[e] # "unknown"
        BY <2>3, <1>1 DEF In, Out
    <3> QED
        BY <3>1, <2>3 DEF SInv, Settled
  <2> QED
      BY <1>2, <2>1, <2>2, <2>3
<1> QED
    BY <1>2 DEF Grounded

\* No path that was chosen is cut short: the nodes that ran, with those that
\* are not grounded, are closed under following the selected edges.
LEMMA QuietFollows ==
  ASSUME IInv, SInv, Quiet
  PROVE  \A n \in Grounded : n \in ChosenPaths => nodeState[n] = "taken"
<1> DEFINE T == {n \in graph.nodes : nodeState[n] = "taken" \/ n \notin Grounded}
<1>1. graph.root \in T
    BY DEF Quiet, IInv, NodesAgree, TypeOK, IsWorkflowGraph
<1>2. ASSUME NEW m \in T, outcome[m] # NotEnded,
             NEW e \in SelectedEdges(graph, m, outcome[m])
      PROVE  e.head \in T
  <2>1. e \in graph.edges /\ e.tail = m /\ e.head \in graph.nodes /\ e \in In(graph, e.head)
      BY DEF SelectedEdges, Out, In, IInv, TypeOK, IsWorkflowGraph
  <2>2. edgeState[e] = "taken"
      BY <1>2, <2>1 DEF SInv, Propagated, Out
  <2>3. nodeState[e.head] # "skipped"
      BY <2>1, <2>2 DEF IInv, LaunchedWhenDecided
  <2>4. e.head \in Grounded => nodeState[e.head] = "taken"
      BY <2>1, <2>3, QuietDecides DEF IInv, TypeOK, States
  <2> QED
      BY <2>1, <2>4
<1> QED
    BY <1>1, <1>2 DEF ChosenPaths

LEMMA SettledNoneLeft == IInv /\ SInv => NoNodeLeftBehind
<1> SUFFICES ASSUME IInv, SInv, Quiet, NEW n \in Grounded
             PROVE  nodeState[n] # "unknown" /\ (nodeState[n] = "taken" <=> n \in ChosenPaths)
    BY DEF NoNodeLeftBehind
<1>1. n \in graph.nodes
    BY DEF Grounded
<1> QED
    BY <1>1, QuietDecides, QuietFollows DEF SInv, OnChosenPaths

\* When nothing is left to run every grounded node is decided, and those that
\* ran are exactly the nodes on the paths the outcomes chose, whatever the
\* graph, its cycles and the order in which parallel nodes ended.
THEOREM NoneLeftBehind == Spec => []NoNodeLeftBehind
<1>1. Init => IInv /\ SInv
    BY InitInv, InitSettled
<1>2. IInv /\ SInv /\ [Next]_vars => IInv' /\ SInv'
    BY NextInv, NextSettled
<1>3. IInv /\ SInv => NoNodeLeftBehind
    BY SettledNoneLeft
<1> QED
    BY <1>1, <1>2, <1>3, PTL DEF Spec

=============================================================================

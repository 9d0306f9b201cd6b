---------------------------- MODULE WorkflowGraph ----------------------------
(****************************************************************************)
(* The pure part of workflow execution: how a graph is built from a         *)
(* configuration (api/core/workflow/graph/graph.py) and what the end of one *)
(* node does to the states of edges and nodes (graph_engine/               *)
(* graph_traversal/ and graph_engine/graph_state_manager.py).               *)
(*                                                                          *)
(* A graph is a record                                                      *)
(*   nodes     the node ids                                                 *)
(*   edges     a set of [tail, head, handle]; parallel edges that agree on  *)
(*             all three are decided by the same call and count as one      *)
(*   root      the id chosen as the entry point                             *)
(*   kind      the execution type of each node as configured; "entry" is    *)
(*             the start node of a loop or an iteration, executable and     *)
(*             allowed as a root; response and container nodes are          *)
(*             traversed as executable ones                                 *)
(*   strategy  the error strategy of each node                              *)
(*   retries   retry_config.max_retries of each node, 0 when retry is off   *)
(****************************************************************************)
EXTENDS Integers

CONSTANT Handles   \* the handles a node's result may name

\* The handle of a result that names none, and the one of an exception that
\* is routed to the fail branch.
Source     == "source"
FailBranch == "fail-branch"

ASSUME DefaultHandles == {Source, FailBranch} \subseteq Handles

States     == {"unknown", "taken", "skipped"}
Kinds      == {"root", "entry", "executable", "branch"}
Strategies == {"abort", "fail-branch", "default-value"}

In(g, n)  == {e \in g.edges : e.head = n}
Out(g, n) == {e \in g.edges : e.tail = n}

\* A node with the fail-branch strategy executes as a branch node, whatever
\* its configuration says.
ExecutionType(g, n) ==
  IF g.strategy[n] = "fail-branch" THEN "branch" ELSE g.kind[n]

\* Mutant: a result that names no handle keeps none.
NoDefaultHandle(g, n) ==
  IF g.kind[n] = "branch" THEN Handles ELSE {Source, FailBranch, "none"}

\* The handles node n can end with: a branch node chooses any, another node
\* names the default one, and a failure under the fail-branch strategy takes
\* the fail branch.
HandlesOf(g, n) ==
  IF g.kind[n] = "branch" THEN Handles
  ELSE IF g.strategy[n] = "fail-branch" THEN {Source, FailBranch} ELSE {Source}

\* What Graph.init lets through: the edges join known nodes, the root has
\* execution type root or is a container's entry. No edge enters an entry
\* point: the editor draws none, and _mark_inactive_root_branches counts on it
\* without checking. Cycles are not refused.
IsWorkflowGraph(g) ==
  /\ g.root \in g.nodes
  /\ \A e \in g.edges : e.tail \in g.nodes /\ e.head \in g.nodes
  /\ g.kind \in [g.nodes -> Kinds]
  /\ g.strategy \in [g.nodes -> Strategies]
  /\ g.retries \in [g.nodes -> Nat]
  /\ ExecutionType(g, g.root) \in {"root", "entry"}
  /\ \A n \in g.nodes : n = g.root \/ ExecutionType(g, n) = "root" => In(g, n) = {}

----------------------------------------------------------------------------
(* Skip propagation. The code recurses from each edge it skips to the node  *)
(* the edge enters; a node all of whose incoming edges are skipped is       *)
(* skipped, and its outgoing edges with it. The nodes it reaches are the    *)
(* least set closed under that rule, written as an intersection, so that    *)
(* the order of the recursion does not matter.                              *)

\* Mutant: a node that is skipped does not pass the skip on.
SkipStops(g, cut, T) == cut

\* The edges skipped once the edges in cut and the nodes in T are.
SkippedEdges(g, cut, T) == cut \union {e \in g.edges : e.tail \in T}

\* Mutant: one skipped edge is enough to skip the node it enters.
SkipEager(g, es, cut, T) ==
  \A n \in g.nodes : In(g, n) \intersect SkippedEdges(g, cut, T) # {} => n \in T

ClosedUnderSkip(g, es, cut, T) ==
  LET skipped == SkippedEdges(g, cut, T)
  IN  \A n \in g.nodes :
        /\ In(g, n) \intersect skipped # {}
        /\ \A e \in In(g, n) : e \in skipped \/ es[e] = "skipped"
        => n \in T

SkippedNodes(g, es, cut) ==
  LET closed == {T \in SUBSET g.nodes : ClosedUnderSkip(g, es, cut, T)}
  IN  {n \in g.nodes : \A T \in closed : n \in T}

\* The edge states after skip_branch_paths(cut).
AfterSkip(g, es, cut) ==
  LET skipped == SkippedEdges(g, cut, SkippedNodes(g, es, cut))
  IN  [e \in g.edges |-> IF e \in skipped THEN "skipped" ELSE es[e]]

\* Mutant: a node is ready as soon as one edge was taken.
ReadyEarly(g, es, n) == \E e \in In(g, n) : es[e] = "taken"

\* is_node_ready for a node with incoming edges: all decided, one taken.
IsNodeReady(g, es, n) ==
  /\ \A e \in In(g, n) : es[e] # "unknown"
  /\ \E e \in In(g, n) : es[e] = "taken"

\* Mutant: the skip propagation enqueues nothing.
NoLateJoins(g, es, cut) == {}

\* The joins the propagation itself enqueues: a skipped edge was the last
\* incoming edge to be decided and another one had been taken before.
LateJoins(g, es, cut) ==
  LET skipped == SkippedEdges(g, cut, SkippedNodes(g, es, cut))
      after   == AfterSkip(g, es, cut)
  IN  {n \in g.nodes : In(g, n) \intersect skipped # {} /\ IsNodeReady(g, after, n)}

----------------------------------------------------------------------------
(* What the end of node n does. A branch node takes the edges of the handle *)
(* it selected and skips the others; any other node takes them all.         *)

SelectedEdges(g, n, handle) ==
  IF ExecutionType(g, n) = "branch"
  THEN {e \in Out(g, n) : e.handle = handle}
  ELSE Out(g, n)

CutEdges(g, n, handle) == Out(g, n) \ SelectedEdges(g, n, handle)

EdgesAfter(g, es, n, handle) ==
  LET selected == SelectedEdges(g, n, handle)
      after    == AfterSkip(g, es, CutEdges(g, n, handle))
  IN  [e \in g.edges |-> IF e \in selected THEN "taken" ELSE after[e]]

\* The nodes returned to the event handler, which enqueues and tracks them.
ReadyAfter(g, es, n, handle) ==
  LET selected == SelectedEdges(g, n, handle)
      after    == EdgesAfter(g, es, n, handle)
  IN  {m \in g.nodes : In(g, m) \intersect selected # {} /\ IsNodeReady(g, after, m)}

\* The nodes enqueued behind the event handler's back.
LateAfter(g, es, n, handle) == LateJoins(g, es, CutEdges(g, n, handle))

SkippedAfter(g, es, n, handle) == SkippedNodes(g, es, CutEdges(g, n, handle))

----------------------------------------------------------------------------
(* The graph as Graph.init leaves it: of several root nodes only the chosen *)
(* one is active, the others and all that hangs on them alone are skipped.  *)

Roots(g) == {n \in g.nodes : ExecutionType(g, n) = "root"}

InactiveRoots(g) == IF g.root \in Roots(g) THEN Roots(g) \ {g.root} ELSE {}

Unknown(S) == [s \in S |-> "unknown"]

InactiveCut(g) == {e \in g.edges : e.tail \in InactiveRoots(g)}

InitialNodes(g) ==
  [n \in g.nodes |->
     IF n \in InactiveRoots(g) \union SkippedNodes(g, Unknown(g.edges), InactiveCut(g))
     THEN "skipped" ELSE "unknown"]

InitialEdges(g) == AfterSkip(g, Unknown(g.edges), InactiveCut(g))

=============================================================================

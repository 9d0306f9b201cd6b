------------------------- MODULE WorkflowGraphProofs -------------------------
(****************************************************************************)
(* What skip propagation and the end of a node do to a graph, whatever the  *)
(* graph. SkippedNodes is the least set closed under skipping; the lemmas   *)
(* say that it is closed, that it holds nothing it need not, and that it    *)
(* holds no node that was decided before.                                   *)
(****************************************************************************)
EXTENDS WorkflowGraph, TLAPS

\* What the propagation may assume of the states it finds, and keeps: edges
\* out of undecided nodes, and some edge into them, are undecided.
Coherent(g, ns, es) ==
  /\ \A e \in g.edges : ns[e.tail] = "unknown" => es[e] = "unknown"
  /\ \A n \in g.nodes : ns[n] # "unknown" => \A e \in In(g, n) : es[e] # "unknown"

LEMMA SkippedNodesClosed ==
  ASSUME NEW g, NEW es, NEW cut
  PROVE  ClosedUnderSkip(g, es, cut, SkippedNodes(g, es, cut))
<1> DEFINE S == SkippedNodes(g, es, cut)
<1> SUFFICES ASSUME NEW n \in g.nodes,
                    In(g, n) \intersect SkippedEdges(g, cut, S) # {},
                    \A e \in In(g, n) : e \in SkippedEdges(g, cut, S) \/ es[e] = "skipped"
             PROVE  n \in S
    BY DEF ClosedUnderSkip
<1> SUFFICES ASSUME NEW T \in SUBSET g.nodes, ClosedUnderSkip(g, es, cut, T)
             PROVE  n \in T
    BY DEF SkippedNodes
<1>1. S \subseteq T
    BY DEF SkippedNodes
<1>2. SkippedEdges(g, cut, S) \subseteq SkippedEdges(g, cut, T)
    BY <1>1 DEF SkippedEdges
<1> QED
    BY <1>2 DEF ClosedUnderSkip

LEMMA SkippedNodesLeast ==
  ASSUME NEW g, NEW es, NEW cut, NEW T \in SUBSET g.nodes, ClosedUnderSkip(g, es, cut, T)
  PROVE  SkippedNodes(g, es, cut) \subseteq T
  BY DEF SkippedNodes

\* A node is skipped only if all its incoming edges are, one of them just now.
LEMMA SkippedNodesSound ==
  ASSUME NEW g, NEW es, NEW cut, NEW n \in SkippedNodes(g, es, cut)
  PROVE  LET skipped == SkippedEdges(g, cut, SkippedNodes(g, es, cut))
         IN  /\ n \in g.nodes
             /\ In(g, n) \intersect skipped # {}
             /\ \A e \in In(g, n) : e \in skipped \/ es[e] = "skipped"
<1> DEFINE S == SkippedNodes(g, es, cut)
           T == S \ {n}
           Reached(X, m) == /\ In(g, m) \intersect SkippedEdges(g, cut, X) # {}
                            /\ \A e \in In(g, m) : e \in SkippedEdges(g, cut, X) \/ es[e] = "skipped"
<1>1. S \subseteq g.nodes
    BY DEF SkippedNodes
<1>2. SUFFICES ASSUME ~Reached(S, n) PROVE FALSE
    BY <1>1
<1>3. ClosedUnderSkip(g, es, cut, T)
  <2> SUFFICES ASSUME NEW m \in g.nodes, Reached(T, m) PROVE m \in T
      BY DEF ClosedUnderSkip
  <2>1. SkippedEdges(g, cut, T) \subseteq SkippedEdges(g, cut, S)
      BY DEF SkippedEdges
  <2>2. Reached(S, m)
      BY <2>1
  <2>3. m \in S
      BY <2>2, SkippedNodesClosed DEF ClosedUnderSkip
  <2> QED
      BY <2>2, <2>3, <1>2
<1>4. S \subseteq T
    BY <1>1, <1>3, SkippedNodesLeast
<1> QED
    BY <1>4

\* No decided node is skipped, when the edges that are cut were undecided.
LEMMA SkippedNodesUnknown ==
  ASSUME NEW g, NEW ns, NEW es, NEW cut \in SUBSET g.edges,
         Coherent(g, ns, es),
         \A e \in cut : es[e] = "unknown"
  PROVE  \A n \in SkippedNodes(g, es, cut) : ns[n] = "unknown"
<1> DEFINE S == SkippedNodes(g, es, cut)
           T == {n \in S : ns[n] = "unknown"}
<1>1. S \subseteq g.nodes
    BY DEF SkippedNodes
<1>2. ClosedUnderSkip(g, es, cut, T)
  <2> SUFFICES ASSUME NEW m \in g.nodes,
                      In(g, m) \intersect SkippedEdges(g, cut, T) # {},
                      \A e \in In(g, m) : e \in SkippedEdges(g, cut, T) \/ es[e] = "skipped"
               PROVE  m \in T
      BY DEF ClosedUnderSkip
  <2>1. SkippedEdges(g, cut, T) \subseteq SkippedEdges(g, cut, S)
      BY DEF SkippedEdges
  <2>2. m \in S
      BY <2>1, SkippedNodesClosed DEF ClosedUnderSkip
  <2>3. PICK e \in In(g, m) : e \in SkippedEdges(g, cut, T)
      OBVIOUS
  <2>4. es[e] = "unknown"
      BY <2>3 DEF SkippedEdges, Coherent
  <2> QED
      BY <2>2, <2>4 DEF Coherent
<1> QED
    BY <1>1, <1>2, SkippedNodesLeast

\* The propagation decides undecided edges only.
LEMMA SkippedEdgesUnknown ==
  ASSUME NEW g, NEW ns, NEW es, NEW cut \in SUBSET g.edges,
         Coherent(g, ns, es),
         \A e \in cut : es[e] = "unknown"
  PROVE  \A e \in SkippedEdges(g, cut, SkippedNodes(g, es, cut)) :
           e \in g.edges /\ es[e] = "unknown"
  BY SkippedNodesUnknown DEF SkippedEdges, Coherent

----------------------------------------------------------------------------
(* The end of a taken node n whose outgoing edges are undecided. *)

\* All there is to know about the end of a node: it revises no decision, skips
\* undecided nodes with all their edges, and launches undecided nodes whose
\* incoming edges are now decided, none of them twice.
LEMMA EndDecides ==
  ASSUME NEW g, NEW ns, NEW es \in [g.edges -> States], NEW n \in g.nodes, NEW handle,
         IsWorkflowGraph(g),
         Coherent(g, ns, es),
         ns[n] # "unknown",
         \A e \in Out(g, n) : es[e] = "unknown"
  PROVE  LET after   == EdgesAfter(g, es, n, handle)
             skipped == SkippedAfter(g, es, n, handle)
             late    == LateAfter(g, es, n, handle)
             found   == ReadyAfter(g, es, n, handle)
         IN  /\ after \in [g.edges -> States]
             /\ \A e \in g.edges : es[e] # "unknown" => after[e] = es[e]
             /\ \A e \in g.edges : after[e] # "unknown" =>
                  es[e] # "unknown" \/ e.tail = n \/ e.tail \in skipped
             /\ \A m \in skipped : /\ m \in g.nodes /\ ns[m] = "unknown"
                                   /\ \A e \in In(g, m) \union Out(g, m) : after[e] = "skipped"
             /\ \A m \in late \union found : /\ m \in g.nodes /\ ns[m] = "unknown"
                                            /\ m \notin skipped
                                            /\ IsNodeReady(g, after, m)
             /\ late \intersect found = {}
<1> DEFINE cut      == CutEdges(g, n, handle)
           selected == SelectedEdges(g, n, handle)
           S        == SkippedNodes(g, es, cut)
           cutdown  == SkippedEdges(g, cut, S)
           between  == AfterSkip(g, es, cut)
           after    == EdgesAfter(g, es, n, handle)
           late     == LateAfter(g, es, n, handle)
           found    == ReadyAfter(g, es, n, handle)
<1>1. /\ selected \subseteq Out(g, n) /\ cut = Out(g, n) \ selected
      /\ Out(g, n) \subseteq g.edges
    BY DEF SelectedEdges, CutEdges, Out
<1>2. /\ \A e \in cut \union selected : es[e] = "unknown"
      /\ cut \in SUBSET g.edges
    BY <1>1
<1>3. \A e \in cutdown : e \in g.edges /\ es[e] = "unknown"
    BY <1>2, SkippedEdgesUnknown
<1>4. \A m \in S : m \in g.nodes /\ ns[m] = "unknown"
    BY <1>2, SkippedNodesUnknown DEF SkippedNodes
<1>5. n \notin S
    BY <1>4
<1>6. selected \intersect cutdown = {}
    BY <1>1, <1>5 DEF SkippedEdges, Out
<1>7. between = [e \in g.edges |-> IF e \in cutdown THEN "skipped" ELSE es[e]]
    BY DEF AfterSkip
<1>8. after = [e \in g.edges |-> IF e \in selected THEN "taken" ELSE between[e]]
    BY DEF EdgesAfter
<1>9. after \in [g.edges -> States]
    BY <1>7, <1>8 DEF States
<1>10. \A e \in g.edges : es[e] # "unknown" => after[e] = es[e]
    BY <1>2, <1>3, <1>7, <1>8
<1>11. \A e \in g.edges : after[e] # "unknown" =>
         es[e] # "unknown" \/ e.tail = n \/ e.tail \in S
    BY <1>1, <1>7, <1>8 DEF SkippedEdges, Out
<1>12. ASSUME NEW m \in S
       PROVE  \A e \in In(g, m) \union Out(g, m) : after[e] = "skipped"
  <2>1. ASSUME NEW e \in In(g, m) PROVE e \in cutdown \/ es[e] = "skipped"
      BY SkippedNodesSound, <2>1
  <2>2. ASSUME NEW e \in Out(g, m) PROVE e \in cutdown
      BY <2>2 DEF SkippedEdges, Out
  <2>3. \A e \in selected : es[e] # "skipped" /\ e \notin cutdown
      BY <1>2, <1>6
  <2>4. In(g, m) \union Out(g, m) \subseteq g.edges
      BY DEF In, Out
  <2> QED
      BY <2>1, <2>2, <2>3, <2>4, <1>7, <1>8
<1>13. ASSUME NEW m \in late
       PROVE  /\ m \in g.nodes /\ ns[m] = "unknown" /\ m \notin S
              /\ IsNodeReady(g, after, m)
              /\ \A e \in In(g, m) : e \notin selected
  <2>1. m \in g.nodes /\ In(g, m) \intersect cutdown # {} /\ IsNodeReady(g, between, m)
      BY DEF LateAfter, LateJoins
  <2>2. ns[m] = "unknown"
      BY <2>1, <1>3 DEF Coherent
  <2>3. In(g, m) \subseteq g.edges
      BY DEF In
  <2>4. \A e \in In(g, m) : e \notin selected
      BY <2>1, <2>3, <1>2, <1>6, <1>7 DEF IsNodeReady
  <2>5. IsNodeReady(g, after, m)
      BY <2>1, <2>3, <2>4, <1>8 DEF IsNodeReady
  <2>6. m \notin S
      BY <2>5, <1>12 DEF IsNodeReady
  <2> QED
      BY <2>1, <2>2, <2>4, <2>5, <2>6
<1>14. ASSUME NEW m \in found
       PROVE  /\ m \in g.nodes /\ ns[m] = "unknown" /\ m \notin S
              /\ IsNodeReady(g, after, m)
              /\ \E e \in In(g, m) : e \in selected
  <2>1. m \in g.nodes /\ In(g, m) \intersect selected # {} /\ IsNodeReady(g, after, m)
      BY DEF ReadyAfter
  <2>2. ns[m] = "unknown"
      BY <2>1, <1>2 DEF Coherent
  <2>3. m \notin S
      BY <2>1, <1>12 DEF IsNodeReady
  <2> QED
      BY <2>1, <2>2, <2>3
<1>15. late \intersect found = {}
    BY <1>13, <1>14
<1>16. SkippedAfter(g, es, n, handle) = S
    BY DEF SkippedAfter
<1> QED
    BY <1>4, <1>9, <1>10, <1>11, <1>12, <1>13, <1>14, <1>15, <1>16

\* The end of a node decides every edge behind it, and settles every node whose
\* last undecided incoming edge is decided by it: none is passed over between
\* the skip propagation and the look at the selected edges.
LEMMA EndSettles ==
  ASSUME NEW g, NEW ns, NEW es \in [g.edges -> States], NEW n \in g.nodes, NEW handle,
         Coherent(g, ns, es),
         ns[n] # "unknown",
         \A e \in Out(g, n) : es[e] = "unknown"
  PROVE  LET after   == EdgesAfter(g, es, n, handle)
             settled == SkippedAfter(g, es, n, handle)
                          \union LateAfter(g, es, n, handle) \union ReadyAfter(g, es, n, handle)
         IN  /\ \A e \in Out(g, n) :
                  after[e] = IF e \in SelectedEdges(g, n, handle) THEN "taken" ELSE "skipped"
             /\ \A m \in g.nodes :
                  (\A e \in In(g, m) : after[e] # "unknown") =>
                    m \in settled \/ \A e \in In(g, m) : es[e] # "unknown"
<1> DEFINE cut      == CutEdges(g, n, handle)
           selected == SelectedEdges(g, n, handle)
           S        == SkippedNodes(g, es, cut)
           cutdown  == SkippedEdges(g, cut, S)
           between  == AfterSkip(g, es, cut)
           after    == EdgesAfter(g, es, n, handle)
           late     == LateAfter(g, es, n, handle)
           found    == ReadyAfter(g, es, n, handle)
<1>1. /\ selected \subseteq Out(g, n) /\ cut = Out(g, n) \ selected
      /\ Out(g, n) \subseteq g.edges
    BY DEF SelectedEdges, CutEdges, Out
<1>2. /\ \A e \in cut \union selected : es[e] = "unknown"
      /\ cut \in SUBSET g.edges
    BY <1>1
<1>3. n \notin S
    BY <1>2, SkippedNodesUnknown
<1>4. selected \intersect cutdown = {} /\ cut \subseteq cutdown
    BY <1>1, <1>3 DEF SkippedEdges, Out
<1>5. /\ between = [e \in g.edges |-> IF e \in cutdown THEN "skipped" ELSE es[e]]
      /\ after = [e \in g.edges |-> IF e \in selected THEN "taken" ELSE between[e]]
    BY DEF AfterSkip, EdgesAfter
<1>6. \A e \in Out(g, n) : after[e] = IF e \in selected THEN "taken" ELSE "skipped"
    BY <1>1, <1>4, <1>5
<1>7. ASSUME NEW m \in g.nodes,
             \A e \in In(g, m) : after[e] # "unknown",
             NEW x \in In(g, m), es[x] = "unknown"
      PROVE  m \in S \union late \union found
  <2>1. In(g, m) \subseteq g.edges
      BY DEF In
  <2>2. CASE In(g, m) \intersect selected # {}
    <3>1. \E e \in In(g, m) : after[e] = "taken"
        BY <2>1, <2>2, <1>5
    <3> QED
        BY <3>1, <2>2, <1>7 DEF ReadyAfter, IsNodeReady
  <2>3. CASE In(g, m) \intersect selected = {}
    <3>1. \A e \in In(g, m) : after[e] = between[e]
        BY <2>1, <2>3, <1>5
    <3>2. x \in cutdown
        BY <2>1, <3>1, <1>5, <1>7
    <3>3. CASE \E e \in In(g, m) : after[e] = "taken"
        BY <3>1, <3>2, <3>3, <1>7 DEF LateAfter, LateJoins, IsNodeReady
    <3>4. CASE \A e \in In(g, m) : after[e] # "taken"
      <4>1. \A e \in In(g, m) : e \in cutdown \/ es[e] = "skipped"
          BY <2>1, <3>1, <3>4, <1>5, <1>7 DEF States
      <4>2. In(g, m) \intersect cutdown # {}
          BY <3>2
      <4> QED
          BY <4>1, <4>2, SkippedNodesClosed DEF ClosedUnderSkip
    <3> QED
        BY <3>3, <3>4
  <2> QED
      BY <2>2, <2>3
<1> QED
    BY <1>6, <1>7 DEF SkippedAfter

=============================================================================

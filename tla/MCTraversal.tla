----------------------------- MODULE MCTraversal -----------------------------
(****************************************************************************)
(* Families of small workflow graphs for GraphTraversal. Nodes are numbers, *)
(* 1 is the root and edges lead from smaller to larger ones, so every       *)
(* acyclic shape of the given pairs is there; which nodes choose a branch   *)
(* and which fail over is fixed per family.                                 *)
(****************************************************************************)
EXTENDS GraphTraversal

MCHandles == {Source, FailBranch, "a"}

\* The graph in which label[<<m, n>>] is the set of handles from m to n.
Graph(kind, strategy, label) ==
  [nodes    |-> DOMAIN kind,
   edges    |-> UNION {{[tail |-> p[1], head |-> p[2], handle |-> h] : h \in label[p]} :
                       p \in DOMAIN label},
   root     |-> 1,
   kind     |-> kind,
   strategy |-> strategy,
   retries  |-> [n \in DOMAIN kind |-> 0]]

Family(kind, strategy, pairs) ==
  LET forks    == {n \in DOMAIN kind : kind[n] = "branch" \/ strategy[n] = "fail-branch"}
      labels   == [pairs -> SUBSET {Source, FailBranch}]
      straight == {p \in pairs : p[1] \notin forks}
  IN  {Graph(kind, strategy, l) : l \in {l \in labels : \A p \in straight : FailBranch \notin l[p]}}

FailOver(n, k) == [i \in 1..n |-> IF i = k THEN "fail-branch" ELSE "abort"]

Forward(n) == {p \in (1..n) \X (1..n) : p[1] < p[2]}

\* Four nodes, all shapes: a branch and a node that may fail over.
Forked == Family(<<"root", "branch", "executable", "executable">>, FailOver(4, 3), Forward(4))

\* Two roots, of which one is inactive, before a branch and a join.
TwoRoots == Family(<<"root", "root", "branch", "executable">>, FailOver(4, 0),
                   {p \in Forward(4) : p[2] > 2})

\* Five nodes: a branch in parallel with a node that may fail over, a node
\* that can be skipped by either, and a last join.
Deep == Family(<<"entry", "branch", "executable", "executable", "executable">>, FailOver(5, 3),
               {<<1, 2>>, <<1, 3>>, <<2, 4>>, <<3, 4>>, <<2, 5>>, <<3, 5>>, <<4, 5>>})

MCGraphs == Forked \union TwoRoots \union Deep
=============================================================================

------------------------------- MODULE MCEngine -------------------------------
(****************************************************************************)
(* Small graphs for GraphEngine, each with one thing that is hard: parallel *)
(* nodes before a join, a choice, failures that are retried or absorbed, a  *)
(* pause in parallel with other work, a join decided by a skip.             *)
(****************************************************************************)
EXTENDS GraphEngine

CONSTANTS w1, w2

MCWorkers == {w1, w2}
MCHandles == {Source, FailBranch}

Edge(m, n, handle) == [tail |-> m, head |-> n, handle |-> handle]

WithRetry(k, n) == [i \in 1..k |-> IF i = n THEN 1 ELSE 0]
NoRetry(k)      == WithRetry(k, 0)

\* 1 -> {2, 3} -> 4; 2 is retried once, 3 falls back to a default value.
Diamond ==
  [nodes |-> 1..4, root |-> 1,
   edges |-> {Edge(1, 2, Source), Edge(1, 3, Source), Edge(2, 4, Source), Edge(3, 4, Source)},
   kind  |-> <<"root", "executable", "executable", "executable">>,
   strategy |-> <<"abort", "abort", "default-value", "abort">>,
   retries  |-> WithRetry(4, 2)]

\* 2 chooses 3 or goes straight to 4, where the two ways meet.
Choice ==
  [nodes |-> 1..4, root |-> 1,
   edges |-> {Edge(1, 2, Source), Edge(2, 3, Source), Edge(2, 4, FailBranch), Edge(3, 4, Source)},
   kind  |-> <<"root", "branch", "executable", "executable">>,
   strategy |-> <<"abort", "default-value", "abort", "abort">>,
   retries  |-> NoRetry(4)]

\* 2, on failing, takes the fail branch to 3, in parallel with 4.
Fallback ==
  [nodes |-> 1..4, root |-> 1,
   edges |-> {Edge(1, 2, Source), Edge(2, 3, FailBranch), Edge(1, 4, Source)},
   kind  |-> <<"root", "executable", "executable", "executable">>,
   strategy |-> <<"abort", "fail-branch", "abort", "abort">>,
   retries  |-> WithRetry(4, 2)]

\* 3 chooses 5 or the join 4, which also waits for 2: when 3 chooses 5 after 2
\* has ended, it is the skip of the edge from 3 that decides the join.
LateJoin ==
  [nodes |-> 1..5, root |-> 1,
   edges |-> {Edge(1, 2, Source), Edge(1, 3, Source), Edge(2, 4, Source),
              Edge(3, 4, FailBranch), Edge(3, 5, Source)},
   kind  |-> <<"root", "executable", "branch", "executable", "executable">>,
   strategy |-> <<"abort", "abort", "abort", "abort", "abort">>,
   retries  |-> NoRetry(5)]

\* 2, tried twice, takes the fail branch to 3 or skips it: 3 runs either way.
Short ==
  [nodes |-> 1..3, root |-> 1,
   edges |-> {Edge(1, 2, Source), Edge(1, 3, Source), Edge(2, 3, FailBranch)},
   kind  |-> <<"root", "executable", "executable">>,
   strategy |-> <<"abort", "fail-branch", "abort">>,
   retries  |-> WithRetry(3, 2)]

\* 2 chooses to go on to 3 and cannot go on from a failure; 4 runs beside it.
Stuck ==
  [nodes |-> 1..4, root |-> 1,
   edges |-> {Edge(1, 2, Source), Edge(2, 3, Source), Edge(1, 4, Source)},
   kind  |-> <<"root", "branch", "executable", "executable">>,
   strategy |-> <<"abort", "default-value", "abort", "default-value">>,
   retries  |-> NoRetry(4)]

AllGraphs   == {Diamond, Choice, Fallback, LateJoin}
ShortGraphs == {Short, Stuck}
LateGraphs  == {LateJoin}
===============================================================================

------------------------------ MODULE MCAnswers ------------------------------
(***************************************************************************)
(* Families of small flows for AnswerStream: node 1 is the root, 2 a branch, *)
(* 3 a node that streams or assigns, 4 and 5 are answers; every way to       *)
(* connect them by the given pairs is there, with one edge at most between   *)
(* two nodes. The branch chooses either handle, so its first edge is given   *)
(* the first one.                                                            *)
(***************************************************************************)
EXTENDS AnswerStream

MCHandles == {Source, FailBranch}

Kind     == <<"root", "branch", "executable", "executable", "executable">>
Strategy(third) == <<"abort", "abort", third, "abort", "abort">>
Pairs    == {<<1, 2>>, <<1, 3>>, <<2, 3>>, <<2, 4>>, <<2, 5>>, <<3, 4>>, <<3, 5>>, <<4, 5>>}

Shapes(third) ==
  LET forks(p) == p[1] = 2 \/ (p[1] = 3 /\ third = "fail-branch")
      edges(p) == {[tail |-> p[1], head |-> p[2], handle |-> h] :
                     h \in IF forks(p) THEN {Source, FailBranch} ELSE {Source}}
      canonical(E) == \A e \in E : e.tail = 2 /\ e.handle = FailBranch =>
                        \E f \in E : f.tail = 2 /\ f.head < e.head /\ f.handle = Source
      single(E) == \A e, f \in E : e.tail = f.tail /\ e.head = f.head => e = f
  IN  {[nodes |-> 1..5, edges |-> E, root |-> 1, kind |-> Kind, strategy |-> Strategy(third),
        retries |-> [n \in 1..5 |-> 0]] :
         E \in {E \in SUBSET UNION {edges(p) : p \in Pairs} :
                  single(E) /\ canonical(E) /\ \A n \in 2..5 : \E e \in E : e.head = n}}

\* Node 4 answers with what the nodes before it put out, node 5 with the
\* branch's output, the variable, and node 3's unless node 4 names it.
Flow(g, third, chunks) ==
  LET before(n, r) == Before(g, n, r)
      some(b, s)   == IF b THEN <<s>> ELSE <<>>
  IN  [graph     |-> g,
       template  |-> 4 :> (some(before(3, 4), Output(3)) \o <<Text>>)
                       @@ 5 :> (some(before(2, 5), Output(2))
                                \o some(before(3, 5) /\ ~before(3, 4), Output(3)) \o <<Variable>>),
       chunks    |-> [n \in 1..5 |-> IF n = 3 THEN chunks ELSE 0],
       assigners |-> third]

MCFlows ==
  {Flow(g, {}, 2) : g \in Shapes("default-value") \union Shapes("fail-branch")}
    \union {Flow(g, {3}, 0) : g \in Shapes("abort") \union Shapes("default-value")}
=============================================================================

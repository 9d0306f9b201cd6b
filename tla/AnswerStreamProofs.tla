-------------------------- MODULE AnswerStreamProofs --------------------------
(***************************************************************************)
(* Proofs about the streamed answers, for any flows without a cycle: any   *)
(* number of answers, segments and chunks, in any order of the events.     *)
(***************************************************************************)
EXTENDS AnswerStream, FiniteSetTheorems, SequenceTheorems, WellFoundedInduction, TLAPS

(***************************************************************************)
(* Lists.                                                                  *)
(***************************************************************************)

LEMMA LeastNumber ==
  ASSUME NEW T \in SUBSET Nat, T # {}
  PROVE  \E m \in T : \A k \in T : m <= k
<1>1. PICK m \in T : \A k \in T : ~(<<k, m>> \in OpToRel(<, Nat))
    BY NatLessThanWellFounded, WFMin
<1>2. \A k \in T : ~(k < m)
    BY <1>1 DEF OpToRel
<1> QED
    BY <1>2

\* The first n lists of ss one after the other are F: row and col say where
\* each member of F comes from, and nothing is out of order or left out.
Joins(F, ss, n, row, col) ==
  /\ \A k \in DOMAIN F : /\ row[k] \in 1..n /\ col[k] \in DOMAIN ss[row[k]]
                         /\ F[k] = ss[row[k]][col[k]]
  /\ \A k, l \in DOMAIN F : k < l =>
       row[k] < row[l] \/ (row[k] = row[l] /\ col[k] < col[l])
  /\ \A i \in 1..n : \A c \in DOMAIN ss[i] : \E k \in DOMAIN F : row[k] = i /\ col[k] = c

JoinsSome(F, ss, n) ==
  \E row \in [DOMAIN F -> Nat], col \in [DOMAIN F -> Nat] : Joins(F, ss, n, row, col)

\* Another list behind them.
LEMMA JoinsOneMore ==
  ASSUME NEW S, NEW ss \in Seq(Seq(S)), NEW n \in Nat, n + 1 \in DOMAIN ss, NEW F \in Seq(S),
         NEW row \in [DOMAIN F -> Nat], NEW col \in [DOMAIN F -> Nat], Joins(F, ss, n, row, col)
  PROVE  JoinsSome(F \o ss[n + 1], ss, n + 1)
<1> DEFINE L == ss[n + 1]
           G == F \o L
           r == [k \in DOMAIN G |-> IF k <= Len(F) THEN row[k] ELSE n + 1]
           c == [k \in DOMAIN G |-> IF k <= Len(F) THEN col[k] ELSE k - Len(F)]
<1>1. /\ L \in Seq(S) /\ G \in Seq(S) /\ Len(F) \in Nat /\ Len(L) \in Nat
      /\ DOMAIN F = 1..Len(F) /\ DOMAIN L = 1..Len(L) /\ DOMAIN G = 1..(Len(F) + Len(L))
      /\ \A k \in DOMAIN G : G[k] = IF k <= Len(F) THEN F[k] ELSE L[k - Len(F)]
    OBVIOUS
<1>2. \A k \in DOMAIN G : /\ k <= Len(F) => k \in DOMAIN F
                          /\ ~(k <= Len(F)) => k - Len(F) \in DOMAIN L
    BY <1>1
<1>3. /\ r \in [DOMAIN G -> Nat] /\ c \in [DOMAIN G -> Nat]
      /\ \A k \in DOMAIN G : /\ k <= Len(F) => r[k] = row[k] /\ c[k] = col[k]
                             /\ ~(k <= Len(F)) => r[k] = n + 1 /\ c[k] = k - Len(F)
    BY <1>1, <1>2
<1> HIDE DEF r, c, G
<1>4. \A k \in DOMAIN F : /\ row[k] \in 1..n /\ col[k] \in DOMAIN ss[row[k]]
                          /\ F[k] = ss[row[k]][col[k]]
    BY DEF Joins
<1>5. \A k \in DOMAIN G : /\ r[k] \in 1..(n + 1) /\ c[k] \in DOMAIN ss[r[k]]
                          /\ G[k] = ss[r[k]][c[k]]
  <2> TAKE k \in DOMAIN G
  <2>1. CASE k <= Len(F)
      BY <2>1, <1>1, <1>2, <1>3, <1>4
  <2>2. CASE ~(k <= Len(F))
      BY <2>2, <1>1, <1>2, <1>3
  <2> QED
      BY <2>1, <2>2
<1>6. \A k, l \in DOMAIN G : k < l => r[k] < r[l] \/ (r[k] = r[l] /\ c[k] < c[l])
  <2> SUFFICES ASSUME NEW k \in DOMAIN G, NEW l \in DOMAIN G, k < l
               PROVE  r[k] < r[l] \/ (r[k] = r[l] /\ c[k] < c[l])
      OBVIOUS
  <2>1. CASE l <= Len(F)
    <3>1. k <= Len(F)
        BY <2>1, <1>1
    <3> QED
        BY <2>1, <3>1, <1>2, <1>3 DEF Joins
  <2>2. CASE ~(l <= Len(F)) /\ k <= Len(F)
      BY <2>2, <1>2, <1>3, <1>4
  <2>3. CASE ~(k <= Len(F)) /\ ~(l <= Len(F))
      BY <2>3, <1>1, <1>3
  <2> QED
      BY <2>1, <2>2, <2>3
<1>7. \A i \in 1..(n + 1) : \A d \in DOMAIN ss[i] : \E k \in DOMAIN G : r[k] = i /\ c[k] = d
  <2> TAKE i \in 1..(n + 1)
  <2> TAKE d \in DOMAIN ss[i]
  <2>1. CASE i = n + 1
    <3>1. Len(F) + d \in DOMAIN G /\ ~(Len(F) + d <= Len(F)) /\ Len(F) + d - Len(F) = d
        BY <2>1, <1>1
    <3> QED
        BY <2>1, <3>1, <1>3
  <2>2. CASE i # n + 1
    <3>1. i \in 1..n
        BY <2>2
    <3>2. PICK k \in DOMAIN F : row[k] = i /\ col[k] = d
        BY <3>1 DEF Joins
    <3>3. k \in DOMAIN G /\ k <= Len(F)
        BY <1>1
    <3> QED
        BY <3>2, <3>3, <1>3
  <2> QED
      BY <2>1, <2>2
<1>8. Joins(G, ss, n + 1, r, c)
    BY <1>5, <1>6, <1>7 DEF Joins
<1>9. JoinsSome(G, ss, n + 1)
    BY <1>3, <1>8 DEF JoinsSome
<1> QED
    BY <1>9 DEF G

\* FlattenSeq recurses on the number of lists: each prefix is its predecessor
\* and one list more.
LEMMA FlattenRecurs ==
  ASSUME NEW S, NEW ss \in Seq(Seq(S)), Len(ss) # 0
  PROVE  \E h : /\ h = [i \in 1..Len(ss) |-> IF i = 1 THEN ss[i] ELSE h[i - 1] \o ss[i]]
                /\ FlattenSeq(ss) = h[Len(ss)]
<1> DEFINE Eq(h, n) == h = [i \in 1..n |-> IF i = 1 THEN ss[i] ELSE h[i - 1] \o ss[i]]
           T == {n \in Nat : n \in 1..Len(ss) /\ ~\E h : Eq(h, n)}
<1>1. T = {}
  <2> SUFFICES ASSUME T # {} PROVE FALSE
      OBVIOUS
  <2>1. PICK m \in T : \A k \in T : m <= k
      BY LeastNumber
  <2>2. CASE m = 1
    <3>1. Eq([i \in 1..1 |-> ss[i]], 1)
        OBVIOUS
    <3> QED
        BY <2>1, <2>2, <3>1
  <2>3. CASE m # 1
    <3>1. m - 1 \in Nat /\ m - 1 \in 1..Len(ss) /\ ~(m <= m - 1)
        BY <2>1, <2>3
    <3>2. PICK g : Eq(g, m - 1)
        BY <2>1, <3>1
    <3> DEFINE h == [i \in 1..m |-> IF i = m THEN g[m - 1] \o ss[m] ELSE g[i]]
    <3>3. \A i \in 1..m : h[i] = IF i = 1 THEN ss[i] ELSE h[i - 1] \o ss[i]
      <4> TAKE i \in 1..m
      <4>1. CASE i = m
        <5>0. m \in 1..m /\ m - 1 \in 1..m /\ m - 1 # m
            BY <2>1, <2>3, <3>1
        <5>1. h[m] = g[m - 1] \o ss[m] /\ h[m - 1] = g[m - 1]
            BY <5>0
        <5> QED
            BY <4>1, <2>3, <5>1
      <4>2. CASE i # m
        <5>1. i \in 1..(m - 1) /\ (i # 1 => i - 1 \in 1..m /\ i - 1 # m)
            BY <4>2, <2>1
        <5>2. g[i] = IF i = 1 THEN ss[i] ELSE g[i - 1] \o ss[i]
            BY <3>2, <5>1
        <5> QED
            BY <4>2, <5>1, <5>2
      <4> QED
          BY <4>1, <4>2
    <3>4. Eq(h, m)
        BY <3>3
    <3> QED
        BY <2>1, <3>4
  <2> QED
      BY <2>2, <2>3
<1>2. \E h : Eq(h, Len(ss))
  <2>1. Len(ss) \in Nat /\ Len(ss) \in 1..Len(ss)
      OBVIOUS
  <2> HIDE DEF Eq
  <2> QED
      BY <1>1, <2>1
<1> DEFINE f == CHOOSE h : Eq(h, Len(ss))
<1>3. Eq(f, Len(ss))
    BY <1>2
<1>4. FlattenSeq(ss) = f[Len(ss)]
    BY DEF FlattenSeq
<1> QED
    BY <1>3, <1>4

LEMMA FlattenJoins ==
  ASSUME NEW S, NEW ss \in Seq(Seq(S))
  PROVE  FlattenSeq(ss) \in Seq(S) /\ JoinsSome(FlattenSeq(ss), ss, Len(ss))
<1> DEFINE N == Len(ss)
<1>1. N \in Nat /\ DOMAIN ss = 1..N
    OBVIOUS
<1>2. << >> \in Seq(S) /\ JoinsSome(<< >>, ss, 0)
  <2> DEFINE e == [k \in {} |-> 0]
  <2>1. DOMAIN << >> = {} /\ e \in [DOMAIN << >> -> Nat] /\ 1..0 = {} /\ << >> \in Seq(S)
      OBVIOUS
  <2>2. Joins(<< >>, ss, 0, e, e)
      BY <2>1 DEF Joins
  <2> HIDE DEF e
  <2> QED
      BY <2>1, <2>2 DEF JoinsSome
<1>3. CASE N = 0
  <2>1. FlattenSeq(ss) = << >>
      BY <1>3 DEF FlattenSeq
  <2> QED
      BY <1>2, <1>3, <2>1
<1>4. CASE N # 0
  <2>1. PICK h : /\ h = [i \in 1..N |-> IF i = 1 THEN ss[i] ELSE h[i - 1] \o ss[i]]
                 /\ FlattenSeq(ss) = h[N]
      BY <1>4, FlattenRecurs
  <2> DEFINE P(n) == h[n] \in Seq(S) /\ JoinsSome(h[n], ss, n)
             T == {n \in Nat : n \in 1..N /\ ~P(n)}
  <2>2. T = {}
    <3> SUFFICES ASSUME T # {} PROVE FALSE
        OBVIOUS
    <3>1. PICK m \in T : \A k \in T : m <= k
        BY LeastNumber
    <3>2. m \in 1..N /\ m \in DOMAIN ss /\ ss[m] \in Seq(S)
        BY <3>1, <1>1
    <3>3. CASE m = 1
      <4>1. h[1] = ss[1]
          BY <2>1, <3>2, <3>3
      <4>2. PICK row \in [DOMAIN << >> -> Nat], col \in [DOMAIN << >> -> Nat] :
                Joins(<< >>, ss, 0, row, col)
          BY <1>2 DEF JoinsSome
      <4>3. << >> \o ss[0 + 1] = ss[1] /\ 0 + 1 \in DOMAIN ss /\ 0 + 1 = 1 /\ 0 \in Nat
          BY <3>2, <3>3
      <4>4. JoinsSome(<< >> \o ss[0 + 1], ss, 0 + 1)
          BY <1>2, <4>2, <4>3, JoinsOneMore
      <4>5. P(1)
          BY <3>2, <3>3, <4>1, <4>3, <4>4
      <4> QED
          BY <3>1, <3>3, <4>5
    <3>4. CASE m # 1
      <4>1. m - 1 \in Nat /\ m - 1 \in 1..N /\ ~(m <= m - 1) /\ (m - 1) + 1 = m
          BY <3>2, <3>4
      <4>2. h[m] = h[m - 1] \o ss[m]
          BY <2>1, <3>2, <3>4
      <4>3. P(m - 1)
          BY <3>1, <4>1
      <4>4. PICK row \in [DOMAIN h[m - 1] -> Nat], col \in [DOMAIN h[m - 1] -> Nat] :
                Joins(h[m - 1], ss, m - 1, row, col)
          BY <4>3 DEF JoinsSome
      <4>5. h[m - 1] \o ss[m] \in Seq(S)
          BY <3>2, <4>3
      <4>6. JoinsSome(h[m - 1] \o ss[(m - 1) + 1], ss, (m - 1) + 1)
          BY <3>2, <4>1, <4>3, <4>4, JoinsOneMore
      <4>7. P(m)
          BY <4>1, <4>2, <4>5, <4>6
      <4> QED
          BY <3>1, <4>7
    <3> QED
        BY <3>3, <3>4
  <2>3. N \in 1..N
      BY <1>1, <1>4
  <2>4. P(N)
    <3> HIDE DEF P
    <3> QED
        BY <2>2, <2>3, <1>1
  <2> QED
      BY <2>1, <2>4
<1> QED
    BY <1>3, <1>4

(***************************************************************************)
(* The ways through a graph.                                               *)
(***************************************************************************)

\* The edges in E lead from a to b.
Leads(g, E, a, b) ==
  \A T \in SUBSET g.nodes :
    a \in T /\ (\A e \in E : e.tail \in T => e.head \in T) => b \in T

\* One edge after the other: the equation of the ways to b has a solution,
\* the least family of sets of edges that is closed under adding an edge in
\* front.
LEMMA WaysUnfold ==
  ASSUME NEW g, IsWorkflowGraph(g), NEW b \in g.nodes
  PROVE  /\ Ways(g, b, b) = {{}}
         /\ \A n \in g.nodes : n # b => \A V :
              V \in Ways(g, n, b) <=> \E e \in Out(g, n) : \E W \in Ways(g, e.head, b) : V = {e} \union W
<1> DEFINE Families == [g.nodes -> SUBSET SUBSET g.edges]
           Closed1(Q) == /\ {} \in Q[b]
                         /\ \A e \in g.edges : e.tail # b =>
                              \A W \in Q[e.head] : {e} \union W \in Q[e.tail]
           Least == [n \in g.nodes |-> {W \in SUBSET g.edges :
                                         \A Q \in Families : Closed1(Q) => W \in Q[n]}]
           Longer(F, n) == UNION {{{e} \union W : W \in F[e.head]} : e \in Out(g, n)}
           Eq(F) == F = [n \in g.nodes |-> IF n = b THEN {{}} ELSE Longer(F, n)]
<1>1. \A e \in g.edges : e.tail \in g.nodes /\ e.head \in g.nodes /\ e \in Out(g, e.tail)
    BY DEF IsWorkflowGraph, Out
<1>2. Least \in Families
    OBVIOUS
<1>3. Closed1(Least)
  <2>1. {} \in Least[b]
      OBVIOUS
  <2>2. ASSUME NEW e \in g.edges, e.tail # b, NEW W \in Least[e.head]
        PROVE  {e} \union W \in Least[e.tail]
    <3>1. W \in SUBSET g.edges /\ \A Q \in Families : Closed1(Q) => W \in Q[e.head]
        BY <1>1
    <3>2. \A Q \in Families : Closed1(Q) => {e} \union W \in Q[e.tail]
        BY <2>2, <3>1
    <3>3. {e} \union W \in SUBSET g.edges
        BY <3>1
    <3> QED
        BY <1>1, <3>2, <3>3
  <2> QED
      BY <2>1, <2>2
<1>4. \A Q \in Families : Closed1(Q) => \A n \in g.nodes : Least[n] \subseteq Q[n]
    OBVIOUS
<1> DEFINE Some(n) == IF n = b THEN {{}} ELSE Longer(Least, n)
           Q1 == [n \in g.nodes |-> Least[n] \intersect Some(n)]
<1> HIDE DEF Least
<1>5. Q1 \in Families
    BY <1>2
<1>6. Closed1(Q1)
  <2>1. {} \in Q1[b]
      BY <1>3
  <2>2. ASSUME NEW e \in g.edges, e.tail # b, NEW W \in Q1[e.head]
        PROVE  {e} \union W \in Q1[e.tail]
    <3>1. W \in Least[e.head]
        BY <1>1
    <3>2. {e} \union W \in Least[e.tail]
        BY <1>3, <2>2, <3>1
    <3>3. {e} \union W \in Longer(Least, e.tail)
        BY <1>1, <3>1
    <3> QED
        BY <1>1, <2>2, <3>2, <3>3
  <2> QED
      BY <2>1, <2>2
<1>7. \A n \in g.nodes : Least[n] \subseteq Some(n)
  <2> TAKE n \in g.nodes
  <2>1. Least[n] \subseteq Q1[n]
      BY <1>4, <1>5, <1>6
  <2> QED
      BY <2>1
<1>8. \A n \in g.nodes : Some(n) \subseteq Least[n]
  <2> TAKE n \in g.nodes
  <2>1. CASE n = b
      BY <2>1, <1>3
  <2>2. CASE n # b
    <3> SUFFICES ASSUME NEW e \in Out(g, n), NEW W \in Least[e.head]
                 PROVE  {e} \union W \in Least[n]
        BY <2>2
    <3>1. e \in g.edges /\ e.tail = n
        BY DEF Out
    <3> QED
        BY <1>3, <2>2, <3>1
  <2> QED
      BY <2>1, <2>2
<1>9. Eq(Least)
  <2>1. \A n \in g.nodes : Least[n] = Some(n)
      BY <1>7, <1>8
  <2>2. DOMAIN Least = g.nodes /\ Least = [n \in g.nodes |-> Least[n]]
      BY <1>2
  <2>3. [n \in g.nodes |-> Least[n]] = [n \in g.nodes |-> Some(n)]
    <3> HIDE DEF Some
    <3> QED
        BY <2>1
  <2> QED
      BY <2>2, <2>3
<1> DEFINE from == CHOOSE F : Eq(F)
<1>10. Eq(from)
  <2> HIDE DEF Eq
  <2> QED
      BY <1>9
<1>11. \A a : Ways(g, a, b) = from[a]
    BY DEF Ways
<1> HIDE DEF from
<1>12. Ways(g, b, b) = {{}}
    BY <1>10, <1>11
<1>13. ASSUME NEW n \in g.nodes, n # b, NEW V
       PROVE  V \in Ways(g, n, b) <=> \E e \in Out(g, n) : \E W \in Ways(g, e.head, b) : V = {e} \union W
  <2>1. from[n] = Longer(from, n)
      BY <1>10, <1>13
  <2>2. V \in from[n] <=> \E e \in Out(g, n) : \E W \in from[e.head] : V = {e} \union W
      BY <2>1
  <2> QED
      BY <1>11, <2>2
<1> QED
    BY <1>12, <1>13

\* Every way leads where it should: of the nodes with a way that does not, one
\* has no edge to another, for there is no cycle.
LEMMA WaysLead ==
  ASSUME NEW g, IsWorkflowGraph(g), HasNoCycle(g), NEW a \in g.nodes, NEW b \in g.nodes,
         NEW W \in Ways(g, a, b)
  PROVE  W \subseteq g.edges /\ Leads(g, W, a, b)
<1> DEFINE Good(V, n) == V \subseteq g.edges /\ Leads(g, V, n, b)
           S == {n \in g.nodes : \E V \in Ways(g, n, b) : ~Good(V, n)}
<1>1. S = {}
  <2> SUFFICES ASSUME S # {} PROVE FALSE
      OBVIOUS
  <2>1. PICK n \in S : \A e \in Out(g, n) : e.head \notin S
      BY DEF HasNoCycle
  <2>2. PICK V \in Ways(g, n, b) : ~Good(V, n)
      BY <2>1
  <2>3. CASE n = b
      BY <2>2, <2>3, WaysUnfold DEF Leads
  <2>4. CASE n # b
    <3>1. PICK e \in Out(g, n) : \E X \in Ways(g, e.head, b) : V = {e} \union X
        BY <2>1, <2>2, <2>4, WaysUnfold
    <3>2. PICK X \in Ways(g, e.head, b) : V = {e} \union X
        BY <3>1
    <3>3. e \in g.edges /\ e.tail = n /\ e.head \in g.nodes
        BY DEF Out, IsWorkflowGraph
    <3>4. Good(X, e.head)
        BY <2>1, <3>2, <3>3
    <3>5. Leads(g, V, n, b)
        BY <3>2, <3>3, <3>4 DEF Leads
    <3> QED
        BY <2>2, <3>2, <3>3, <3>4, <3>5
  <2> QED
      BY <2>3, <2>4
<1> QED
    BY <1>1

\* Edges that lead from a to b hold a whole way: else the nodes without a way
\* among these edges could not be left.
LEMMA LeadsHoldsWay ==
  ASSUME NEW g, IsWorkflowGraph(g), NEW a \in g.nodes, NEW b \in g.nodes,
         NEW E \in SUBSET g.edges, Leads(g, E, a, b)
  PROVE  \E W \in Ways(g, a, b) : W \subseteq E
<1> DEFINE T == {n \in g.nodes : ~\E W \in Ways(g, n, b) : W \subseteq E}
<1>1. b \notin T
    BY WaysUnfold
<1>2. \A e \in E : e.tail \in T => e.head \in T
  <2> SUFFICES ASSUME NEW e \in E, e.tail \in T, e.head \notin T PROVE FALSE
      OBVIOUS
  <2>1. e \in g.edges /\ e \in Out(g, e.tail) /\ e.head \in g.nodes /\ e.tail # b
      BY <1>1 DEF Out, IsWorkflowGraph
  <2>2. PICK W \in Ways(g, e.head, b) : W \subseteq E
      BY <2>1
  <2>3. {e} \union W \in Ways(g, e.tail, b)
      BY <2>1, <2>2, WaysUnfold
  <2> QED
      BY <2>2, <2>3
<1> QED
    BY <1>1, <1>2 DEF Leads

(***************************************************************************)
(* What the traversal's own proofs give.                                   *)
(***************************************************************************)

Abs == INSTANCE GraphTraversalProofs WITH Graphs <- FlowGraphs

Chosen == flow \in Flows /\ graph = flow.graph

LEMMA FlowGraphsAreWellFormed == \A g \in FlowGraphs : Abs!IsWorkflowGraph(g)
<1>1. \A g \in FlowGraphs : IsWorkflowGraph(g)
    BY FlowsAreWellFormed DEF FlowGraphs
<1> QED
    BY <1>1 DEF IsWorkflowGraph, ExecutionType, In, Kinds, Strategies,
       Abs!IsWorkflowGraph, Abs!ExecutionType, Abs!In, Abs!Kinds, Abs!Strategies

LEMMA NotEndedIsOne == Abs!NotEnded = Traversal!NotEnded
BY Zenon DEF Abs!NotEnded, Traversal!NotEnded

LEMMA HandlesAreTold == {Abs!Source, Abs!FailBranch} \subseteq Handles /\ Abs!NotEnded \notin Handles
BY DefaultHandles, NotEndedIsNoHandle, NotEndedIsOne DEF Source, FailBranch, Abs!Source, Abs!FailBranch

LEMMA InitTraversed == Init => Abs!IInv /\ Abs!SInv
<1>1. Init => Abs!Init
    BY NotEndedIsOne DEF Init, Traversal!Init, Abs!Init, Traversal!InitialNodes, Abs!InitialNodes,
       Traversal!InitialEdges, Abs!InitialEdges, Traversal!Unknown, Abs!Unknown, Traversal!InactiveCut, Abs!InactiveCut,
       Traversal!InactiveRoots, Abs!InactiveRoots, Traversal!Roots, Abs!Roots,
       Traversal!AfterSkip, Abs!AfterSkip, Traversal!SkippedNodes, Abs!SkippedNodes,
       Traversal!SkippedEdges, Abs!SkippedEdges, Traversal!ClosedUnderSkip, Abs!ClosedUnderSkip,
       Traversal!ExecutionType, Abs!ExecutionType, Traversal!In, Abs!In
<1>2. Abs!Init => Abs!IInv /\ Abs!SInv
    BY Abs!InitInv, Abs!InitSettled, FlowGraphsAreWellFormed, HandlesAreTold
<1> QED
    BY <1>1, <1>2

LEMMA EndIsEnd ==
  ASSUME NEW n, NEW handle, Traversal!End(n, handle)
  PROVE  Abs!End(n, handle)
BY NotEndedIsOne DEF Traversal!End, Traversal!InFlight, Traversal!Launch,
       Abs!End, Abs!InFlight, Abs!Launch,
       Traversal!SkippedAfter, Traversal!LateAfter, Traversal!ReadyAfter, Traversal!EdgesAfter,
       Traversal!LateJoins, Traversal!AfterSkip, Traversal!SkippedNodes, Traversal!SkippedEdges,
       Traversal!ClosedUnderSkip, Traversal!IsNodeReady, Traversal!SelectedEdges,
       Traversal!CutEdges, Traversal!ExecutionType, Traversal!In, Traversal!Out,
       Abs!SkippedAfter, Abs!LateAfter, Abs!ReadyAfter, Abs!EdgesAfter,
       Abs!LateJoins, Abs!AfterSkip, Abs!SkippedNodes, Abs!SkippedEdges,
       Abs!ClosedUnderSkip, Abs!IsNodeReady, Abs!SelectedEdges,
       Abs!CutEdges, Abs!ExecutionType, Abs!In, Abs!Out

\* Every step of the coordinator is one of the traversal or leaves it alone.
LEMMA NextTraverses == Chosen /\ [Next]_vars => [Abs!Next]_(Abs!vars)
<1> SUFFICES ASSUME Chosen, [Next]_vars PROVE [Abs!Next]_(Abs!vars)
    OBVIOUS
<1> USE DEF Abs!vars, traversal
<1>1. CASE UNCHANGED vars
    BY <1>1 DEF vars
<1>2. CASE Start
  <2>1. Abs!Start
      BY <1>2 DEF Start, Traversal!Start, Abs!Start, Traversal!Launch, Abs!Launch
  <2> QED
      BY <2>1 DEF Abs!Next
<1>3. ASSUME NEW n \in graph.nodes, Chunk(n) \/ Assign(n) PROVE UNCHANGED (Abs!vars)
    BY <1>3 DEF Chunk, Assign
<1>4. ASSUME NEW n \in graph.nodes, NEW handle \in HandlesOf(graph, n), Succeed(n, handle) PROVE Abs!Next
  <2>1. Abs!End(n, handle)
      BY <1>4, EndIsEnd DEF Succeed
  <2>2. handle \in Abs!HandlesOf(graph, n)
      BY DEF HandlesOf, Abs!HandlesOf, Source, FailBranch, Abs!Source, Abs!FailBranch
  <2> QED
      BY <2>1, <2>2 DEF Abs!Next
<1>5. ASSUME NEW n \in graph.nodes, Except(n) PROVE Abs!Next
  <2>1. CASE graph.strategy[n] = "default-value" /\ graph.kind[n] # "branch" /\ Traversal!End(n, Source)
    <3>1. Abs!End(n, Source)
        BY <2>1, EndIsEnd
    <3>2. Source \in Abs!HandlesOf(graph, n)
        BY <2>1 DEF Abs!HandlesOf, Source, Abs!Source
    <3> QED
        BY <3>1, <3>2 DEF Abs!Next
  <2>2. CASE graph.strategy[n] = "fail-branch" /\ Traversal!End(n, FailBranch)
    <3>1. Abs!End(n, FailBranch)
        BY <2>2, EndIsEnd
    <3>2. FailBranch \in Abs!HandlesOf(graph, n)
        BY <2>2, DefaultHandles DEF Abs!HandlesOf, FailBranch, Abs!FailBranch
    <3> QED
        BY <3>1, <3>2 DEF Abs!Next
  <2> QED
      BY <1>5, <2>1, <2>2 DEF Except
<1> QED
    BY <1>1, <1>2, <1>3, <1>4, <1>5 DEF Next

LEMMA NextTraversed ==
  Chosen /\ Abs!IInv /\ Abs!SInv /\ [Next]_vars => Abs!IInv' /\ Abs!SInv'
<1>1. Abs!IInv /\ [Abs!Next]_(Abs!vars) => Abs!IInv'
    BY Abs!NextInv, FlowGraphsAreWellFormed, HandlesAreTold
<1>2. Abs!IInv /\ Abs!SInv /\ [Abs!Next]_(Abs!vars) => Abs!SInv'
    BY Abs!NextSettled, FlowGraphsAreWellFormed, HandlesAreTold
<1> QED
    BY <1>1, <1>2, NextTraverses

\* The traversal in the words of this module.
Ended(n) == outcome[n] # Traversal!NotEnded

TakenEdges == {e \in graph.edges : edgeState[e] = "taken"}

LEMMA TraversalTyped ==
  ASSUME Chosen, Abs!IInv
  PROVE  /\ IsWorkflowGraph(graph) /\ HasNoCycle(graph)
         /\ nodeState \in [graph.nodes -> States]
         /\ edgeState \in [graph.edges -> States]
         /\ launched \in [graph.nodes -> Nat]
         /\ outcome \in [graph.nodes -> Handles \union {Traversal!NotEnded}]
         /\ Traversal!TypeOK
<1>1. IsWorkflowGraph(graph) /\ HasNoCycle(graph)
    BY FlowsAreWellFormed DEF Chosen
<1>2. Abs!TypeOK
    BY DEF Abs!IInv
<1>3. Traversal!TypeOK
    BY <1>2, NotEndedIsOne DEF Abs!TypeOK, Abs!States, Abs!IsWorkflowGraph, Abs!ExecutionType, Abs!In, Abs!Kinds, Abs!Strategies,
       Traversal!TypeOK, Traversal!States, Traversal!IsWorkflowGraph, Traversal!ExecutionType,
       Traversal!In, Traversal!Kinds, Traversal!Strategies
<1> QED
    BY <1>1, <1>2, <1>3, NotEndedIsOne DEF Abs!TypeOK, Abs!States, States

LEMMA TraversalAgrees ==
  ASSUME Chosen, Abs!IInv, Abs!SInv
  PROVE  /\ \A n \in graph.nodes : nodeState[n] = "taken" <=> launched[n] > 0
         /\ \A n \in graph.nodes : Ended(n) => nodeState[n] = "taken"
         /\ \A e \in graph.edges : edgeState[e] = "taken" => Ended(e.tail)
         /\ \A n \in graph.nodes : Ended(n) => \A e \in Out(graph, n) :
              ExecutionType(graph, n) # "branch" => edgeState[e] = "taken"
         /\ \A e \in graph.edges : edgeState[e] = "taken" => nodeState[e.head] # "skipped"
         /\ \A n \in graph.nodes : nodeState[n] = "taken" => Leads(graph, TakenEdges, graph.root, n)
<1> USE NotEndedIsOne
<1>1. /\ \A n \in graph.nodes : nodeState[n] = "taken" <=> launched[n] > 0
      /\ \A n \in graph.nodes : Ended(n) => nodeState[n] = "taken"
    BY DEF Abs!IInv, Abs!NodesAgree, Ended
<1>2. \A e \in graph.edges : e.tail \in graph.nodes /\ e.head \in graph.nodes
  <2>1. IsWorkflowGraph(graph)
      BY TraversalTyped
  <2> QED
      BY <2>1 DEF IsWorkflowGraph
<1>3. \A n \in graph.nodes : nodeState[n] = "skipped" =>
         \A e \in graph.edges : e.tail = n \/ e.head = n => edgeState[e] = "skipped"
    BY DEF Abs!IInv, Abs!LaunchedWhenDecided, Abs!In, Abs!Out
<1>4. \A e \in graph.edges : edgeState[e] = "taken" => Ended(e.tail) /\ nodeState[e.head] # "skipped"
  <2> SUFFICES ASSUME NEW e \in graph.edges, edgeState[e] = "taken"
               PROVE  Ended(e.tail) /\ nodeState[e.head] # "skipped"
      OBVIOUS
  <2>1. Ended(e.tail) \/ nodeState[e.tail] = "skipped"
      BY DEF Abs!IInv, Abs!EdgesAgree, Ended
  <2> QED
      BY <1>2, <1>3, <2>1
<1>5. \A n \in graph.nodes : Ended(n) => \A e \in Abs!Out(graph, n) :
         edgeState[e] = IF e \in Abs!SelectedEdges(graph, n, outcome[n]) THEN "taken" ELSE "skipped"
    BY DEF Abs!SInv, Abs!Propagated, Ended
<1>6. \A n \in graph.nodes : Ended(n) => \A e \in Out(graph, n) :
         ExecutionType(graph, n) # "branch" => edgeState[e] = "taken"
    BY <1>5 DEF Out, ExecutionType, Abs!Out, Abs!SelectedEdges, Abs!ExecutionType
<1>7. ASSUME NEW n \in graph.nodes, nodeState[n] = "taken"
      PROVE  Leads(graph, TakenEdges, graph.root, n)
  <2> SUFFICES ASSUME NEW T \in SUBSET graph.nodes, graph.root \in T,
                      \A e \in TakenEdges : e.tail \in T => e.head \in T
               PROVE  n \in T
      BY DEF Leads
  <2>1. \A m \in T : Ended(m) => \A e \in Abs!SelectedEdges(graph, m, outcome[m]) : e.head \in T
    <3> SUFFICES ASSUME NEW m \in T, Ended(m), NEW e \in Abs!SelectedEdges(graph, m, outcome[m])
                 PROVE  e.head \in T
        OBVIOUS
    <3>1. e \in Abs!Out(graph, m) /\ e \in graph.edges /\ e.tail = m
        BY DEF Abs!SelectedEdges, Abs!Out
    <3>2. e \in TakenEdges
        BY <1>5, <3>1 DEF TakenEdges
    <3> QED
        BY <3>1, <3>2
  <2>2. n \in Abs!ChosenPaths
      BY <1>7 DEF Abs!SInv, Abs!OnChosenPaths
  <2> QED
      BY <2>1, <2>2 DEF Abs!ChosenPaths, Ended
<1> QED
    BY <1>1, <1>4, <1>6, <1>7

\* When nothing is left to run, what ran and what did not is settled.
LEMMA TraversalSettles ==
  ASSUME Chosen, Abs!IInv, Abs!SInv, Traversal!Quiet, Traversal!Rooted
  PROVE  /\ nodeState[graph.root] = "taken"
         /\ \A n \in graph.nodes : nodeState[n] = "taken" => Ended(n)
         /\ \A n \in graph.nodes : nodeState[n] \in {"taken", "skipped"}
<1>1. /\ launched[graph.root] > 0 /\ \A n \in graph.nodes : launched[n] > 0 => Ended(n)
    BY DEF Traversal!Quiet, Traversal!InFlight, Ended
<1>2. Abs!Quiet
    BY NotEndedIsOne DEF Traversal!Quiet, Traversal!InFlight, Abs!Quiet, Abs!InFlight
<1>3. Abs!Grounded = graph.nodes
    BY DEF Traversal!Rooted, Traversal!Grounded, Abs!Grounded, Traversal!InactiveRoots, Abs!InactiveRoots,
       Traversal!Roots, Abs!Roots, Traversal!ExecutionType, Abs!ExecutionType, Traversal!In, Abs!In
<1>4. Abs!NoNodeLeftBehind
    BY Abs!SettledNoneLeft, FlowGraphsAreWellFormed, HandlesAreTold
<1>5. \A n \in graph.nodes : nodeState[n] # "unknown"
    BY <1>2, <1>3, <1>4 DEF Abs!NoNodeLeftBehind
<1>6. graph.root \in graph.nodes
    BY TraversalTyped DEF IsWorkflowGraph
<1> QED
    BY <1>1, <1>5, <1>6, TraversalTyped, TraversalAgrees DEF States

(***************************************************************************)
(* Flushing a list of places.                                              *)
(***************************************************************************)

\* The places of the answers in R.
Spots(R) == UNION {ToSet(Session(r)) : r \in R}

\* What may have been streamed of them.
Shards(R, K) == [by : R, seg : Nat, part : Nat, knows : SUBSET K]

\* A stream's read position, and what has arrived when an event is handled.
Positions(done) ==
  /\ done \in [graph.nodes -> Nat] /\ arrived' \in [graph.nodes -> Nat]
  /\ \A n \in graph.nodes : done[n] <= arrived'[n] /\ arrived'[n] <= flow.chunks[n]

LEMMA SpotsAre ==
  ASSUME NEW R, NEW p \in Spots(R)
  PROVE  \E r \in R : \E i \in DOMAIN flow.template[r] : p = [by |-> r, seg |-> i]
BY DEF Spots, Session, ToSet

LEMMA SegmentsTyped ==
  ASSUME Chosen, NEW R \in SUBSET Responses(flow), NEW p \in Spots(R)
  PROVE  /\ p.by \in R /\ p.seg \in Nat \ {0}
         /\ flow.chunks \in [graph.nodes -> Nat]
         /\ Segment(p).kind = "node" => Segment(p).node \in graph.nodes /\ Segment(p) = Output(Segment(p).node)
<1>1. PICK r \in R : \E i \in DOMAIN flow.template[r] : p = [by |-> r, seg |-> i]
    BY SpotsAre
<1>2. PICK i \in DOMAIN flow.template[r] : p = [by |-> r, seg |-> i]
    BY <1>1
<1> DEFINE Outputs == {Output(n) : n \in graph.nodes}
<1>3. flow.template[r] \in Seq({Text, Variable} \union Outputs)
    BY FlowsAreWellFormed DEF Chosen
<1>4. Segment(p) \in {Text, Variable} \union Outputs /\ i \in Nat \ {0}
    BY <1>2, <1>3 DEF Segment
<1>5. Segment(p).kind = "node" => Segment(p) \in Outputs
    BY <1>4 DEF Text, Variable
<1>6. Segment(p) \in Outputs => Segment(p).node \in graph.nodes /\ Segment(p) = Output(Segment(p).node)
    BY DEF Output
<1>7. flow.chunks \in [graph.nodes -> Nat]
    BY FlowsAreWellFormed DEF Chosen
<1> QED
    BY <1>1, <1>2, <1>4, <1>5, <1>6, <1>7

\* The pieces of one place: its own, later than what was read, in order, and
\* while it is not complete no more than has arrived.
LEMMA PiecesOf ==
  ASSUME Chosen, NEW R \in SUBSET Responses(flow), NEW p \in Spots(R), NEW ns, NEW done, Positions(done)
  PROVE  /\ Pieces(done, ns, p) \in Seq(Shards(R, assigned))
         /\ \A c \in DOMAIN Pieces(done, ns, p) :
              LET x == Pieces(done, ns, p)[c]
              IN  /\ x.by = p.by /\ x.seg = p.seg /\ x.knows = assigned
                  /\ Segment(p).kind = "node" => x.part > done[Segment(p).node]
                  /\ ~Complete(ns, p) => x.part <= arrived'[Segment(p).node]
         /\ \A c, d \in DOMAIN Pieces(done, ns, p) :
              c < d => Pieces(done, ns, p)[c].part < Pieces(done, ns, p)[d].part
<1> DEFINE n == Segment(p).node
           L == Pieces(done, ns, p)
<1>1. /\ p.by \in R /\ p.seg \in Nat
      /\ flow.chunks \in [graph.nodes -> Nat]
      /\ Segment(p).kind = "node" => n \in graph.nodes
    BY SegmentsTyped
<1>2. \A c \in Nat : /\ Piece(p, c) \in Shards(R, assigned)
                     /\ Piece(p, c).by = p.by /\ Piece(p, c).seg = p.seg
                     /\ Piece(p, c).knows = assigned /\ Piece(p, c).part = c
    BY <1>1 DEF Piece, Shards
<1>3. CASE Segment(p).kind # "node"
  <2>1. L = <<Piece(p, 0)>> /\ Complete(ns, p)
      BY <1>3 DEF Pieces, Complete
  <2> QED
      BY <1>2, <1>3, <2>1
<1>4. CASE Segment(p).kind = "node" /\ Passes(ns, p)
  <2>1. L = << >>
      BY <1>4 DEF Pieces
  <2> QED
      BY <2>1
<1>5. CASE Segment(p).kind = "node" /\ ~Passes(ns, p)
  <2> DEFINE m     == arrived'[n] - done[n]
             fresh == [c \in 1..m |-> Piece(p, done[n] + c)]
             rest  == IF n \in pool' /\ ~Closed(n) THEN <<Piece(p, flow.chunks[n] + 1)>> ELSE <<>>
  <2>1. L = fresh \o rest
      BY <1>5 DEF Pieces
  <2>2. /\ m \in Nat /\ done[n] \in Nat /\ arrived'[n] \in Nat /\ flow.chunks[n] \in Nat
        /\ arrived'[n] = done[n] + m /\ arrived'[n] <= flow.chunks[n]
      BY <1>1, <1>5 DEF Positions
  <2> HIDE DEF m
  <2>3. fresh \in Seq(Shards(R, assigned)) /\ Len(fresh) = m /\ \A c \in 1..m : fresh[c] = Piece(p, done[n] + c)
      BY <1>2, <2>2
  <2>4. /\ rest \in Seq(Shards(R, assigned)) /\ Len(rest) \in {0, 1}
        /\ Len(rest) = 1 => rest[1] = Piece(p, flow.chunks[n] + 1) /\ Complete(ns, p)
      BY <1>2, <1>5, <2>2 DEF Complete
  <2> HIDE DEF fresh, rest, L
  <2>5. /\ L \in Seq(Shards(R, assigned)) /\ Len(L) = m + Len(rest) /\ DOMAIN L = 1..(m + Len(rest))
        /\ \A c \in 1..(m + Len(rest)) : L[c] = IF c <= m THEN fresh[c] ELSE rest[c - m]
    <3> HIDE DEF Shards
    <3>1. /\ fresh \o rest \in Seq(Shards(R, assigned)) /\ Len(fresh \o rest) = Len(fresh) + Len(rest)
          /\ \A c \in 1..(Len(fresh) + Len(rest)) :
               (fresh \o rest)[c] = IF c <= Len(fresh) THEN fresh[c] ELSE rest[c - Len(fresh)]
        BY <2>3, <2>4, ConcatProperties
    <3>2. DOMAIN (fresh \o rest) = 1..Len(fresh \o rest)
        BY <3>1, LenProperties
    <3> QED
        BY <2>1, <2>3, <3>1, <3>2
  <2>6. \A c \in DOMAIN L : /\ c \in 1..m => L[c] = Piece(p, done[n] + c)
                            /\ c \notin 1..m => /\ c = m + 1 /\ L[c] = Piece(p, flow.chunks[n] + 1)
                                               /\ Complete(ns, p)
    <3> TAKE c \in DOMAIN L
    <3>1. CASE c \in 1..m
        BY <3>1, <2>2, <2>3, <2>5
    <3>2. CASE c \notin 1..m
      <4>1. Len(rest) = 1 /\ c = m + 1
          BY <3>2, <2>2, <2>4, <2>5
      <4>2. L[c] = rest[1]
          BY <4>1, <2>2, <2>5
      <4> QED
          BY <3>2, <4>1, <4>2, <2>4
    <3> QED
        BY <3>1, <3>2
  <2> DEFINE part(c) == IF c \in 1..m THEN done[n] + c ELSE flow.chunks[n] + 1
  <2>7. \A c \in DOMAIN L : /\ L[c] = Piece(p, part(c)) /\ part(c) \in Nat
                            /\ part(c) > done[n] /\ (~Complete(ns, p) => part(c) <= arrived'[n])
    <3>3. \A a, b, d, e, c \in Nat : a = d + e /\ a <= b =>
             (c \in 1..e => d + c \in Nat /\ d + c > d /\ d + c <= a) /\ b + 1 \in Nat /\ b + 1 > d
        OBVIOUS
    <3> TAKE c \in DOMAIN L
    <3>1. CASE c \in 1..m
      <4>1. c \in Nat /\ part(c) = done[n] + c
          BY <3>1, <2>2
      <4> QED
          BY <3>3, <3>1, <4>1, <2>2, <2>6
    <3>2. CASE c \notin 1..m
      <4>1. part(c) = flow.chunks[n] + 1
          BY <3>2
      <4> QED
          BY <3>3, <3>2, <4>1, <2>2, <2>6
    <3> QED
        BY <3>1, <3>2
  <2>8. \A c, d \in DOMAIN L : c < d => part(c) < part(d)
    <3> SUFFICES ASSUME NEW c \in DOMAIN L, NEW d \in DOMAIN L, c < d PROVE part(c) < part(d)
        OBVIOUS
    <3>1. c \in Nat /\ d \in Nat /\ (c \in 1..m \/ c = m + 1) /\ (d \in 1..m \/ d = m + 1)
        BY <2>2, <2>4, <2>5, <2>6
    <3>2. c \in 1..m
        BY <2>2, <3>1
    <3> QED
        BY <2>2, <3>1, <3>2
  <2> HIDE DEF part
  <2>9. \A c \in DOMAIN L : /\ L[c].by = p.by /\ L[c].seg = p.seg /\ L[c].knows = assigned
                            /\ L[c].part = part(c)
      BY <1>2, <2>7
  <2> QED
      BY <2>5, <2>7, <2>8, <2>9 DEF L
<1> QED
    BY <1>3, <1>4, <1>5

\* The leading places are those before the first that is not complete.
LEMMA LeadingIs ==
  ASSUME NEW S, NEW list \in Seq(S), NEW ns
  PROVE  /\ Leading(ns, list) \in 0..Len(list)
         /\ \A i \in 1..Leading(ns, list) : Complete(ns, list[i])
         /\ Leading(ns, list) < Len(list) => ~Complete(ns, list[Leading(ns, list) + 1])
<1> DEFINE N == Len(list)
           D == {i \in DOMAIN list : \A j \in 1..i : Complete(ns, list[j])}
           T == {i \in Nat : i \in 1..N /\ ~Complete(ns, list[i])}
<1>1. N \in Nat /\ DOMAIN list = 1..N
    OBVIOUS
<1>2. CASE T = {}
  <2>1. D = 1..N
      BY <1>1, <1>2
  <2>2. Leading(ns, list) = N
    <3>1. Cardinality(1..N) = N
        BY <1>1, FS_Interval
    <3>2. Leading(ns, list) = Cardinality(D)
        BY DEF Leading
    <3> QED
        BY <2>1, <3>1, <3>2
  <2> QED
      BY <1>1, <1>2, <2>2
<1>3. CASE T # {}
  <2>1. PICK m \in T : \A k \in T : m <= k
      BY <1>3, LeastNumber
  <2>2. D = 1..(m - 1)
    <3>1. ASSUME NEW i \in D PROVE i \in 1..(m - 1)
        BY <1>1, <2>1
    <3>2. ASSUME NEW i \in 1..(m - 1) PROVE i \in D
        BY <1>1, <2>1
    <3> QED
        BY <3>1, <3>2
  <2>3. m - 1 \in Nat
      BY <2>1
  <2>4. Leading(ns, list) = m - 1
    <3>1. Cardinality(1..(m - 1)) = m - 1
        BY <2>3, FS_Interval
    <3>2. Leading(ns, list) = Cardinality(D)
        BY DEF Leading
    <3> QED
        BY <2>2, <2>3, <3>1, <3>2
  <2>5. \A i \in 1..(m - 1) : Complete(ns, list[i])
      BY <1>1, <2>1
  <2> QED
      BY <1>1, <2>1, <2>4, <2>5
<1> QED
    BY <1>2, <1>3

LEMMA TakenIs ==
  ASSUME NEW done, Positions(done), NEW ns, NEW list
  PROVE  /\ Positions(Taken(done, ns, list))
         /\ \A n \in graph.nodes : done[n] <= Taken(done, ns, list)[n]
         /\ \A i \in DOMAIN list : \A n \in graph.nodes :
              ~Passes(ns, list[i]) /\ Segment(list[i]) = Output(n) => Taken(done, ns, list)[n] = arrived'[n]
<1> DEFINE looked(n) == \E i \in DOMAIN list : ~Passes(ns, list[i]) /\ Segment(list[i]) = Output(n)
           T == Taken(done, ns, list)
<1>1. T = [n \in graph.nodes |-> IF looked(n) THEN arrived'[n] ELSE done[n]]
    BY DEF Taken
<1>2. \A i \in DOMAIN list : \A n \in graph.nodes :
        ~Passes(ns, list[i]) /\ Segment(list[i]) = Output(n) => looked(n)
    OBVIOUS
<1> HIDE DEF looked, T
<1>3. /\ \A n \in graph.nodes : T[n] = IF looked(n) THEN arrived'[n] ELSE done[n]
      /\ \A n \in graph.nodes : done[n] \in Nat /\ arrived'[n] \in Nat /\ done[n] <= arrived'[n]
    BY <1>1 DEF Positions
<1>4. T \in [graph.nodes -> Nat]
    BY <1>1, <1>3
<1>5. \A n \in graph.nodes : done[n] <= T[n] /\ T[n] <= arrived'[n]
    BY <1>3
<1> QED
    BY <1>2, <1>3, <1>4, <1>5 DEF Positions, T

(***************************************************************************)
(* The line: what was streamed, and behind it what is still to be. The     *)
(* answers have a rank, in which they were begun; everything is in order   *)
(* of rank and segment. Only of the first place still to be streamed       *)
(* something may have been, as far as its stream was read.                 *)
(***************************************************************************)

Earlier(x, y, rank) == rank[x.by] < rank[y.by] \/ (x.by = y.by /\ x.seg < y.seg)

SamePlace(x, y) == x.by = y.by /\ x.seg = y.seg

Part(x, p, done) ==
  SamePlace(x, p) /\ Segment(p).kind = "node" /\ x.part <= done[Segment(p).node]

Lined(sh, td, done, rank) ==
  /\ \A i, j \in DOMAIN td : i < j => Earlier(td[i], td[j], rank)
  /\ \A i \in DOMAIN sh : \A j \in DOMAIN td :
       Earlier(sh[i], td[j], rank) \/ (j = 1 /\ Part(sh[i], td[j], done))
  /\ \A i, j \in DOMAIN sh : i < j =>
       Earlier(sh[i], sh[j], rank) \/ (SamePlace(sh[i], sh[j]) /\ sh[i].part < sh[j].part)

\* What a flush streams: pieces of the first places, in their order.
LEMMA FlushedIs ==
  ASSUME Chosen, NEW R \in SUBSET Responses(flow), NEW list \in Seq(Spots(R)), NEW ns,
         NEW done, Positions(done)
  PROVE  LET F == Flushed(list, done, ns)
             k == Leading(ns, list)
             m == IF k < Len(list) THEN k + 1 ELSE k
         IN  /\ F.todo = SubSeq(list, k + 1, Len(list))
             /\ F.read = Taken(done, ns, SubSeq(list, 1, m))
             /\ F.shown \in Seq(Shards(R, assigned))
             /\ \E row \in [DOMAIN F.shown -> 1..m] :
                  /\ \A x \in DOMAIN F.shown :
                       LET p == list[row[x]]
                       IN  /\ SamePlace(F.shown[x], p) /\ F.shown[x].knows = assigned
                           /\ Segment(p).kind = "node" => F.shown[x].part > done[Segment(p).node]
                           /\ ~Complete(ns, p) => F.shown[x].part <= arrived'[Segment(p).node]
                  /\ \A x, y \in DOMAIN F.shown : x < y =>
                       row[x] < row[y] \/ (row[x] = row[y] /\ F.shown[x].part < F.shown[y].part)
<1> DEFINE k == Leading(ns, list)
           m == IF k < Len(list) THEN k + 1 ELSE k
           touched == SubSeq(list, 1, m)
           before(i) == Taken(done, ns, SubSeq(touched, 1, i - 1))
           ss == [i \in DOMAIN touched |-> Pieces(before(i), ns, touched[i])]
           F == Flushed(list, done, ns)
<1>1. /\ F.todo = SubSeq(list, k + 1, Len(list))
      /\ F.read = Taken(done, ns, touched)
      /\ F.shown = FlattenSeq(ss)
    BY DEF Flushed
<1>2. k \in Nat /\ m \in 0..Len(list)
    BY LeadingIs
<1> HIDE DEF k, m, F
<1>3. /\ DOMAIN touched = 1..m
      /\ \A i \in 1..m : touched[i] = list[i] /\ i \in DOMAIN list /\ list[i] \in Spots(R)
    BY <1>2
<1> HIDE DEF touched
<1>4. \A i \in 1..m : Positions(before(i)) /\ \A n \in graph.nodes : done[n] <= before(i)[n]
    BY TakenIs
<1> HIDE DEF before
<1>5. \A i \in 1..m : ss[i] = Pieces(before(i), ns, list[i])
    BY <1>3
<1>6. \A i \in 1..m : ss[i] \in Seq(Shards(R, assigned))
    BY <1>3, <1>4, <1>5, PiecesOf
<1>7. ss \in Seq(Seq(Shards(R, assigned))) /\ Len(ss) = m
  <2> DEFINE Q == Seq(Shards(R, assigned))
  <2> HIDE DEF Q
  <2>1. \A i \in 1..m : Pieces(before(i), ns, touched[i]) \in Q
      BY <1>3, <1>5, <1>6 DEF Q
  <2>2. ss = [i \in 1..m |-> Pieces(before(i), ns, touched[i])] /\ m \in Nat
      BY <1>2, <1>3
  <2>3. ss \in Seq(Q) /\ Len(ss) = m
      BY <2>1, <2>2
  <2> QED
      BY <2>3 DEF Q
<1> HIDE DEF ss
<1>8. PICK row \in [DOMAIN F.shown -> Nat], col \in [DOMAIN F.shown -> Nat] :
        Joins(F.shown, ss, m, row, col) /\ F.shown \in Seq(Shards(R, assigned))
    BY <1>1, <1>7, FlattenJoins DEF JoinsSome
<1>9. \A x \in DOMAIN F.shown : /\ row[x] \in 1..m /\ col[x] \in DOMAIN ss[row[x]]
                                /\ F.shown[x] = ss[row[x]][col[x]]
    BY <1>8 DEF Joins
<1>10. row \in [DOMAIN F.shown -> 1..m]
    BY <1>8, <1>9
<1>11. ASSUME NEW x \in DOMAIN F.shown
       PROVE  LET p == list[row[x]]
              IN  /\ SamePlace(F.shown[x], p) /\ F.shown[x].knows = assigned
                  /\ Segment(p).kind = "node" => F.shown[x].part > done[Segment(p).node]
                  /\ ~Complete(ns, p) => F.shown[x].part <= arrived'[Segment(p).node]
  <2> DEFINE i == row[x]
             p == list[i]
  <2>1. /\ i \in 1..m /\ p \in Spots(R) /\ Positions(before(i))
        /\ col[x] \in DOMAIN Pieces(before(i), ns, p) /\ F.shown[x] = Pieces(before(i), ns, p)[col[x]]
      BY <1>3, <1>4, <1>5, <1>9
  <2> HIDE DEF i, p
  <2>2. /\ F.shown[x].by = p.by /\ F.shown[x].seg = p.seg /\ F.shown[x].knows = assigned
        /\ Segment(p).kind = "node" => F.shown[x].part > before(i)[Segment(p).node]
        /\ ~Complete(ns, p) => F.shown[x].part <= arrived'[Segment(p).node]
      BY <2>1, PiecesOf
  <2>3. Segment(p).kind = "node" => Segment(p).node \in graph.nodes
      BY <2>1, SegmentsTyped
  <2>4. F.shown[x].part \in Nat
    <3>1. F.shown[x] \in Shards(R, assigned)
        BY <1>8, ElementOfSeq
    <3> QED
        BY <3>1 DEF Shards
  <2>5. Segment(p).kind = "node" => F.shown[x].part > done[Segment(p).node]
    <3> SUFFICES ASSUME Segment(p).kind = "node" PROVE F.shown[x].part > done[Segment(p).node]
        OBVIOUS
    <3>1. done[Segment(p).node] \in Nat /\ before(i)[Segment(p).node] \in Nat
        BY <2>1, <2>3 DEF Positions
    <3>2. done[Segment(p).node] <= before(i)[Segment(p).node]
        BY <1>4, <2>1, <2>3
    <3> QED
        BY <2>2, <2>4, <3>1, <3>2
  <2> QED
      BY <2>2, <2>5 DEF SamePlace, i, p
<1>12. ASSUME NEW x \in DOMAIN F.shown, NEW y \in DOMAIN F.shown, x < y
       PROVE  row[x] < row[y] \/ (row[x] = row[y] /\ F.shown[x].part < F.shown[y].part)
  <2>1. row[x] < row[y] \/ (row[x] = row[y] /\ col[x] < col[y])
      BY <1>8, <1>12 DEF Joins
  <2>2. CASE row[x] = row[y] /\ col[x] < col[y]
    <3>1. /\ row[x] \in 1..m /\ list[row[x]] \in Spots(R) /\ Positions(before(row[x]))
          /\ ss[row[x]] = Pieces(before(row[x]), ns, list[row[x]])
        BY <1>3, <1>4, <1>5, <1>9
    <3> DEFINE L == Pieces(before(row[x]), ns, list[row[x]])
    <3>2. \A c, d \in DOMAIN L : c < d => L[c].part < L[d].part
        BY <3>1, PiecesOf
    <3> HIDE DEF L
    <3>3. ss[row[x]] = L
        BY <3>1 DEF L
    <3> QED
        BY <2>2, <3>2, <3>3, <1>9
  <2> QED
      BY <2>1, <2>2
<1>13. \E r \in [DOMAIN F.shown -> 1..m] :
         /\ \A x \in DOMAIN F.shown :
              LET p == list[r[x]]
              IN  /\ SamePlace(F.shown[x], p) /\ F.shown[x].knows = assigned
                  /\ Segment(p).kind = "node" => F.shown[x].part > done[Segment(p).node]
                  /\ ~Complete(ns, p) => F.shown[x].part <= arrived'[Segment(p).node]
         /\ \A x, y \in DOMAIN F.shown : x < y =>
              r[x] < r[y] \/ (r[x] = r[y] /\ F.shown[x].part < F.shown[y].part)
    BY <1>10, <1>11, <1>12
<1> QED
    BY <1>1, <1>8, <1>13 DEF F, k, m, touched

\* What was streamed of the answers in R, each part of a place of theirs and
\* with the variable as its answer has to see it.
Told(sh, R) ==
  /\ sh \in Seq(Shards(R, assigned))
  /\ \A i \in DOMAIN sh :
       /\ sh[i].seg \in DOMAIN flow.template[sh[i].by]
       /\ Segment(sh[i]) = Variable => {n \in assigned : OnEveryWay(n, sh[i].by)} \subseteq sh[i].knows

LEMMA ToldJoined ==
  ASSUME NEW R, NEW sh, NEW out, Told(sh, R), Told(out, R)
  PROVE  Told(sh \o out, R)
<1> DEFINE a == Len(sh)
           b == Len(out)
           G == sh \o out
           Right(x) == /\ x.seg \in DOMAIN flow.template[x.by]
                       /\ Segment(x) = Variable => {n \in assigned : OnEveryWay(n, x.by)} \subseteq x.knows
<1>1. /\ sh \in Seq(Shards(R, assigned)) /\ out \in Seq(Shards(R, assigned))
      /\ \A i \in DOMAIN sh : Right(sh[i])
      /\ \A i \in DOMAIN out : Right(out[i])
    BY DEF Told
<1> HIDE DEF Right, Shards
<1>2. /\ a \in Nat /\ b \in Nat /\ DOMAIN sh = 1..a /\ DOMAIN out = 1..b
      /\ G \in Seq(Shards(R, assigned)) /\ Len(G) = a + b
      /\ \A i \in 1..(a + b) : G[i] = IF i <= a THEN sh[i] ELSE out[i - a]
    BY <1>1, ConcatProperties, LenProperties
<1> HIDE DEF a, b, G
<1>3. DOMAIN G = 1..(a + b)
    BY <1>2, LenProperties
<1>4. \A i \in DOMAIN G : (i \in DOMAIN sh /\ G[i] = sh[i]) \/ (i - a \in DOMAIN out /\ G[i] = out[i - a])
    BY <1>2, <1>3
<1>5. \A i \in DOMAIN G : Right(G[i])
    BY <1>1, <1>4
<1>6. Told(G, R)
    BY <1>2, <1>5 DEF Told, Right
<1> QED
    BY <1>6 DEF G

\* A flush leaves the line in order.
LEMMA FlushLines ==
  ASSUME Chosen, NEW R \in SUBSET Responses(flow), NEW list \in Seq(Spots(R)), NEW ns,
         NEW done, Positions(done), NEW sh, Told(sh, R), NEW rank,
         Lined(sh, list, done, rank)
  PROVE  LET F == Flushed(list, done, ns)
         IN  /\ F.todo \in Seq(Spots(R)) /\ Positions(F.read)
             /\ Told(F.shown, R)
             /\ Lined(sh \o F.shown, F.todo, F.read, rank)
<1> DEFINE k == Leading(ns, list)
           m == IF k < Len(list) THEN k + 1 ELSE k
           F == Flushed(list, done, ns)
           out == F.shown
           td == F.todo
           G == sh \o out
<1>1. /\ td = SubSeq(list, k + 1, Len(list)) /\ F.read = Taken(done, ns, SubSeq(list, 1, m))
      /\ out \in Seq(Shards(R, assigned)) /\ sh \in Seq(Shards(R, assigned))
    BY FlushedIs DEF Told
<1>2. PICK row \in [DOMAIN out -> 1..m] :
        /\ \A x \in DOMAIN out :
             LET p == list[row[x]]
             IN  /\ SamePlace(out[x], p) /\ out[x].knows = assigned
                 /\ Segment(p).kind = "node" => out[x].part > done[Segment(p).node]
                 /\ ~Complete(ns, p) => out[x].part <= arrived'[Segment(p).node]
        /\ \A x, y \in DOMAIN out : x < y =>
             row[x] < row[y] \/ (row[x] = row[y] /\ out[x].part < out[y].part)
    BY FlushedIs
<1>3. /\ k \in 0..Len(list) /\ Len(list) \in Nat /\ DOMAIN list = 1..Len(list)
      /\ k < Len(list) => ~Complete(ns, list[k + 1])
    BY LeadingIs
<1>4. m \in 0..Len(list) /\ m <= k + 1 /\ (m = k + 1 => k < Len(list))
    BY <1>3
<1>5. /\ td \in Seq(Spots(R)) /\ DOMAIN td = 1..(Len(list) - k)
      /\ \A j \in DOMAIN td : td[j] = list[k + j] /\ k + j \in DOMAIN list /\ j \in Nat \ {0}
  <2>1. \A i \in DOMAIN list : list[i] \in Spots(R)
      OBVIOUS
  <2>2. td = SubSeq(list, k + 1, Len(list))
      BY <1>1
  <2> HIDE DEF td, k, F
  <2> QED
      BY <1>3, <2>1, <2>2
<1>6. Positions(F.read) /\ \A n \in graph.nodes : done[n] <= F.read[n]
    BY <1>1, TakenIs
<1>7. k < Len(list) /\ ~Complete(ns, list[k + 1]) =>
        /\ Segment(list[k + 1]).kind = "node" /\ Segment(list[k + 1]).node \in graph.nodes
        /\ F.read[Segment(list[k + 1]).node] = arrived'[Segment(list[k + 1]).node]
  <2> SUFFICES ASSUME k < Len(list), ~Complete(ns, list[k + 1])
               PROVE  /\ Segment(list[k + 1]).kind = "node" /\ Segment(list[k + 1]).node \in graph.nodes
                      /\ F.read[Segment(list[k + 1]).node] = arrived'[Segment(list[k + 1]).node]
      OBVIOUS
  <2>1. Segment(list[k + 1]).kind = "node" /\ ~Passes(ns, list[k + 1])
      BY DEF Complete
  <2>2. list[k + 1] \in Spots(R)
      BY <1>3
  <2>3. /\ Segment(list[k + 1]).node \in graph.nodes
        /\ Segment(list[k + 1]) = Output(Segment(list[k + 1]).node)
      BY <2>1, <2>2, SegmentsTyped
  <2>4. k + 1 \in DOMAIN SubSeq(list, 1, m) /\ SubSeq(list, 1, m)[k + 1] = list[k + 1]
      BY <1>3, <1>4
  <2> DEFINE front == SubSeq(list, 1, m)
  <2>5. /\ k + 1 \in DOMAIN front /\ front[k + 1] = list[k + 1]
        /\ F.read = Taken(done, ns, front)
      BY <1>1, <2>4
  <2> HIDE DEF front, F, k, m
  <2>6. \A i \in DOMAIN front : \A n \in graph.nodes :
          ~Passes(ns, front[i]) /\ Segment(front[i]) = Output(n) => Taken(done, ns, front)[n] = arrived'[n]
      BY TakenIs
  <2> QED
      BY <2>1, <2>3, <2>5, <2>6
<1> HIDE DEF k, m, F
<1>8. /\ \A i, j \in DOMAIN list : i < j => Earlier(list[i], list[j], rank)
      /\ \A i \in DOMAIN sh : \A j \in DOMAIN list :
           Earlier(sh[i], list[j], rank) \/ (j = 1 /\ Part(sh[i], list[j], done))
      /\ \A i, j \in DOMAIN sh : i < j =>
           Earlier(sh[i], sh[j], rank) \/ (SamePlace(sh[i], sh[j]) /\ sh[i].part < sh[j].part)
    BY DEF Lined
<1>9. /\ \A i \in DOMAIN sh : sh[i].part \in Nat
      /\ \A x \in DOMAIN out : out[x].part \in Nat
  <2>1. \A S : \A t \in Seq(S) : \A i \in DOMAIN t : t[i] \in S
      OBVIOUS
  <2>2. \A x \in Shards(R, assigned) : x.part \in Nat
      BY DEF Shards
  <2> QED
      BY <1>1, <2>1, <2>2
<1>10. \A x \in DOMAIN out : row[x] \in DOMAIN list /\ row[x] \in 1..m
    BY <1>2, <1>3, <1>4
<1>11. \A j \in DOMAIN list : Segment(list[j]).kind = "node" =>
         /\ Segment(list[j]).node \in graph.nodes
         /\ done[Segment(list[j]).node] \in Nat /\ F.read[Segment(list[j]).node] \in Nat
  <2>1. \A i \in DOMAIN list : list[i] \in Spots(R)
      OBVIOUS
  <2>2. \A i \in DOMAIN list : Segment(list[i]).kind = "node" => Segment(list[i]).node \in graph.nodes
      BY <2>1, SegmentsTyped
  <2> QED
      BY <1>6, <2>2 DEF Positions
<1>12. \A i \in DOMAIN sh : \A x \in DOMAIN out :
         Earlier(sh[i], out[x], rank) \/ (SamePlace(sh[i], out[x]) /\ sh[i].part < out[x].part)
  <2> TAKE i \in DOMAIN sh
  <2> TAKE x \in DOMAIN out
  <2>1. CASE Earlier(sh[i], list[row[x]], rank)
    <3>1. SamePlace(out[x], list[row[x]])
        BY <1>2
    <3> QED
        BY <2>1, <3>1 DEF Earlier, SamePlace
  <2>2. CASE Part(sh[i], list[row[x]], done)
    <3> DEFINE n == Segment(list[row[x]]).node
    <3>1. /\ SamePlace(sh[i], list[row[x]]) /\ Segment(list[row[x]]).kind = "node"
          /\ sh[i].part <= done[n]
        BY <2>2 DEF Part
    <3>2. SamePlace(out[x], list[row[x]]) /\ out[x].part > done[n] /\ done[n] \in Nat
        BY <1>2, <1>10, <1>11, <3>1
    <3> HIDE DEF n
    <3>3. sh[i].part < out[x].part
        BY <1>9, <3>1, <3>2
    <3> QED
        BY <3>1, <3>2, <3>3 DEF SamePlace
  <2> QED
      BY <1>8, <1>10, <2>1, <2>2
<1>13. \A x, y \in DOMAIN out : x < y =>
         Earlier(out[x], out[y], rank) \/ (SamePlace(out[x], out[y]) /\ out[x].part < out[y].part)
  <2> SUFFICES ASSUME NEW x \in DOMAIN out, NEW y \in DOMAIN out, x < y
               PROVE  Earlier(out[x], out[y], rank) \/ (SamePlace(out[x], out[y]) /\ out[x].part < out[y].part)
      OBVIOUS
  <2>1. SamePlace(out[x], list[row[x]]) /\ SamePlace(out[y], list[row[y]])
      BY <1>2
  <2>2. CASE row[x] < row[y]
    <3>1. Earlier(list[row[x]], list[row[y]], rank)
        BY <1>8, <1>10, <2>2
    <3> QED
        BY <2>1, <3>1 DEF Earlier, SamePlace
  <2>3. CASE row[x] = row[y] /\ out[x].part < out[y].part
      BY <2>1, <2>3 DEF SamePlace
  <2> QED
      BY <1>2, <2>2, <2>3
<1>14. \A i, j \in DOMAIN td : i < j => Earlier(td[i], td[j], rank)
  <2> SUFFICES ASSUME NEW i \in DOMAIN td, NEW j \in DOMAIN td, i < j PROVE Earlier(td[i], td[j], rank)
      OBVIOUS
  <2>1. k + i < k + j
      BY <1>3, <1>5
  <2> QED
      BY <1>5, <1>8, <2>1
<1>15. \A i \in DOMAIN sh : \A j \in DOMAIN td :
         Earlier(sh[i], td[j], rank) \/ (j = 1 /\ Part(sh[i], td[j], F.read))
  <2> TAKE i \in DOMAIN sh
  <2> TAKE j \in DOMAIN td
  <2>1. td[j] = list[k + j] /\ k + j \in DOMAIN list
      BY <1>5
  <2>2. CASE Earlier(sh[i], list[k + j], rank)
      BY <2>1, <2>2
  <2>3. CASE k + j = 1 /\ Part(sh[i], list[k + j], done)
    <3>1. j = 1
        BY <1>3, <1>5, <2>3
    <3> DEFINE n == Segment(list[k + j]).node
    <3>2. /\ SamePlace(sh[i], list[k + j]) /\ Segment(list[k + j]).kind = "node"
          /\ sh[i].part <= done[n]
        BY <2>3 DEF Part
    <3>3. done[n] \in Nat /\ F.read[n] \in Nat /\ done[n] <= F.read[n]
        BY <1>6, <1>11, <2>1, <3>2
    <3> HIDE DEF n
    <3>4. sh[i].part <= F.read[n]
        BY <1>9, <3>2, <3>3
    <3> QED
        BY <2>1, <3>1, <3>2, <3>4 DEF Part, n
  <2> QED
      BY <1>8, <2>1, <2>2, <2>3
<1>16. \A x \in DOMAIN out : \A j \in DOMAIN td :
         Earlier(out[x], td[j], rank) \/ (j = 1 /\ Part(out[x], td[j], F.read))
  <2> TAKE x \in DOMAIN out
  <2> TAKE j \in DOMAIN td
  <2>1. /\ td[j] = list[k + j] /\ k + j \in DOMAIN list /\ row[x] \in DOMAIN list
        /\ SamePlace(out[x], list[row[x]])
      BY <1>2, <1>5, <1>10
  <2>2. CASE row[x] < k + j
    <3>1. Earlier(list[row[x]], list[k + j], rank)
        BY <1>8, <2>1, <2>2
    <3> QED
        BY <2>1, <3>1 DEF Earlier, SamePlace
  <2>3. CASE ~(row[x] < k + j)
    <3>1. row[x] = k + 1 /\ j = 1 /\ k < Len(list)
        BY <1>3, <1>4, <1>5, <1>10, <2>3
    <3> DEFINE n == Segment(list[k + 1]).node
    <3>2. /\ Segment(list[k + 1]).kind = "node" /\ F.read[n] = arrived'[n] /\ out[x].part <= arrived'[n]
        BY <1>2, <1>3, <1>7, <3>1
    <3> QED
        BY <2>1, <3>1, <3>2 DEF Part
  <2> QED
      BY <2>2, <2>3
<1> DEFINE a == Len(sh)
           b == Len(out)
<1>17. /\ a \in Nat /\ b \in Nat /\ DOMAIN sh = 1..a /\ DOMAIN out = 1..b
       /\ Len(G) = a + b /\ DOMAIN G = 1..(a + b)
       /\ \A i \in 1..(a + b) : G[i] = IF i <= a THEN sh[i] ELSE out[i - a]
  <2> HIDE DEF Shards, out
  <2>1. /\ G \in Seq(Shards(R, assigned)) /\ Len(G) = a + b
        /\ \A i \in 1..(a + b) : G[i] = IF i <= a THEN sh[i] ELSE out[i - a]
      BY <1>1, ConcatProperties
  <2> HIDE DEF G
  <2> QED
      BY <1>1, <2>1, LenProperties
<1>18. Lined(G, td, F.read, rank)
  <2> HIDE DEF a, b, G, out, td
  <2>1. \A i \in DOMAIN G : (i \in DOMAIN sh /\ G[i] = sh[i] /\ i <= a)
                             \/ (i - a \in DOMAIN out /\ G[i] = out[i - a] /\ ~(i <= a))
      BY <1>17
  <2>2. ASSUME NEW i \in DOMAIN G, NEW j \in DOMAIN td
        PROVE  Earlier(G[i], td[j], rank) \/ (j = 1 /\ Part(G[i], td[j], F.read))
      BY <1>15, <1>16, <2>1
  <2>3. ASSUME NEW i \in DOMAIN G, NEW j \in DOMAIN G, i < j
        PROVE  Earlier(G[i], G[j], rank) \/ (SamePlace(G[i], G[j]) /\ G[i].part < G[j].part)
    <3>1. CASE j <= a
      <4>1. i <= a
          BY <1>17, <2>3, <3>1
      <4> QED
          BY <1>8, <2>1, <2>3, <3>1, <4>1
    <3>2. CASE ~(j <= a) /\ i <= a
        BY <1>12, <2>1, <3>2
    <3>3. CASE ~(j <= a) /\ ~(i <= a)
      <4>1. i - a < j - a
          BY <1>17, <2>3
      <4> QED
          BY <1>13, <2>1, <3>3, <4>1
    <3> QED
        BY <3>1, <3>2, <3>3
  <2> QED
      BY <1>14, <2>2, <2>3 DEF Lined
<1>19. Told(out, R)
  <2>1. \A j \in DOMAIN list : list[j].seg \in DOMAIN flow.template[list[j].by]
    <3>1. \A j \in DOMAIN list : list[j] \in Spots(R)
        OBVIOUS
    <3>2. \A p \in Spots(R) : p.seg \in DOMAIN flow.template[p.by]
      <4> TAKE p \in Spots(R)
      <4>1. PICK r \in R : \E i \in DOMAIN flow.template[r] : p = [by |-> r, seg |-> i]
          BY SpotsAre
      <4> QED
          BY <4>1
    <3> QED
        BY <3>1, <3>2
  <2>2. \A x \in DOMAIN out : out[x].seg \in DOMAIN flow.template[out[x].by]
      BY <1>2, <1>10, <2>1 DEF SamePlace
  <2>3. \A x \in DOMAIN out : out[x].knows = assigned
      BY <1>2
  <2> QED
      BY <1>1, <2>2, <2>3 DEF Told
<1> QED
    BY <1>5, <1>6, <1>18, <1>19 DEF F

\* A list behind the line.
LEMMA AppendLines ==
  ASSUME NEW S, NEW td \in Seq(S), NEW new \in Seq(S), NEW sh, NEW done, NEW rank,
         Lined(sh, td, done, rank),
         \A i \in DOMAIN td : \A j \in DOMAIN new : Earlier(td[i], new[j], rank),
         \A i \in DOMAIN sh : \A j \in DOMAIN new : Earlier(sh[i], new[j], rank),
         \A i, j \in DOMAIN new : i < j => Earlier(new[i], new[j], rank)
  PROVE  Lined(sh, td \o new, done, rank)
<1> DEFINE a == Len(td)
           b == Len(new)
           G == td \o new
<1>1. /\ a \in Nat /\ b \in Nat /\ DOMAIN td = 1..a /\ DOMAIN new = 1..b
      /\ G \in Seq(S) /\ Len(G) = a + b
      /\ \A i \in 1..(a + b) : G[i] = IF i <= a THEN td[i] ELSE new[i - a]
    BY ConcatProperties, LenProperties
<1> HIDE DEF a, b, G
<1>2. DOMAIN G = 1..(a + b)
    BY <1>1, LenProperties
<1>3. \A i \in DOMAIN G : (i \in DOMAIN td /\ G[i] = td[i] /\ i <= a)
                          \/ (i - a \in DOMAIN new /\ G[i] = new[i - a] /\ ~(i <= a))
    BY <1>1, <1>2
<1>4. /\ \A i, j \in DOMAIN td : i < j => Earlier(td[i], td[j], rank)
      /\ \A i \in DOMAIN sh : \A j \in DOMAIN td :
           Earlier(sh[i], td[j], rank) \/ (j = 1 /\ Part(sh[i], td[j], done))
      /\ \A i, j \in DOMAIN sh : i < j =>
           Earlier(sh[i], sh[j], rank) \/ (SamePlace(sh[i], sh[j]) /\ sh[i].part < sh[j].part)
    BY DEF Lined
<1>5. ASSUME NEW i \in DOMAIN G, NEW j \in DOMAIN G, i < j PROVE Earlier(G[i], G[j], rank)
  <2>1. CASE j <= a
    <3>1. i <= a
        BY <1>1, <1>2, <1>5, <2>1
    <3> QED
        BY <1>3, <1>4, <1>5, <2>1, <3>1
  <2>2. CASE ~(j <= a) /\ i <= a
      BY <1>3, <2>2
  <2>3. CASE ~(j <= a) /\ ~(i <= a)
    <3>1. i - a < j - a
        BY <1>1, <1>2, <1>5
    <3> QED
        BY <1>3, <2>3, <3>1
  <2> QED
      BY <2>1, <2>2, <2>3
<1>6. ASSUME NEW i \in DOMAIN sh, NEW j \in DOMAIN G
      PROVE  Earlier(sh[i], G[j], rank) \/ (j = 1 /\ Part(sh[i], G[j], done))
    BY <1>3, <1>4
<1>7. Lined(sh, G, done, rank)
    BY <1>4, <1>5, <1>6 DEF Lined
<1> QED
    BY <1>7 DEF G

\* Only the ranks of the answers in the line count.
LEMMA RanksCount ==
  ASSUME NEW R, NEW sh, NEW td, NEW done, NEW rank, NEW other, Lined(sh, td, done, rank),
         \A i \in DOMAIN sh : sh[i].by \in R, \A i \in DOMAIN td : td[i].by \in R,
         \A r \in R : other[r] = rank[r]
  PROVE  Lined(sh, td, done, other)
<1>1. \A x, y : x.by \in R /\ y.by \in R /\ Earlier(x, y, rank) => Earlier(x, y, other)
    BY DEF Earlier
<1> QED
    BY <1>1 DEF Lined

\* A session lists places of its answer.
LEMMA SessionListed ==
  ASSUME Chosen, NEW B \in SUBSET Responses(flow), NEW r \in B
  PROVE  Session(r) \in Seq(Spots(B))
<1> DEFINE S == Spots(B)
           t == flow.template[r]
<1>1. \E T : t \in Seq(T)
    BY FlowsAreWellFormed DEF Chosen
<1>2. Len(t) \in Nat /\ DOMAIN t = 1..Len(t)
    BY <1>1
<1>3. Session(r) = [i \in 1..Len(t) |-> [by |-> r, seg |-> i]]
    BY <1>2 DEF Session
<1>4. \A i \in 1..Len(t) : [by |-> r, seg |-> i] \in S
  <2> TAKE i \in 1..Len(t)
  <2>1. i \in DOMAIN Session(r) /\ Session(r)[i] = [by |-> r, seg |-> i]
      BY <1>3
  <2>2. [by |-> r, seg |-> i] \in ToSet(Session(r))
      BY <2>1 DEF ToSet
  <2> QED
      BY <2>2 DEF Spots
<1> HIDE DEF t, S
<1>5. Session(r) \in Seq(S)
    BY <1>2, <1>3, <1>4
<1> QED
    BY <1>5 DEF S

\* The sessions of answers that begin, one after the other.
LEMMA SessionsJoined ==
  ASSUME Chosen, NEW B \in SUBSET Responses(flow), NEW order \in Seq(B), NEW N \in Nat, NEW rank,
         \A i \in DOMAIN order : rank[order[i]] = N + i
  PROVE  LET new == FlattenSeq([i \in DOMAIN order |-> Session(order[i])])
         IN  /\ new \in Seq(Spots(B))
             /\ \A k, l \in DOMAIN new : k < l => Earlier(new[k], new[l], rank)
<1> DEFINE S == Spots(B)
           Q == Seq(S)
           ss == [i \in DOMAIN order |-> Session(order[i])]
           new == FlattenSeq(ss)
<1>1. \A r \in B : Session(r) \in Q
    BY SessionListed
<1>2. Len(order) \in Nat /\ DOMAIN order = 1..Len(order) /\ \A i \in DOMAIN order : order[i] \in B
    OBVIOUS
<1>3. ss \in Seq(Q)
  <2>1. \A i \in 1..Len(order) : Session(order[i]) \in Q
      BY <1>1, <1>2
  <2> HIDE DEF Q
  <2> QED
      BY <1>2, <2>1
<1>4. new \in Seq(S) /\ JoinsSome(new, ss, Len(ss))
  <2> HIDE DEF S, ss
  <2> QED
      BY <1>3, FlattenJoins
<1>5. PICK row \in [DOMAIN new -> Nat], col \in [DOMAIN new -> Nat] : Joins(new, ss, Len(ss), row, col)
    BY <1>4 DEF JoinsSome
<1>6. Len(ss) = Len(order)
    BY <1>2
<1>7. \A k \in DOMAIN new : /\ row[k] \in DOMAIN order /\ row[k] \in Nat
                            /\ new[k] = [by |-> order[row[k]], seg |-> col[k]]
  <2> TAKE k \in DOMAIN new
  <2>1. /\ row[k] \in 1..Len(order) /\ col[k] \in DOMAIN ss[row[k]]
        /\ new[k] = ss[row[k]][col[k]]
      BY <1>5, <1>6 DEF Joins
  <2> HIDE DEF new
  <2>2. row[k] \in DOMAIN order /\ ss[row[k]] = Session(order[row[k]])
      BY <1>2, <2>1
  <2> QED
      BY <2>1, <2>2 DEF Session
<1> HIDE DEF ss, new
<1>8. ASSUME NEW k \in DOMAIN new, NEW l \in DOMAIN new, k < l
      PROVE  Earlier(new[k], new[l], rank)
  <2>1. row[k] < row[l] \/ (row[k] = row[l] /\ col[k] < col[l])
      BY <1>5, <1>8 DEF Joins
  <2>2. CASE row[k] < row[l]
    <3>1. \A x, y \in Nat : x < y => N + x < N + y
        OBVIOUS
    <3>2. rank[order[row[k]]] < rank[order[row[l]]]
        BY <1>7, <2>2, <3>1
    <3> QED
        BY <1>7, <3>2 DEF Earlier
  <2>3. CASE row[k] = row[l] /\ col[k] < col[l]
      BY <1>7, <2>3 DEF Earlier
  <2> QED
      BY <2>1, <2>2, <2>3
<1> QED
    BY <1>4, <1>8 DEF new, ss

\* What holds of some answers holds of more.
LEMMA ToldOfMore ==
  ASSUME NEW R, NEW C, R \subseteq C, NEW sh, Told(sh, R)
  PROVE  Told(sh, C)
<1>1. Shards(R, assigned) \subseteq Shards(C, assigned)
    BY DEF Shards
<1>2. sh \in Seq(Shards(R, assigned))
    BY DEF Told
<1> HIDE DEF Shards
<1>3. sh \in Seq(Shards(C, assigned))
    BY <1>1, <1>2
<1> QED
    BY <1>3 DEF Told

\* The line with the answers in B behind those in R.
LinedUp(R, B, rank, N, sh, td, done) ==
  \E other \in [Responses(flow) -> Nat] : \E M \in Nat :
    /\ \A r \in R : other[r] = rank[r]
    /\ \A r \in B : N <= other[r]
    /\ \A r \in R \union B : other[r] < M
    /\ Lined(sh, td, done, other)

\* The answers that a step makes certain begin behind the line: their ranks
\* come after the ranks of those before.
LEMMA ProceedLines ==
  ASSUME Chosen, NEW R, R = Responses(flow) \ pending, pending \subseteq Responses(flow),
         NEW first, first.todo \in Seq(Spots(R)), Positions(first.read), Told(first.shown, R),
         Told(shown, R), Proceed(first),
         NEW rank \in [Responses(flow) -> Nat], NEW N \in Nat, \A r \in R : rank[r] < N,
         Lined(shown \o first.shown, first.todo, first.read, rank)
  PROVE  LET B == Reachable(edgeState')
         IN  /\ B \subseteq pending /\ pending' = pending \ B
             /\ todo' \in Seq(Spots(R \union B)) /\ Positions(read') /\ Told(shown', R \union B)
             /\ LinedUp(R, B, rank, N, shown', todo', read')
<1> DEFINE B == Reachable(edgeState')
           C == R \union B
           sh == shown \o first.shown
<1>1. B \subseteq pending /\ B \subseteq Responses(flow) /\ C \subseteq Responses(flow)
    BY DEF Reachable
<1>2. PICK order \in SetToSeqs(B) :
        LET new    == FlattenSeq([i \in DOMAIN order |-> Session(order[i])])
            second == Queued(first, new)
        IN  /\ pending' = pending \ B
            /\ todo' = second.todo
            /\ read' = second.read
            /\ shown' = shown \o first.shown \o second.shown
    BY DEF Proceed
<1> DEFINE new == FlattenSeq([i \in DOMAIN order |-> Session(order[i])])
           second == Queued(first, new)
           c == Cardinality(B)
<1>3. IsFiniteSet(B) /\ c \in Nat
  <2>1. IsFiniteSet(Responses(flow))
      BY FlowsAreWellFormed DEF Chosen
  <2> QED
      BY <1>1, <2>1, FS_Subset, FS_CardinalityType
<1>4. /\ order \in [1..c -> B] /\ \A i, j \in 1..c : i # j => order[i] # order[j]
      /\ DOMAIN order = 1..c
    BY <1>2 DEF SetToSeqs
<1> HIDE DEF c, B
<1>5. order \in Seq(B)
    BY <1>3, <1>4
<1> DEFINE place(r) == CHOOSE i \in 1..c : order[i] = r
           other == [r \in Responses(flow) |->
                       IF r \in B THEN IF \E i \in 1..c : order[i] = r THEN N + place(r) ELSE N
                       ELSE rank[r]]
           M == N + c + 1
<1>6. \A r : (\E i \in 1..c : order[i] = r) => place(r) \in 1..c
    OBVIOUS
<1>7. \A i \in 1..c : place(order[i]) = i
    BY <1>4
<1> HIDE DEF place
<1>8. /\ other \in [Responses(flow) -> Nat]
      /\ \A r \in B : N <= other[r] /\ other[r] < M
      /\ M \in Nat /\ N <= M
  <2>1. \A r \in B : other[r] = IF \E i \in 1..c : order[i] = r THEN N + place(r) ELSE N
      BY <1>1
  <2>2. \A r \in Responses(flow) \ B : other[r] = rank[r] /\ rank[r] \in Nat
      OBVIOUS
  <2>3. \A r \in B : other[r] \in Nat /\ N <= other[r] /\ other[r] < M
    <3> SUFFICES ASSUME NEW r \in B PROVE other[r] \in Nat /\ N <= other[r] /\ other[r] < M
        OBVIOUS
    <3>1. \A i \in 1..c : N + i \in Nat /\ N <= N + i /\ N + i < M
        BY <1>3
    <3>2. N \in Nat /\ N <= N /\ N < M
        BY <1>3
    <3>3. other[r] = N \/ \E i \in 1..c : other[r] = N + i
        BY <1>6, <2>1
    <3> HIDE DEF other, M
    <3> QED
        BY <3>1, <3>2, <3>3
  <2> HIDE DEF M
  <2>4. \A r \in Responses(flow) : other[r] \in Nat
      BY <2>2, <2>3
  <2>5. other = [r \in Responses(flow) |-> other[r]]
      OBVIOUS
  <2>6. M \in Nat /\ N <= M
      BY <1>3 DEF M
  <2> HIDE DEF other
  <2>7. other \in [Responses(flow) -> Nat]
      BY <2>4, <2>5
  <2> QED
      BY <2>3, <2>6, <2>7
<1>9. \A r \in R : other[r] = rank[r] /\ r \notin B /\ r \in Responses(flow) /\ other[r] < N
    BY <1>1
<1>10. \A i \in DOMAIN order : other[order[i]] = N + i
    BY <1>1, <1>4, <1>7
<1> HIDE DEF other, M
<1>11. new \in Seq(Spots(B)) /\ \A k, l \in DOMAIN new : k < l => Earlier(new[k], new[l], other)
    BY <1>1, <1>5, <1>10, SessionsJoined
<1> HIDE DEF new
<1>12. Told(sh, R) /\ Told(sh, C)
    BY ToldJoined, ToldOfMore
<1>13. /\ \A i \in DOMAIN first.todo : first.todo[i].by \in R
       /\ \A i \in DOMAIN sh : sh[i].by \in R
       /\ \A i \in DOMAIN new : new[i].by \in B
  <2>1. \A A : \A p \in Spots(A) : p.by \in A
    <3> SUFFICES ASSUME NEW A, NEW p \in Spots(A) PROVE p.by \in A
        OBVIOUS
    <3>1. PICK r \in A : \E i \in DOMAIN flow.template[r] : p = [by |-> r, seg |-> i]
        BY SpotsAre
    <3> QED
        BY <3>1
  <2>2. \A x \in Shards(R, assigned) : x.by \in R
      BY DEF Shards
  <2>3. sh \in Seq(Shards(R, assigned))
      BY <1>12 DEF Told
  <2> HIDE DEF sh, Shards
  <2>4. \A i \in DOMAIN first.todo : first.todo[i] \in Spots(R)
      OBVIOUS
  <2>5. \A i \in DOMAIN new : new[i] \in Spots(B)
      BY <1>11
  <2>6. \A i \in DOMAIN sh : sh[i] \in Shards(R, assigned)
      BY <2>3
  <2> QED
      BY <2>1, <2>2, <2>4, <2>5, <2>6
<1>14. Lined(sh, first.todo, first.read, other)
  <2>1. Lined(sh, first.todo, first.read, rank)
      OBVIOUS
  <2> HIDE DEF sh
  <2>2. \A r \in R : other[r] = rank[r]
      BY <1>9
  <2> QED
      BY <1>13, <2>1, <2>2, RanksCount
<1> HIDE DEF sh
<1>15. \A x, y : x.by \in R /\ y.by \in B => Earlier(x, y, other)
  <2>1. \A r \in R : other[r] \in Nat
      BY <1>8, <1>9
  <2>2. \A r \in B : other[r] \in Nat
      BY <1>1, <1>8
  <2>3. \A r \in R : \A b \in B : other[r] < other[b]
      BY <1>8, <1>9, <2>1, <2>2
  <2> QED
      BY <2>3 DEF Earlier
<1>16. first.todo \in Seq(Spots(C)) /\ new \in Seq(Spots(C))
  <2>1. Spots(R) \subseteq Spots(C) /\ Spots(B) \subseteq Spots(C)
      BY DEF Spots
  <2>2. \A S, T : S \subseteq T => Seq(S) \subseteq Seq(T)
      OBVIOUS
  <2> QED
      BY <1>11, <2>1, <2>2
<1>17. Lined(sh, first.todo \o new, first.read, other)
    BY <1>11, <1>13, <1>14, <1>15, <1>16, AppendLines
<1>18. todo' \in Seq(Spots(C)) /\ Positions(read') /\ Told(shown', C) /\ Lined(shown', todo', read', other)
  <2>1. todo' = second.todo /\ read' = second.read /\ shown' = sh \o second.shown
      BY <1>2 DEF sh, new
  <2>2. CASE first.todo = <<>>
    <3> DEFINE F == Flushed(new, first.read, nodeState')
    <3>1. second = F
        BY <2>2 DEF Queued
    <3>2. Lined(sh, new, first.read, other)
      <4>1. first.todo \o new = new
          BY <1>16, <2>2
      <4> QED
          BY <1>17, <4>1
    <3>3. /\ F.todo \in Seq(Spots(C)) /\ Positions(F.read) /\ Told(F.shown, C)
          /\ Lined(sh \o F.shown, F.todo, F.read, other)
        BY <1>1, <1>12, <1>16, <3>2, FlushLines
    <3>4. Told(sh \o F.shown, C)
        BY <1>12, <3>3, ToldJoined
    <3> HIDE DEF F, second
    <3> QED
        BY <2>1, <3>1, <3>3, <3>4
  <2>3. CASE first.todo # <<>>
    <3>1. second.todo = first.todo \o new /\ second.read = first.read /\ second.shown = <<>>
        BY <2>3 DEF Queued
    <3>2. sh \o <<>> = sh
      <4>1. \A S : \A t \in Seq(S) : t \o <<>> = t
          OBVIOUS
      <4>2. sh \in Seq(Shards(C, assigned))
          BY <1>12 DEF Told
      <4> QED
          BY <4>1, <4>2
    <3>3. first.todo \o new \in Seq(Spots(C))
        BY <1>16
    <3> HIDE DEF second
    <3> QED
        BY <1>12, <1>17, <2>1, <3>1, <3>2, <3>3
  <2> QED
      BY <2>2, <2>3
<1>19. \A r \in R \union B : other[r] < M
  <2>1. \A r \in R : other[r] \in Nat
      BY <1>8, <1>9
  <2> QED
      BY <1>8, <1>9, <2>1
<1>20. LinedUp(R, B, rank, N, shown', todo', read')
    BY <1>8, <1>9, <1>18, <1>19 DEF LinedUp
<1> QED
    BY <1>1, <1>2, <1>18, <1>20 DEF B

(***************************************************************************)
(* The invariant. An answer begins when its paths are certain, at the      *)
(* latest when its node is launched; and between the answers that began    *)
(* there is a line, in which none stands before one that precedes it on    *)
(* every way.                                                              *)
(***************************************************************************)

Traversed == Chosen /\ Abs!IInv /\ Abs!SInv

Certain(es, r) == \E P \in PathsTo(r) : \A e \in P : es[e] = "taken"

Agreed ==
  /\ IsWorkflowGraph(graph) /\ HasNoCycle(graph)
  /\ \A n \in graph.nodes : Ended(n) => nodeState[n] = "taken"
  /\ \A e \in graph.edges : edgeState[e] = "taken" => Ended(e.tail)
  /\ \A n \in graph.nodes : nodeState[n] = "taken" => Certain(edgeState, n)

\* A launched node is certain: the taken edges that lead to it hold a way.
LEMMA TraversedAgreed == Traversed => Agreed
<1> SUFFICES ASSUME Traversed PROVE Agreed
    OBVIOUS
<1>1. /\ IsWorkflowGraph(graph) /\ HasNoCycle(graph) /\ graph.root \in graph.nodes
      /\ \A n \in graph.nodes : Ended(n) => nodeState[n] = "taken"
      /\ \A e \in graph.edges : edgeState[e] = "taken" => Ended(e.tail)
      /\ \A n \in graph.nodes : nodeState[n] = "taken" => Leads(graph, TakenEdges, graph.root, n)
    BY TraversalTyped, TraversalAgrees DEF Traversed, IsWorkflowGraph
<1>2. ASSUME NEW r \in graph.nodes, nodeState[r] = "taken" PROVE Certain(edgeState, r)
  <2>1. PICK W \in Ways(graph, graph.root, r) : W \subseteq TakenEdges
    <3>1. TakenEdges \in SUBSET graph.edges
        BY DEF TakenEdges
    <3> QED
        BY <1>1, <1>2, <3>1, LeadsHoldsWay
  <2>2. {e \in W : Blocks(e.tail, r)} \in PathsTo(r)
      BY <2>1 DEF PathsTo
  <2> QED
      BY <2>1, <2>2 DEF Certain, TakenEdges
<1> QED
    BY <1>1, <1>2 DEF Agreed

Streaming ==
  /\ pending \subseteq Responses(flow) /\ pool \subseteq graph.nodes /\ assigned \subseteq flow.assigners
  /\ todo \in Seq(Spots(Responses(flow) \ pending))
  /\ arrived \in [graph.nodes -> Nat] /\ read \in [graph.nodes -> Nat]
  /\ \A n \in graph.nodes : read[n] <= arrived[n] /\ arrived[n] <= flow.chunks[n]
  /\ Told(shown, Responses(flow) \ pending)

BegunAreCertain == \A r \in Responses(flow) \ pending : Certain(edgeState, r)

LaunchedHaveBegun == \A r \in pending : nodeState[r] # "taken"

Ranks(rank, N) ==
  /\ \A r \in Responses(flow) \ pending : rank[r] < N
  /\ \A a, b \in Responses(flow) \ pending : rank[a] < rank[b] => ~OnEveryWay(b, a)
  /\ Lined(shown, todo, read, rank)

InLine == \E rank \in [Responses(flow) -> Nat], N \in Nat : Ranks(rank, N)

Streams == Streaming /\ BegunAreCertain /\ LaunchedHaveBegun /\ InLine

LEMMA NextChosen == Chosen /\ [Next]_vars => Chosen' /\ flow' = flow /\ graph' = graph
BY DEF Chosen, Next, vars, traversal, Start, Chunk, Assign, Succeed, Except, Traversal!Start, Traversal!End

LEMMA InitStreams == Init => Streams
<1> SUFFICES ASSUME Init PROVE Streams
    OBVIOUS
<1>1. Chosen /\ Traversed
    BY InitTraversed DEF Init, Chosen, Traversed
<1>2. /\ pending = Responses(flow) /\ todo = <<>> /\ pool = {} /\ assigned = {} /\ shown = <<>>
      /\ arrived = [n \in graph.nodes |-> 0] /\ read = [n \in graph.nodes |-> 0]
    BY DEF Init
<1>3. flow.chunks \in [graph.nodes -> Nat] /\ Responses(flow) \subseteq graph.nodes
    BY <1>1, FlowsAreWellFormed DEF Chosen
<1>4. Streaming
  <2>1. \A S : <<>> \in Seq(S)
      OBVIOUS
  <2>2. Told(shown, Responses(flow) \ pending)
      BY <1>2, <2>1 DEF Told
  <2>3. \A n \in graph.nodes : read[n] <= arrived[n] /\ arrived[n] <= flow.chunks[n]
      BY <1>2, <1>3
  <2> QED
      BY <1>2, <2>1, <2>2, <2>3 DEF Streaming
<1>5. LaunchedHaveBegun
  <2>1. \A n \in graph.nodes : launched[n] = 0
      BY DEF Init, Traversal!Init
  <2> QED
      BY <1>1, <1>2, <1>3, <2>1, TraversalAgrees DEF LaunchedHaveBegun, Traversed
<1>6. InLine
  <2>1. Lined(shown, todo, read, [r \in Responses(flow) |-> 0])
      BY <1>2 DEF Lined
  <2>2. Ranks([r \in Responses(flow) |-> 0], 0)
      BY <1>2, <2>1 DEF Ranks
  <2>3. [r \in Responses(flow) |-> 0] \in [Responses(flow) -> Nat] /\ 0 \in Nat
      OBVIOUS
  <2> QED
      BY <2>2, <2>3 DEF InLine
<1> QED
    BY <1>2, <1>4, <1>5, <1>6 DEF Streams, BegunAreCertain

\* A node that may lead elsewhere, answers or assigns, and is on every way to
\* an answer that is certain, has ended.
LEMMA CertainHolds ==
  ASSUME Agreed, NEW es, NEW r \in graph.nodes, Certain(es, r), NEW m, OnEveryWay(m, r), Blocks(m, r)
  PROVE  \E e \in graph.edges : e.tail = m /\ es[e] = "taken"
<1>1. PICK P \in PathsTo(r) : \A e \in P : es[e] = "taken"
    BY DEF Certain
<1>2. PICK W \in Ways(graph, graph.root, r) : P = {e \in W : Blocks(e.tail, r)}
    BY <1>1 DEF PathsTo
<1>3. W \subseteq graph.edges
  <2>1. graph.root \in graph.nodes /\ IsWorkflowGraph(graph) /\ HasNoCycle(graph)
      BY DEF Agreed, IsWorkflowGraph
  <2> QED
      BY <1>2, <2>1, WaysLead
<1>4. PICK e \in W : e.tail = m
    BY <1>2 DEF OnEveryWay
<1> QED
    BY <1>1, <1>2, <1>3, <1>4

\* The end of a node decides edges, and revises none.
LEMMA EndAdvances ==
  ASSUME Traversed, NEW n \in graph.nodes, NEW handle, Traversal!End(n, handle)
  PROVE  /\ graph' = graph /\ nodeState[n] = "taken" /\ ~Ended(n)
         /\ \A m \in graph.nodes : Ended(m)' => m = n \/ Ended(m)
         /\ \A e \in graph.edges : edgeState[e] = "taken" => edgeState'[e] = "taken"
<1>1. Abs!End(n, handle)
    BY EndIsEnd
<1>2. \A e \in graph.edges : edgeState[e] # "unknown" => edgeState'[e] = edgeState[e]
    BY <1>1, Abs!EndStep, FlowGraphsAreWellFormed, HandlesAreTold DEF Traversed
<1>3. /\ graph' = graph /\ launched[n] > 0 /\ outcome[n] = Traversal!NotEnded
      /\ outcome' = [outcome EXCEPT ![n] = handle]
    BY DEF Traversal!End, Traversal!InFlight
<1>4. nodeState[n] = "taken"
    BY <1>3, TraversalAgrees DEF Traversed
<1>5. \A m \in graph.nodes : m # n => outcome'[m] = outcome[m]
    BY <1>3
<1>6. \A m \in graph.nodes : Ended(m)' <=> outcome'[m] # Traversal!NotEnded
    BY DEF Ended, Traversal!NotEnded
<1> QED
    BY <1>2, <1>3, <1>4, <1>5, <1>6 DEF Ended

\* Definitions of the flow alone are what they were.
LEMMA SameFlow ==
  ASSUME flow' = flow, graph' = graph
  PROVE  /\ \A R : Spots(R)' = Spots(R)
         /\ \A r : PathsTo(r)' = PathsTo(r)
         /\ \A m, r : OnEveryWay(m, r)' <=> OnEveryWay(m, r)
         /\ \A p : Segment(p)' = Segment(p)
         /\ Responses(flow)' = Responses(flow)
<1>1. \A R : Spots(R)' = Spots(R)
    BY DEF Spots, Session
<1>2. \A n, r : Blocks(n, r)' <=> Blocks(n, r)
    BY DEF Blocks, ExecutionType, Responses, Segments
<1>3. \A r : PathsTo(r)' = PathsTo(r)
    BY <1>2 DEF PathsTo
<1>4. \A m, r : OnEveryWay(m, r)' <=> OnEveryWay(m, r)
    BY DEF OnEveryWay
<1> QED
    BY <1>1, <1>3, <1>4 DEF Segment, Responses

\* Told, Lined and Ranks speak of the state through what SameFlow keeps.
LEMMA ToldNext ==
  ASSUME flow' = flow, graph' = graph, assigned' = assigned, Told(shown', Responses(flow) \ pending')
  PROVE  Told(shown, Responses(flow) \ pending)'
BY DEF Told, Segment, Shards, OnEveryWay, Responses

LEMMA LinedNext ==
  ASSUME flow' = flow, NEW rank, Lined(shown', todo', read', rank)
  PROVE  Lined(shown, todo, read, rank)'
BY DEF Lined, Earlier, Part, SamePlace, Segment

\* What the flush of the waiting sessions leaves, and what an event that
\* streams nothing does.
LEMMA FirstKeeps ==
  ASSUME Chosen, Streaming, Positions(read), NEW rank, Lined(shown, todo, read, rank),
         NEW ns, NEW first,
         first = Flushed(todo, read, ns) \/ first = [todo |-> todo, read |-> read, shown |-> <<>>]
  PROVE  LET R == Responses(flow) \ pending
         IN  /\ first.todo \in Seq(Spots(R)) /\ Positions(first.read) /\ Told(first.shown, R)
             /\ Lined(shown \o first.shown, first.todo, first.read, rank)
<1> DEFINE R == Responses(flow) \ pending
<1>1. R \in SUBSET Responses(flow) /\ todo \in Seq(Spots(R)) /\ Told(shown, R)
    BY DEF Streaming
<1> HIDE DEF R
<1>2. CASE first = Flushed(todo, read, ns)
  <2>1. LET F == Flushed(todo, read, ns)
        IN  /\ F.todo \in Seq(Spots(R)) /\ Positions(F.read) /\ Told(F.shown, R)
            /\ Lined(shown \o F.shown, F.todo, F.read, rank)
      BY <1>1, FlushLines
  <2> QED
      BY <1>2, <2>1 DEF R
<1>3. CASE first = [todo |-> todo, read |-> read, shown |-> <<>>]
  <2>1. first.todo = todo /\ first.read = read /\ first.shown = <<>>
      BY <1>3
  <2>2. shown \o <<>> = shown
    <3>1. \A S : \A t \in Seq(S) : t \o <<>> = t
        OBVIOUS
    <3>2. shown \in Seq(Shards(R, assigned))
        BY <1>1 DEF Told
    <3> QED
        BY <3>1, <3>2
  <2>3. Told(<<>>, R)
    <3>1. \A S : <<>> \in Seq(S)
        OBVIOUS
    <3> QED
        BY <3>1 DEF Told
  <2> QED
      BY <1>1, <2>1, <2>2, <2>3 DEF R
<1> QED
    BY <1>2, <1>3

LEMMA ProceedKeeps ==
  ASSUME Traversed, Agreed, Agreed', Streams, flow' = flow,
         NEW n \in graph.nodes, NEW handle, Traversal!End(n, handle),
         arrived' = arrived, assigned' = assigned, pool' \subseteq graph.nodes,
         NEW first, first = Flushed(todo, read, nodeState) \/ first = [todo |-> todo, read |-> read, shown |-> <<>>],
         Proceed(first)
  PROVE  Streams'
<1> DEFINE R == Responses(flow) \ pending
           B == Reachable(edgeState')
           C == R \union B
<1>1. /\ graph' = graph /\ nodeState[n] = "taken" /\ ~Ended(n)
      /\ \A m \in graph.nodes : Ended(m)' => m = n \/ Ended(m)
      /\ \A e \in graph.edges : edgeState[e] = "taken" => edgeState'[e] = "taken"
    BY EndAdvances
<1>2. /\ pending \subseteq Responses(flow) /\ Responses(flow) \subseteq graph.nodes
      /\ arrived \in [graph.nodes -> Nat] /\ read \in [graph.nodes -> Nat]
      /\ \A m \in graph.nodes : read[m] <= arrived[m] /\ arrived[m] <= flow.chunks[m]
      /\ assigned \subseteq flow.assigners
    BY FlowsAreWellFormed DEF Streams, Streaming, Traversed, Chosen
<1>3. PICK rank \in [Responses(flow) -> Nat] : \E N \in Nat : Ranks(rank, N)
    BY DEF Streams, InLine
<1>4. PICK N \in Nat : Ranks(rank, N)
    BY <1>3
<1>5. Positions(read)
    BY <1>2 DEF Positions
<1>6. /\ first.todo \in Seq(Spots(R)) /\ Positions(first.read) /\ Told(first.shown, R)
      /\ Lined(shown \o first.shown, first.todo, first.read, rank)
    BY <1>4, <1>5, FirstKeeps DEF Streams, Ranks, Traversed
<1>7. Chosen /\ R = Responses(flow) \ pending /\ Told(shown, R) /\ \A r \in R : rank[r] < N
    BY <1>4 DEF Ranks, Streams, Streaming, Traversed
<1> HIDE DEF R
<1>8. /\ B \subseteq pending /\ pending' = pending \ B
      /\ todo' \in Seq(Spots(C)) /\ Positions(read') /\ Told(shown', C)
      /\ LinedUp(R, B, rank, N, shown', todo', read')
    BY <1>2, <1>6, <1>7, ProceedLines
<1>9. /\ \A r \in B : r \in pending /\ Certain(edgeState', r)
      /\ \A r \in pending \ B : ~Certain(edgeState', r)
    BY DEF Reachable, Certain
<1> HIDE DEF B
<1>10. PICK other \in [Responses(flow) -> Nat] : \E M \in Nat :
         /\ \A r \in R : other[r] = rank[r]
         /\ \A r \in B : N <= other[r]
         /\ \A r \in R \union B : other[r] < M
         /\ Lined(shown', todo', read', other)
    BY <1>8 DEF LinedUp
<1>11. PICK M \in Nat :
         /\ \A r \in R : other[r] = rank[r]
         /\ \A r \in B : N <= other[r]
         /\ \A r \in C : other[r] < M
         /\ Lined(shown', todo', read', other)
    BY <1>10
<1>12. Responses(flow)' = Responses(flow) /\ C = Responses(flow) \ pending' /\ C \subseteq Responses(flow)
    BY <1>2, <1>7, <1>8 DEF Responses
<1>13. \A r \in C : Certain(edgeState', r)
  <2> SUFFICES ASSUME NEW r \in R PROVE Certain(edgeState', r)
      BY <1>9
  <2>1. PICK P \in PathsTo(r) : \A e \in P : edgeState[e] = "taken"
      BY <1>7 DEF Streams, BegunAreCertain, Certain
  <2>2. P \subseteq graph.edges
    <3>1. PICK W \in Ways(graph, graph.root, r) : P = {e \in W : Blocks(e.tail, r)}
        BY <2>1 DEF PathsTo
    <3>2. graph.root \in graph.nodes /\ IsWorkflowGraph(graph) /\ HasNoCycle(graph) /\ r \in graph.nodes
        BY <1>2, <1>7 DEF Agreed, IsWorkflowGraph
    <3> QED
        BY <3>1, <3>2, WaysLead
  <2> QED
      BY <1>1, <2>1, <2>2 DEF Certain
<1>14. Streaming'
  <2>1. Told(shown, Responses(flow) \ pending)'
      BY <1>1, <1>8, <1>12, ToldNext
  <2>2. Spots(Responses(flow) \ pending)' = Spots(C)
      BY <1>12 DEF Spots, Session
  <2>3. /\ read' \in [graph.nodes -> Nat]
        /\ \A m \in graph.nodes : read'[m] <= arrived'[m]
      BY <1>8 DEF Positions
  <2>4. pending' \subseteq Responses(flow)
      BY <1>2, <1>8
  <2> HIDE DEF C
  <2>5. todo' \in Seq(Spots(Responses(flow) \ pending)')
      BY <1>8, <2>2
  <2> QED
      BY <1>1, <1>2, <1>12, <2>1, <2>3, <2>4, <2>5 DEF Streaming
<1>15. \A r \in C : r \notin pending' /\ r \in Responses(flow)
    BY <1>12
<1>16. BegunAreCertain'
  <2>1. \A r \in Responses(flow)' \ pending' : Certain(edgeState', r)
      BY <1>12, <1>13
  <2>2. \A r : PathsTo(r)' = PathsTo(r)
      BY <1>1, SameFlow
  <2> QED
      BY <2>1, <2>2 DEF BegunAreCertain, Certain
<1>17. LaunchedHaveBegun'
  <2> SUFFICES ASSUME NEW r \in pending', nodeState'[r] = "taken" PROVE FALSE
      BY DEF LaunchedHaveBegun
  <2>1. r \in pending \ B /\ r \in graph.nodes
      BY <1>2, <1>8
  <2>2. \E P \in PathsTo(r)' : \A e \in P : edgeState'[e] = "taken"
      BY <1>1, <2>1 DEF Agreed, Certain
  <2>3. PathsTo(r)' = PathsTo(r)
      BY <1>1, SameFlow
  <2> QED
      BY <1>9, <2>1, <2>2, <2>3 DEF Certain
<1>18. ASSUME NEW a \in C, NEW b \in C, other[a] < other[b] PROVE ~OnEveryWay(b, a)
  <2>1. CASE b \in B
    <3> SUFFICES ASSUME OnEveryWay(b, a) PROVE FALSE
        OBVIOUS
    <3>1. a \in graph.nodes /\ b \in graph.nodes /\ b \in Responses(flow) /\ b \in pending
        BY <1>2, <1>9, <1>15, <2>1
    <3>2. Blocks(b, a)
        BY <3>1 DEF Blocks
    <3>3. PICK e \in graph.edges : e.tail = b /\ edgeState'[e] = "taken"
        BY <1>13, <3>1, <3>2, CertainHolds
    <3>4. Ended(b)'
        BY <1>1, <3>3 DEF Agreed
    <3>5. nodeState[b] = "taken"
        BY <1>1, <3>1, <3>4 DEF Agreed
    <3> QED
        BY <3>1, <3>5 DEF Streams, LaunchedHaveBegun
  <2>2. CASE b \notin B
    <3>1. b \in R /\ other[b] = rank[b] /\ rank[b] < N
        BY <1>7, <1>11, <2>2
    <3>2. a \in R /\ other[a] = rank[a]
      <4>1. other[a] \in Nat /\ other[b] \in Nat
          BY <1>15
      <4>2. a \notin B
          BY <1>11, <1>18, <3>1, <4>1
      <4> QED
          BY <1>11, <4>2
    <3>3. rank[a] < rank[b]
        BY <1>18, <3>1, <3>2
    <3> QED
        BY <1>4, <1>7, <3>1, <3>2, <3>3 DEF Ranks
  <2> QED
      BY <2>1, <2>2
<1>19. InLine'
  <2>1. Lined(shown, todo, read, other)'
      BY <1>11, LinedNext
  <2>2. \A a, b \in C : other[a] < other[b] => ~OnEveryWay(b, a)'
      BY <1>1, <1>18, SameFlow
  <2>3. /\ \A r \in Responses(flow)' \ pending' : other[r] < M
        /\ \A a, b \in Responses(flow)' \ pending' : other[a] < other[b] => ~OnEveryWay(b, a)'
      BY <1>11, <1>12, <2>2
  <2>4. other \in [Responses(flow)' -> Nat] /\ M \in Nat
      BY <1>12
  <2> QED
      BY <2>1, <2>3, <2>4 DEF InLine, Ranks
<1> QED
    BY <1>14, <1>16, <1>17, <1>19 DEF Streams

\* A step that begins no answer.
LEMMA NoneBegins ==
  ASSUME Streams, flow' = flow, graph' = graph, edgeState' = edgeState, pending' = pending,
         \A r \in pending : nodeState'[r] = nodeState[r],
         \A rank : Lined(shown, todo, read, rank) => Lined(shown', todo', read', rank)
  PROVE  BegunAreCertain' /\ LaunchedHaveBegun' /\ InLine'
<1>1. BegunAreCertain'
  <2>1. \A r \in Responses(flow)' \ pending' : Certain(edgeState', r)
      BY SameFlow DEF Streams, BegunAreCertain
  <2>2. \A r : PathsTo(r)' = PathsTo(r)
      BY SameFlow
  <2> QED
      BY <2>1, <2>2 DEF BegunAreCertain, Certain
<1>2. LaunchedHaveBegun'
    BY DEF Streams, LaunchedHaveBegun
<1>3. PICK rank \in [Responses(flow) -> Nat] : \E N \in Nat : Ranks(rank, N)
    BY DEF Streams, InLine
<1>4. PICK N \in Nat : Ranks(rank, N)
    BY <1>3
<1>5. Lined(shown, todo, read, rank)'
    BY <1>4, LinedNext DEF Ranks
<1>6. \A a, b : OnEveryWay(b, a)' <=> OnEveryWay(b, a)
    BY SameFlow
<1>7. /\ \A r \in Responses(flow)' \ pending' : rank[r] < N
      /\ \A a, b \in Responses(flow)' \ pending' : rank[a] < rank[b] => ~OnEveryWay(b, a)'
      /\ rank \in [Responses(flow)' -> Nat]
  <2>1. Responses(flow)' = Responses(flow)
      BY SameFlow
  <2> QED
      BY <1>4, <1>6, <2>1 DEF Ranks
<1>8. InLine'
    BY <1>5, <1>7 DEF InLine, Ranks
<1> QED
    BY <1>1, <1>2, <1>8

LEMMA ChunkKeeps ==
  ASSUME Traversed, Streams, NEW n \in graph.nodes, Chunk(n)
  PROVE  Streams'
<1> DEFINE R == Responses(flow) \ pending
           after == Flushed(todo, read, nodeState)
<1>1. /\ flow' = flow /\ graph' = graph /\ edgeState' = edgeState /\ nodeState' = nodeState
      /\ pending' = pending /\ pool' = pool /\ assigned' = assigned
      /\ arrived[n] < flow.chunks[n] /\ arrived' = [arrived EXCEPT ![n] = @ + 1]
      /\ todo' = after.todo /\ read' = after.read /\ shown' = shown \o after.shown
    BY DEF Chunk, traversal
<1> HIDE DEF after
<1>2. /\ pending \subseteq Responses(flow) /\ pool \subseteq graph.nodes /\ assigned \subseteq flow.assigners
      /\ arrived \in [graph.nodes -> Nat] /\ read \in [graph.nodes -> Nat]
      /\ \A m \in graph.nodes : read[m] <= arrived[m] /\ arrived[m] <= flow.chunks[m]
      /\ flow.chunks \in [graph.nodes -> Nat] /\ Told(shown, R)
    BY FlowsAreWellFormed DEF Streams, Streaming, Traversed, Chosen
<1>3. Positions(read)
  <2>1. arrived' \in [graph.nodes -> Nat]
      BY <1>1, <1>2
  <2>2. \A m \in graph.nodes : read[m] <= arrived'[m] /\ arrived'[m] <= flow.chunks[m]
    <3> TAKE m \in graph.nodes
    <3>1. arrived'[m] = IF m = n THEN arrived[n] + 1 ELSE arrived[m]
        BY <1>1, <1>2
    <3>2. read[m] \in Nat /\ arrived[m] \in Nat /\ flow.chunks[m] \in Nat
        BY <1>2
    <3> QED
        BY <1>1, <1>2, <3>1, <3>2
  <2> QED
      BY <1>2, <2>1, <2>2 DEF Positions
<1>4. \A rank : Lined(shown, todo, read, rank) =>
        /\ after.todo \in Seq(Spots(R)) /\ Positions(after.read) /\ Told(after.shown, R)
        /\ Lined(shown', todo', read', rank)
  <2> TAKE rank
  <2> HAVE Lined(shown, todo, read, rank)
  <2>1. LET Q == Responses(flow) \ pending
        IN  /\ after.todo \in Seq(Spots(Q)) /\ Positions(after.read) /\ Told(after.shown, Q)
            /\ Lined(shown \o after.shown, after.todo, after.read, rank)
      BY <1>3, FirstKeeps DEF after, Streams, Traversed
  <2> QED
      BY <1>1, <2>1
<1>5. \E rank : Lined(shown, todo, read, rank)
    BY DEF Streams, InLine, Ranks
<1>6. /\ todo' \in Seq(Spots(R)) /\ Positions(read') /\ Told(after.shown, R)
      /\ \A rank : Lined(shown, todo, read, rank) => Lined(shown', todo', read', rank)
    BY <1>1, <1>4, <1>5
<1>7. Told(shown', R)
    BY <1>1, <1>2, <1>6, ToldJoined
<1>8. Streaming'
  <2>1. Told(shown, Responses(flow) \ pending)'
      BY <1>1, <1>7, ToldNext
  <2>2. Spots(Responses(flow) \ pending)' = Spots(R)
      BY <1>1 DEF Spots, Session, Responses
  <2>3. /\ read' \in [graph.nodes -> Nat] /\ arrived' \in [graph.nodes -> Nat]
        /\ \A m \in graph.nodes : read'[m] <= arrived'[m] /\ arrived'[m] <= flow.chunks[m]
      BY <1>6 DEF Positions
  <2>4. todo' \in Seq(Spots(Responses(flow) \ pending)')
      BY <1>6, <2>2
  <2>5. Responses(flow)' = Responses(flow)
      BY <1>1, SameFlow
  <2> QED
      BY <1>1, <1>2, <2>1, <2>3, <2>4, <2>5 DEF Streaming
<1>9. BegunAreCertain' /\ LaunchedHaveBegun' /\ InLine'
    BY <1>1, <1>6, NoneBegins
<1> QED
    BY <1>8, <1>9 DEF Streams

LEMMA AssignKeeps ==
  ASSUME Traversed, Agreed, Streams, NEW n \in graph.nodes, Assign(n)
  PROVE  Streams'
<1> DEFINE R == Responses(flow) \ pending
<1>1. /\ flow' = flow /\ graph' = graph /\ edgeState' = edgeState /\ nodeState' = nodeState
      /\ pending' = pending /\ pool' = pool /\ arrived' = arrived /\ read' = read
      /\ todo' = todo /\ shown' = shown
      /\ assigned' = assigned \union {n} /\ n \in flow.assigners
      /\ outcome[n] = Traversal!NotEnded
    BY DEF Assign, traversal, InFlight, Traversal!InFlight
<1>2. Told(shown, R)
    BY DEF Streams, Streaming
<1>3. shown \in Seq(Shards(R, assigned'))
  <2>1. Shards(R, assigned) \subseteq Shards(R, assigned')
      BY <1>1 DEF Shards
  <2>2. shown \in Seq(Shards(R, assigned))
      BY <1>2 DEF Told
  <2>3. \A S, T : S \subseteq T => Seq(S) \subseteq Seq(T)
      OBVIOUS
  <2> HIDE DEF R
  <2> QED
      BY <2>1, <2>2, <2>3
<1>4. ASSUME NEW i \in DOMAIN shown, Segment(shown[i]) = Variable
      PROVE  {m \in assigned' : OnEveryWay(m, shown[i].by)} \subseteq shown[i].knows
  <2>1. shown[i].by \in R
    <3>1. shown[i] \in Shards(R, assigned)
        BY <1>2, ElementOfSeq DEF Told
    <3> QED
        BY <3>1 DEF Shards
  <2>2. Variable \in Segments(flow, shown[i].by)
      BY <1>2, <1>4 DEF Told, Segment, Segments, ToSet
  <2>3. ~OnEveryWay(n, shown[i].by)
    <3> SUFFICES ASSUME OnEveryWay(n, shown[i].by) PROVE FALSE
        OBVIOUS
    <3>1. Blocks(n, shown[i].by)
        BY <1>1, <2>2 DEF Blocks
    <3>2. shown[i].by \in graph.nodes
        BY <2>1, FlowsAreWellFormed DEF Traversed, Chosen
    <3>3. Certain(edgeState, shown[i].by)
        BY <2>1 DEF Streams, BegunAreCertain
    <3>4. PICK e \in graph.edges : e.tail = n /\ edgeState[e] = "taken"
        BY <3>1, <3>2, <3>3, CertainHolds
    <3> QED
        BY <1>1, <3>4 DEF Agreed, Ended
  <2> QED
      BY <1>1, <1>2, <1>4, <2>3 DEF Told
<1>5. Told(shown, Responses(flow) \ pending)'
    BY <1>1, <1>2, <1>3, <1>4 DEF Told, Segment, Shards, OnEveryWay, Responses
<1>6. Streaming'
  <2>1. Spots(Responses(flow) \ pending)' = Spots(R)
      BY <1>1 DEF Spots, Session, Responses
  <2>2. Responses(flow)' = Responses(flow)
      BY <1>1, SameFlow
  <2> QED
      BY <1>1, <1>5, <2>1, <2>2 DEF Streams, Streaming
<1>7. BegunAreCertain' /\ LaunchedHaveBegun' /\ InLine'
    BY <1>1, NoneBegins
<1> QED
    BY <1>6, <1>7 DEF Streams

LEMMA StartKeeps ==
  ASSUME Traversed, Streams, Start
  PROVE  Streams'
<1>1. /\ flow' = flow /\ graph' = graph /\ edgeState' = edgeState
      /\ pending' = pending /\ pool' = pool /\ arrived' = arrived /\ read' = read
      /\ todo' = todo /\ shown' = shown /\ assigned' = assigned
      /\ nodeState' = [nodeState EXCEPT ![graph.root] = "taken"]
    BY DEF Start, Traversal!Start, stream
<1>2. \A r \in pending : nodeState'[r] = nodeState[r]
  <2>1. \A r \in pending : r # graph.root
      BY FlowsAreWellFormed DEF Traversed, Chosen, Streams, Streaming
  <2>2. \A r : r # graph.root => [nodeState EXCEPT ![graph.root] = "taken"][r] = nodeState[r]
    <3>1. nodeState \in [graph.nodes -> States]
        BY TraversalTyped DEF Traversed
    <3>2. \A r \in graph.nodes : r # graph.root => nodeState'[r] = nodeState[r]
        BY <1>1, <3>1
    <3> QED
        BY <1>1
  <2> QED
      BY <1>1, <2>1, <2>2
<1>3. Streaming'
    BY <1>1 DEF Streams, Streaming, Told, Segment, Shards, OnEveryWay, Spots, Session, Responses
<1>4. BegunAreCertain' /\ LaunchedHaveBegun' /\ InLine'
    BY <1>1, <1>2, NoneBegins
<1> QED
    BY <1>3, <1>4 DEF Streams

LEMMA NextStreams == Traversed /\ Agreed /\ Agreed' /\ Streams /\ [Next]_vars => Streams'
<1> SUFFICES ASSUME Traversed, Agreed, Agreed', Streams, [Next]_vars PROVE Streams'
    OBVIOUS
<1>1. CASE Start
    BY <1>1, StartKeeps
<1>2. ASSUME NEW n \in graph.nodes, Chunk(n) PROVE Streams'
    BY <1>2, ChunkKeeps
<1>3. ASSUME NEW n \in graph.nodes, Assign(n) PROVE Streams'
    BY <1>3, AssignKeeps
<1>4. pool \subseteq graph.nodes
    BY DEF Streams, Streaming
<1>5. ASSUME NEW n \in graph.nodes, NEW handle \in HandlesOf(graph, n), Succeed(n, handle) PROVE Streams'
  <2>1. /\ Traversal!End(n, handle) /\ pool' = pool \union {n}
        /\ flow' = flow /\ arrived' = arrived /\ assigned' = assigned
        /\ Proceed(Flushed(todo, read, nodeState))
      BY <1>5 DEF Succeed
  <2> QED
      BY <1>4, <2>1, ProceedKeeps
<1>6. ASSUME NEW n \in graph.nodes, Except(n) PROVE Streams'
  <2> DEFINE first == [todo |-> todo, read |-> read, shown |-> <<>>]
  <2>1. /\ flow' = flow /\ arrived' = arrived /\ assigned' = assigned
        /\ Proceed(first) /\ pool' \subseteq graph.nodes
        /\ Traversal!End(n, Source) \/ Traversal!End(n, FailBranch)
      BY <1>4, <1>6 DEF Except
  <2> QED
      BY <2>1, ProceedKeeps
<1>7. CASE UNCHANGED vars
  <2>1. /\ flow' = flow /\ graph' = graph /\ edgeState' = edgeState /\ nodeState' = nodeState
        /\ pending' = pending /\ pool' = pool /\ arrived' = arrived /\ read' = read
        /\ todo' = todo /\ shown' = shown /\ assigned' = assigned
      BY <1>7 DEF vars, traversal, stream
  <2>2. Streaming'
      BY <2>1 DEF Streams, Streaming, Told, Segment, Shards, OnEveryWay, Spots, Session, Responses
  <2>3. BegunAreCertain' /\ LaunchedHaveBegun' /\ InLine'
      BY <2>1, NoneBegins
  <2> QED
      BY <2>2, <2>3 DEF Streams
<1> QED
    BY <1>1, <1>2, <1>3, <1>5, <1>6, <1>7 DEF Next

LEMMA StreamsHold == Spec => [](Traversed /\ Agreed /\ Streams)
<1>1. Init => Traversed
    BY InitTraversed DEF Init, Chosen, Traversed
<1>2. Traversed /\ [Next]_vars => Traversed'
    BY NextChosen, NextTraversed DEF Traversed
<1> QED
    BY <1>1, <1>2, InitStreams, TraversedAgreed, NextStreams, PTL DEF Spec

----------------------------------------------------------------------------

\* The state has its types; no stream is read further than it has arrived.
THEOREM AnswersAreTyped == Spec => []TypeOK
<1>1. Traversed /\ Agreed /\ Streams => TypeOK
  <2> SUFFICES ASSUME Traversed, Streams PROVE TypeOK
      OBVIOUS
  <2> DEFINE R == Responses(flow) \ pending
  <2>1. Traversal!TypeOK /\ flow.graph = graph
      BY TraversalTyped DEF Traversed, Chosen
  <2>2. todo \in Seq(UNION {ToSet(Session(r)) : r \in R})
      BY DEF Streams, Streaming, Spots
  <2>3. shown \in Seq([by : R, seg : Nat, part : Nat, knows : SUBSET assigned])
      BY DEF Streams, Streaming, Told, Shards
  <2>4. ASSUME NEW n \in graph.nodes PROVE arrived[n] \in 0..flow.chunks[n] /\ read[n] \in 0..arrived[n]
    <3>1. /\ arrived[n] \in Nat /\ read[n] \in Nat /\ read[n] <= arrived[n] /\ arrived[n] <= flow.chunks[n]
        BY DEF Streams, Streaming
    <3>2. flow.chunks[n] \in Nat
        BY FlowsAreWellFormed DEF Traversed, Chosen
    <3> QED
        BY <3>1, <3>2
  <2> QED
      BY <2>1, <2>2, <2>3, <2>4 DEF TypeOK, Streams, Streaming
<1> QED
    BY <1>1, StreamsHold, PTL

\* The parts that were streamed, in the order of the line.
LEMMA ShownInLine ==
  ASSUME Streams
  PROVE  \E rank \in [Responses(flow) -> Nat] :
           /\ \A a, b \in Responses(flow) \ pending : rank[a] < rank[b] => ~OnEveryWay(b, a)
           /\ \A i \in DOMAIN shown : shown[i].by \in Responses(flow) \ pending
           /\ \A i, j \in DOMAIN shown : i < j =>
                Earlier(shown[i], shown[j], rank) \/ (SamePlace(shown[i], shown[j]) /\ shown[i].part < shown[j].part)
<1>1. PICK rank \in [Responses(flow) -> Nat] : \E N \in Nat : Ranks(rank, N)
    BY DEF Streams, InLine
<1>2. \A i \in DOMAIN shown : shown[i].by \in Responses(flow) \ pending
  <2> DEFINE R == Responses(flow) \ pending
  <2>1. shown \in Seq(Shards(R, assigned))
      BY DEF Streams, Streaming, Told
  <2>2. \A x \in Shards(R, assigned) : x.by \in R
      BY DEF Shards
  <2> HIDE DEF R
  <2>3. \A i \in DOMAIN shown : shown[i].by \in R
      BY <2>1, <2>2, ElementOfSeq
  <2> QED
      BY <2>3 DEF R
<1> QED
    BY <1>1, <1>2 DEF Ranks, Lined

\* In whatever order nodes stream and end, the answers are streamed one after
\* the other, each in the order of its template, and no chunk twice.
THEOREM AnswersKeepTheirOrder == Spec => []AnswersInOrder
<1>1. Traversed /\ Agreed /\ Streams => AnswersInOrder
  <2> SUFFICES ASSUME Streams PROVE AnswersInOrder
      OBVIOUS
  <2>1. PICK rank \in [Responses(flow) -> Nat] :
           /\ \A i \in DOMAIN shown : shown[i].by \in Responses(flow) \ pending
           /\ \A i, j \in DOMAIN shown : i < j =>
                Earlier(shown[i], shown[j], rank) \/ (SamePlace(shown[i], shown[j]) /\ shown[i].part < shown[j].part)
      BY ShownInLine
  <2>2. \A i \in DOMAIN shown : rank[shown[i].by] \in Nat
      BY <2>1
  <2>3. ASSUME NEW i \in DOMAIN shown, NEW j \in DOMAIN shown, i < j
        PROVE  /\ shown[i].by = shown[j].by =>
                    \/ shown[i].seg < shown[j].seg
                    \/ shown[i].seg = shown[j].seg /\ shown[i].part < shown[j].part
               /\ shown[i].by # shown[j].by => rank[shown[i].by] < rank[shown[j].by]
      BY <2>1, <2>2, <2>3 DEF Earlier, SamePlace
  <2>4. ASSUME NEW i \in DOMAIN shown, NEW j \in DOMAIN shown, i < j, shown[i].by # shown[j].by,
               NEW k \in DOMAIN shown, k > j
        PROVE  shown[k].by # shown[i].by
    <3>1. rank[shown[i].by] < rank[shown[j].by]
        BY <2>3, <2>4
    <3>2. shown[j].by # shown[k].by => rank[shown[j].by] < rank[shown[k].by]
        BY <2>3, <2>4
    <3> QED
        BY <2>2, <2>4, <3>1, <3>2
  <2> QED
      BY <2>3, <2>4 DEF AnswersInOrder
<1> QED
    BY <1>1, StreamsHold, PTL

\* Of two answers of which one comes first on every way to the other, nothing
\* of the other is streamed before the first one's.
THEOREM AnswersKeepToTheGraph == Spec => []AnswersFollowGraph
<1>1. Traversed /\ Agreed /\ Streams => AnswersFollowGraph
  <2> SUFFICES ASSUME Streams, NEW i \in DOMAIN shown, NEW j \in DOMAIN shown,
                      i < j, shown[i].by # shown[j].by
               PROVE  ~OnEveryWay(shown[j].by, shown[i].by)
      BY DEF AnswersFollowGraph
  <2>1. PICK rank \in [Responses(flow) -> Nat] :
           /\ \A a, b \in Responses(flow) \ pending : rank[a] < rank[b] => ~OnEveryWay(b, a)
           /\ \A k \in DOMAIN shown : shown[k].by \in Responses(flow) \ pending
           /\ \A k, l \in DOMAIN shown : k < l =>
                Earlier(shown[k], shown[l], rank) \/ (SamePlace(shown[k], shown[l]) /\ shown[k].part < shown[l].part)
      BY ShownInLine
  <2>2. rank[shown[i].by] < rank[shown[j].by]
      BY <2>1 DEF Earlier, SamePlace
  <2> QED
      BY <2>1, <2>2
<1> QED
    BY <1>1, StreamsHold, PTL

\* An answer that names the conversation variable, with an assigner on every
\* way to it, shows what was assigned.
THEOREM AnswersSeeTheAssigned == Spec => []AssignedFirst
<1>1. Traversed /\ Agreed /\ Streams => AssignedFirst
    BY DEF Streams, Streaming, Told, AssignedFirst
<1> QED
    BY <1>1, StreamsHold, PTL

\* At the end an answer that began has run: the taken edges of a certain path
\* lead to it.
LEMMA BegunDoRun == Traversed /\ Agreed /\ Streams => BegunAnswersRun
<1> SUFFICES ASSUME Traversed, Streams, Traversal!Quiet, Traversal!Rooted,
                    NEW r \in Responses(flow) \ pending
             PROVE  nodeState[r] = "taken"
    BY DEF BegunAnswersRun
<1> DEFINE T == {n \in graph.nodes : nodeState[n] = "taken"}
<1>1. /\ IsWorkflowGraph(graph) /\ HasNoCycle(graph) /\ graph.root \in graph.nodes /\ r \in graph.nodes
      /\ \A e \in graph.edges : e.head \in graph.nodes /\ e \in Out(graph, e.tail)
    BY TraversalTyped, FlowsAreWellFormed DEF Traversed, Chosen, IsWorkflowGraph, Out
<1>2. PICK P \in PathsTo(r) : \A e \in P : edgeState[e] = "taken"
    BY DEF Streams, BegunAreCertain, Certain
<1>3. PICK W \in Ways(graph, graph.root, r) : P = {e \in W : Blocks(e.tail, r)}
    BY <1>2 DEF PathsTo
<1>4. W \subseteq graph.edges /\ Leads(graph, W, graph.root, r)
    BY <1>1, <1>3, WaysLead
<1>5. /\ nodeState[graph.root] = "taken"
      /\ \A n \in graph.nodes : nodeState[n] = "taken" => Ended(n)
      /\ \A n \in graph.nodes : nodeState[n] \in {"taken", "skipped"}
    BY TraversalSettles DEF Traversed
<1>6. ASSUME NEW e \in W, e.tail \in T PROVE e.head \in T
  <2>1. edgeState[e] = "taken"
    <3>1. CASE Blocks(e.tail, r)
        BY <1>2, <1>3, <3>1
    <3>2. CASE ~Blocks(e.tail, r)
      <4>1. ExecutionType(graph, e.tail) # "branch"
          BY <3>2 DEF Blocks
      <4> QED
          BY <1>1, <1>4, <1>5, <1>6, <4>1, TraversalAgrees DEF Traversed
    <3> QED
        BY <3>1, <3>2
  <2>2. nodeState[e.head] # "skipped"
      BY <1>4, <2>1, TraversalAgrees DEF Traversed
  <2> QED
      BY <1>1, <1>4, <1>5, <2>2
<1>7. r \in T
    BY <1>1, <1>4, <1>5, <1>6 DEF Leads
<1> QED
    BY <1>7

\* An answer begins only when it is sure to run: along its way, what could
\* lead elsewhere was taken, and the rest leads on.
THEOREM BegunAnswersDoRun == Spec => []BegunAnswersRun
BY BegunDoRun, StreamsHold, PTL

\* The coordinator never interferes: whatever is streamed and when, the run
\* goes through the graph as the traversal alone lets it. The success or the
\* absorbed failure of a node is its end there, all else leaves it alone.
THEOREM AnswersTraverse == Spec => Traversal!Spec
<1>1. Init => Traversal!Init
    BY DEF Init
<1>2. [Next]_vars => [Traversal!Next]_(Traversal!vars)
  <2> SUFFICES ASSUME [Next]_vars PROVE [Traversal!Next]_(Traversal!vars)
      OBVIOUS
  <2> USE DEF Traversal!vars, traversal
  <2>1. CASE UNCHANGED vars
      BY <2>1 DEF vars
  <2>2. CASE Start
      BY <2>2 DEF Start, Traversal!Next
  <2>3. ASSUME NEW n \in graph.nodes, Chunk(n) \/ Assign(n) PROVE UNCHANGED (Traversal!vars)
      BY <2>3 DEF Chunk, Assign
  <2>4. \A n : HandlesOf(graph, n) = Traversal!HandlesOf(graph, n)
      BY DEF HandlesOf, Traversal!HandlesOf, Source, FailBranch, Traversal!Source, Traversal!FailBranch
  <2>5. ASSUME NEW n \in graph.nodes, NEW handle \in HandlesOf(graph, n), Succeed(n, handle)
        PROVE  Traversal!Next
      BY <2>4, <2>5 DEF Succeed, Traversal!Next
  <2>6. ASSUME NEW n \in graph.nodes, Except(n) PROVE Traversal!Next
    <3>1. \E handle \in HandlesOf(graph, n) : Traversal!End(n, handle)
        BY <2>6, DefaultHandles DEF Except, HandlesOf
    <3> QED
        BY <2>4, <3>1 DEF Traversal!Next
  <2> QED
      BY <2>1, <2>2, <2>3, <2>5, <2>6 DEF Next
<1> QED
    BY <1>1, <1>2, PTL DEF Spec, Traversal!Spec

(***************************************************************************)
(* What is streamed, whole. Each place of an answer holds what its segment *)
(* says, and two lists that rise and hold the same are the same list.      *)
(***************************************************************************)

Under(x, y) == x[1] < y[1] \/ (x[1] = y[1] /\ x[2] < y[2])

Rising(s) == \A i, j \in DOMAIN s : i < j => Under(s[i], s[j])

\* Two such lists with the same members agree place by place: the first at
\* which they did not would be missing from one.
LEMMA RisingAgrees ==
  ASSUME NEW a \in Seq(Nat \X Nat), NEW b \in Seq(Nat \X Nat), Rising(a), Rising(b), ToSet(a) = ToSet(b)
  PROVE  \A k \in DOMAIN a : k \in DOMAIN b /\ b[k] = a[k]
<1> DEFINE T == {k \in Nat : k \in DOMAIN a /\ ~(k \in DOMAIN b /\ b[k] = a[k])}
<1>1. /\ Len(a) \in Nat /\ DOMAIN a = 1..Len(a) /\ Len(b) \in Nat /\ DOMAIN b = 1..Len(b)
      /\ \A k \in DOMAIN a : a[k] \in Nat \X Nat
      /\ \A k \in DOMAIN b : b[k] \in Nat \X Nat
    OBVIOUS
<1>2. /\ \A k \in DOMAIN a : \E j \in DOMAIN b : b[j] = a[k]
      /\ \A k \in DOMAIN b : \E j \in DOMAIN a : a[j] = b[k]
    BY DEF ToSet
<1>3. \A x, y, z \in Nat \X Nat : ~Under(x, x) /\ (Under(x, y) /\ Under(y, z) => Under(x, z))
    BY DEF Under
<1> HIDE DEF T
<1>4. T = {}
  <2> SUFFICES ASSUME T # {} PROVE FALSE
      OBVIOUS
  <2>1. PICK m \in T : \A k \in T : m <= k
      BY LeastNumber DEF T
  <2>2. m \in Nat /\ m \in DOMAIN a /\ ~(m \in DOMAIN b /\ b[m] = a[m])
      BY <2>1 DEF T
  <2>3. \A k \in 1..(m - 1) : k \in DOMAIN b /\ b[k] = a[k] /\ k < m /\ k \in DOMAIN a
    <3> TAKE k \in 1..(m - 1)
    <3>1. k \in Nat /\ k \in DOMAIN a /\ k < m /\ ~(m <= k)
        BY <1>1, <2>2
    <3> QED
        BY <2>1, <3>1 DEF T
  <2>4. PICK j \in DOMAIN b : b[j] = a[m]
      BY <1>2, <2>2
  <2>5. j > m
    <3>1. CASE j < m
      <4>1. j \in 1..(m - 1)
          BY <1>1, <2>2, <3>1
      <4>2. b[j] = a[j] /\ j \in DOMAIN a /\ j < m
          BY <2>3, <4>1
      <4>3. Under(a[j], a[m])
          BY <2>2, <4>2 DEF Rising
      <4> QED
          BY <1>1, <1>3, <2>2, <2>4, <4>2, <4>3
    <3>2. j # m
        BY <2>2, <2>4
    <3> QED
        BY <1>1, <2>2, <3>1, <3>2
  <2>6. m \in DOMAIN b /\ Under(b[m], b[j])
    <3>1. m \in DOMAIN b
        BY <1>1, <2>2, <2>5
    <3> QED
        BY <2>5, <3>1 DEF Rising
  <2>7. PICK l \in DOMAIN a : a[l] = b[m]
      BY <1>2, <2>6
  <2>8. CASE l < m
    <3>1. l \in 1..(m - 1)
        BY <1>1, <2>2, <2>8
    <3>2. b[l] = b[m] /\ l \in DOMAIN b /\ l < m
        BY <2>3, <2>7, <3>1
    <3>3. Under(b[l], b[m])
        BY <2>6, <3>2 DEF Rising
    <3> QED
        BY <1>1, <1>3, <2>6, <3>2, <3>3
  <2>9. CASE l = m
      BY <1>1, <1>3, <2>2, <2>4, <2>6, <2>7, <2>9
  <2>10. CASE l > m
    <3>1. Under(a[m], a[l])
        BY <2>2, <2>10 DEF Rising
    <3>2. Under(a[l], a[m])
        BY <2>4, <2>6, <2>7
    <3> QED
        BY <1>1, <1>3, <2>2, <3>1, <3>2
  <2> QED
      BY <1>1, <2>2, <2>8, <2>9, <2>10
<1> QED
    BY <1>1, <1>4 DEF T

\* So they are the same.
LEMMA RisingAlike ==
  ASSUME NEW a \in Seq(Nat \X Nat), NEW b \in Seq(Nat \X Nat), Rising(a), Rising(b), ToSet(a) = ToSet(b)
  PROVE  a = b
<1>1. /\ \A k \in DOMAIN a : k \in DOMAIN b /\ b[k] = a[k]
      /\ \A k \in DOMAIN b : k \in DOMAIN a /\ a[k] = b[k]
    BY RisingAgrees
<1>2. /\ Len(a) \in Nat /\ DOMAIN a = 1..Len(a) /\ Len(b) \in Nat /\ DOMAIN b = 1..Len(b)
      /\ a = [k \in 1..Len(a) |-> a[k]] /\ b = [k \in 1..Len(b) |-> b[k]]
    OBVIOUS
<1>3. 1..Len(a) = 1..Len(b)
    BY <1>1, <1>2
<1> QED
    BY <1>1, <1>2, <1>3

(***************************************************************************)
(* The sources of an answer are settled before its node runs.              *)
(***************************************************************************)

LEMMA SourcesSettled ==
  ASSUME Traversed, NEW r \in Responses(flow), nodeState[r] = "taken",
         NEW n \in graph.nodes, Uses(flow, r, n)
  PROVE  Ended(n) \/ nodeState[n] = "skipped"
<1> SUFFICES ASSUME ~Ended(n), nodeState[n] # "skipped" PROVE FALSE
    OBVIOUS
<1> DEFINE T == {n} \union {m \in graph.nodes : nodeState[m] = "unknown"}
<1>1. IsWorkflowGraph(graph) /\ Before(graph, n, r) /\ r \in graph.nodes
    BY FlowsAreWellFormed DEF Traversed, Chosen
<1>2. \A m \in graph.nodes : Ended(m) => nodeState[m] = "taken"
    BY TraversalAgrees DEF Traversed
<1>3. \A e \in graph.edges : edgeState[e] # "unknown" => Ended(e.tail) \/ nodeState[e.tail] = "skipped"
    BY NotEndedIsOne DEF Traversed, Abs!IInv, Abs!EdgesAgree, Ended
<1>4. \A m \in graph.nodes : nodeState[m] # "unknown" => \A e \in graph.edges : e.head = m => edgeState[e] # "unknown"
    BY DEF Traversed, Abs!IInv, Abs!NodesWait, Abs!In
<1>5. T \in SUBSET graph.nodes
    OBVIOUS
<1>6. ASSUME NEW e \in graph.edges, e.tail \in T PROVE e.head \in T
  <2>1. ~Ended(e.tail) /\ nodeState[e.tail] # "skipped"
      BY <1>2, <1>6
  <2>2. edgeState[e] = "unknown" /\ e.head \in graph.nodes
      BY <1>1, <1>3, <2>1 DEF IsWorkflowGraph
  <2> QED
      BY <1>4, <2>2
<1>7. r \in T
    BY <1>1, <1>5, <1>6 DEF Before
<1> QED
    BY <1>1, <1>7 DEF Before

\* What holds of the nodes when one ends: what was taken or skipped stays so.
LEMMA EndKeepsNodes ==
  ASSUME Traversed, NEW n \in graph.nodes, NEW handle, Traversal!End(n, handle)
  PROVE  \A m \in graph.nodes : nodeState[m] # "unknown" => nodeState'[m] = nodeState[m]
<1>1. Abs!End(n, handle)
    BY EndIsEnd
<1> DEFINE skipped  == Abs!SkippedAfter(graph, edgeState, n, handle)
           enqueued == Abs!LateAfter(graph, edgeState, n, handle) \union Abs!ReadyAfter(graph, edgeState, n, handle)
<1>2. /\ \A m \in skipped : nodeState[m] = "unknown"
      /\ \A m \in enqueued : nodeState[m] = "unknown"
    BY <1>1, Abs!EndStep, FlowGraphsAreWellFormed, HandlesAreTold DEF Traversed
<1>3. nodeState' = [m \in graph.nodes |-> IF m \in enqueued THEN "taken"
                                          ELSE IF m \in skipped THEN "skipped" ELSE nodeState[m]]
    BY <1>1 DEF Abs!End
<1> HIDE DEF skipped, enqueued
<1> QED
    BY <1>2, <1>3

(***************************************************************************)
(* What was streamed for each place.                                       *)
(***************************************************************************)

\* The parts streamed for a place, and those a list of pieces holds.
Parts(sh, p) == {sh[i].part : i \in {i \in DOMAIN sh : SamePlace(sh[i], p)}}

Marks(L) == {L[c].part : c \in DOMAIN L}

Waits(td, p) == \E j \in DOMAIN td : td[j] = p

Distinct(list) == \A i, j \in DOMAIN list : i # j => list[i] # list[j]

\* What of a source there is: the chunks not read yet and a value of its own.
Rest(done, n) ==
  {c \in Nat : done[n] < c /\ c <= arrived'[n]}
    \union {c \in {flow.chunks[n] + 1} : n \in pool' /\ ~Closed(n)}

\* The pieces of a place are what there is of its source.
LEMMA PiecesHold ==
  ASSUME Chosen, NEW R \in SUBSET Responses(flow), NEW p \in Spots(R), NEW ns, NEW done, Positions(done)
  PROVE  Marks(Pieces(done, ns, p)) = IF Segment(p).kind # "node" THEN {0}
                                      ELSE IF Passes(ns, p) THEN {}
                                      ELSE Rest(done, Segment(p).node)
<1> DEFINE n == Segment(p).node
           L == Pieces(done, ns, p)
<1>1. /\ flow.chunks \in [graph.nodes -> Nat]
      /\ Segment(p).kind = "node" => n \in graph.nodes
    BY SegmentsTyped
<1>2. CASE Segment(p).kind # "node"
  <2>1. L = <<Piece(p, 0)>>
      BY <1>2 DEF Pieces
  <2>2. DOMAIN L = {1} /\ L[1].part = 0
      BY <2>1 DEF Piece
  <2> HIDE DEF L
  <2>3. Marks(L) = {0}
      BY <2>2 DEF Marks
  <2> QED
      BY <1>2, <2>3 DEF L
<1>3. CASE Segment(p).kind = "node" /\ Passes(ns, p)
  <2>1. L = <<>>
      BY <1>3 DEF Pieces
  <2>2. Marks(<<>>) = {}
      BY DEF Marks
  <2> QED
      BY <1>3, <2>1, <2>2
<1>4. CASE Segment(p).kind = "node" /\ ~Passes(ns, p)
  <2> DEFINE m     == arrived'[n] - done[n]
             fresh == [c \in 1..m |-> Piece(p, done[n] + c)]
             own   == n \in pool' /\ ~Closed(n)
             rest  == IF own THEN <<Piece(p, flow.chunks[n] + 1)>> ELSE <<>>
             S     == {Piece(p, c) : c \in Nat}
  <2>1. L = fresh \o rest
      BY <1>4 DEF Pieces
  <2>2. /\ m \in Nat /\ done[n] \in Nat /\ arrived'[n] \in Nat /\ flow.chunks[n] \in Nat
        /\ arrived'[n] = done[n] + m
      BY <1>1, <1>4 DEF Positions
  <2>3. \A c : Piece(p, c).part = c
      BY DEF Piece
  <2> HIDE DEF m, own
  <2>4. Piece(p, flow.chunks[n] + 1) \in S /\ \A c \in 1..m : Piece(p, done[n] + c) \in S
    <3>1. flow.chunks[n] + 1 \in Nat /\ \A c \in 1..m : done[n] + c \in Nat
        BY <2>2
    <3> QED
        BY <3>1
  <2>5. /\ fresh \in Seq(S) /\ Len(fresh) = m /\ \A c \in 1..m : fresh[c] = Piece(p, done[n] + c)
        /\ rest \in Seq(S) /\ Len(rest) = IF own THEN 1 ELSE 0
        /\ own => rest[1] = Piece(p, flow.chunks[n] + 1)
    <3>1. fresh \in Seq(S) /\ Len(fresh) = m /\ \A c \in 1..m : fresh[c] = Piece(p, done[n] + c)
        BY <2>2
    <3> HIDE DEF fresh, S
    <3>2. own => rest \in Seq(S) /\ Len(rest) = 1 /\ rest[1] = Piece(p, flow.chunks[n] + 1)
        BY <2>4
    <3>3. ~own => rest \in Seq(S) /\ Len(rest) = 0
        OBVIOUS
    <3> QED
        BY <3>1, <3>2, <3>3
  <2> HIDE DEF fresh, rest, L, S
  <2>6. /\ L \in Seq(S) /\ Len(L) = m + Len(rest)
        /\ \A c \in 1..(m + Len(rest)) : L[c] = IF c <= m THEN fresh[c] ELSE rest[c - m]
      BY <2>1, <2>5, ConcatProperties
  <2>7. DOMAIN L = 1..(m + Len(rest))
      BY <2>6, LenProperties
  <2>8. ASSUME NEW c \in DOMAIN L PROVE L[c].part \in Rest(done, n)
    <3>1. CASE c <= m
      <4>1. c \in 1..m /\ L[c] = fresh[c]
          BY <2>2, <2>5, <2>6, <2>7, <3>1
      <4>2. L[c].part = done[n] + c
          BY <2>3, <2>5, <4>1
      <4> QED
          BY <2>2, <4>1, <4>2 DEF Rest
    <3>2. CASE ~(c <= m)
      <4>1. own /\ c = m + 1
          BY <2>2, <2>5, <2>7, <3>2
      <4>2. c - m = 1
          BY <2>2, <4>1
      <4>3. L[c] = Piece(p, flow.chunks[n] + 1)
          BY <2>5, <2>6, <2>7, <3>2, <4>1, <4>2
      <4>4. L[c].part = flow.chunks[n] + 1
          BY <2>3, <4>3
      <4> QED
          BY <4>1, <4>4 DEF Rest, own
    <3> QED
        BY <3>1, <3>2
  <2>9. ASSUME NEW d \in Rest(done, n) PROVE \E c \in DOMAIN L : L[c].part = d
    <3>1. CASE d \in Nat /\ done[n] < d /\ d <= arrived'[n]
      <4>1. d - done[n] \in 1..m /\ done[n] + (d - done[n]) = d
          BY <2>2, <3>1
      <4>2. /\ d - done[n] \in DOMAIN L /\ d - done[n] <= m
            /\ L[d - done[n]] = fresh[d - done[n]]
          BY <2>2, <2>5, <2>6, <2>7, <4>1
      <4>3. L[d - done[n]].part = d
          BY <2>3, <2>5, <4>1, <4>2
      <4> QED
          BY <4>2, <4>3
    <3>2. CASE own /\ d = flow.chunks[n] + 1
      <4>1. m + 1 \in DOMAIN L /\ ~(m + 1 <= m) /\ (m + 1) - m = 1
          BY <2>2, <2>5, <2>7, <3>2
      <4>2. L[m + 1] = Piece(p, flow.chunks[n] + 1)
          BY <2>5, <2>6, <2>7, <3>2, <4>1
      <4> QED
          BY <2>3, <3>2, <4>1, <4>2
    <3> QED
        BY <3>1, <3>2 DEF Rest, own
  <2>10. Marks(L) = Rest(done, n)
      BY <2>8, <2>9 DEF Marks
  <2> QED
      BY <1>4, <2>10 DEF L
<1> QED
    BY <1>2, <1>3, <1>4

\* A flush streams the pieces of the places it looks at, and of no other.
LEMMA FlushedHolds ==
  ASSUME Chosen, NEW R \in SUBSET Responses(flow), NEW list \in Seq(Spots(R)), Distinct(list), NEW ns,
         NEW done, Positions(done)
  PROVE  LET F == Flushed(list, done, ns)
             k == Leading(ns, list)
             m == IF k < Len(list) THEN k + 1 ELSE k
         IN  /\ \A i \in 1..m : Parts(F.shown, list[i]) =
                   Marks(Pieces(Taken(done, ns, SubSeq(SubSeq(list, 1, m), 1, i - 1)), ns, list[i]))
             /\ \A p \in Spots(R) : (\A i \in 1..m : list[i] # p) => Parts(F.shown, p) = {}
<1> DEFINE k == Leading(ns, list)
           m == IF k < Len(list) THEN k + 1 ELSE k
           touched == SubSeq(list, 1, m)
           before(i) == Taken(done, ns, SubSeq(touched, 1, i - 1))
           ss == [i \in DOMAIN touched |-> Pieces(before(i), ns, touched[i])]
           out == Flushed(list, done, ns).shown
<1>1. out = FlattenSeq(ss)
    BY DEF Flushed
<1>2. k \in Nat /\ m \in 0..Len(list)
    BY LeadingIs
<1> HIDE DEF k, m
<1>3. /\ DOMAIN touched = 1..m
      /\ \A i \in 1..m : touched[i] = list[i] /\ i \in DOMAIN list /\ list[i] \in Spots(R)
    BY <1>2
<1> HIDE DEF touched
<1>4. \A i \in 1..m : Positions(before(i))
    BY TakenIs
<1> HIDE DEF before
<1>5. /\ \A i \in 1..m : ss[i] = Pieces(before(i), ns, list[i])
      /\ ss = [i \in 1..m |-> Pieces(before(i), ns, list[i])]
    BY <1>3
<1> HIDE DEF ss
<1>6. ss \in Seq(Seq(Shards(R, assigned))) /\ Len(ss) = m
  <2> DEFINE Q == Seq(Shards(R, assigned))
  <2>1. \A i \in 1..m : Pieces(before(i), ns, list[i]) \in Q
      BY <1>3, <1>4, PiecesOf
  <2> HIDE DEF Q
  <2>2. ss \in Seq(Q) /\ Len(ss) = m
      BY <1>2, <1>5, <2>1
  <2> QED
      BY <2>2 DEF Q
<1>7. PICK row \in [DOMAIN out -> Nat], col \in [DOMAIN out -> Nat] : Joins(out, ss, m, row, col)
    BY <1>1, <1>6, FlattenJoins DEF JoinsSome
<1> HIDE DEF out
<1>8. ASSUME NEW x \in DOMAIN out
      PROVE  /\ row[x] \in 1..m /\ col[x] \in DOMAIN ss[row[x]] /\ out[x] = ss[row[x]][col[x]]
             /\ SamePlace(out[x], list[row[x]])
  <2>1. row[x] \in 1..m /\ col[x] \in DOMAIN ss[row[x]] /\ out[x] = ss[row[x]][col[x]]
      BY <1>7 DEF Joins
  <2>2. ss[row[x]] = Pieces(before(row[x]), ns, list[row[x]]) /\ list[row[x]] \in Spots(R) /\ Positions(before(row[x]))
      BY <1>3, <1>4, <1>5, <2>1
  <2>3. \A c \in DOMAIN ss[row[x]] :
          ss[row[x]][c].by = list[row[x]].by /\ ss[row[x]][c].seg = list[row[x]].seg
      BY <2>2, PiecesOf
  <2> QED
      BY <2>1, <2>3 DEF SamePlace
<1>9. \A p, q \in Spots(R) : SamePlace(p, q) => p = q
  <2> SUFFICES ASSUME NEW p \in Spots(R), NEW q \in Spots(R), SamePlace(p, q) PROVE p = q
      OBVIOUS
  <2>1. p = [by |-> p.by, seg |-> p.seg] /\ q = [by |-> q.by, seg |-> q.seg]
    <3>1. \A z \in Spots(R) : z = [by |-> z.by, seg |-> z.seg]
      <4> TAKE z \in Spots(R)
      <4>1. PICK r \in R : \E i \in DOMAIN flow.template[r] : z = [by |-> r, seg |-> i]
          BY SpotsAre
      <4> QED
          BY <4>1
    <3> QED
        BY <3>1
  <2> QED
      BY <2>1 DEF SamePlace
<1>10. ASSUME NEW x \in DOMAIN out, NEW p \in Spots(R), SamePlace(out[x], p)
       PROVE  list[row[x]] = p
    BY <1>3, <1>8, <1>9, <1>10 DEF SamePlace
<1>11. ASSUME NEW i \in 1..m PROVE Parts(out, list[i]) = Marks(ss[i])
  <2>1. i \in DOMAIN list /\ list[i] \in Spots(R)
      BY <1>3
  <2>2. ASSUME NEW x \in DOMAIN out, SamePlace(out[x], list[i]) PROVE out[x].part \in Marks(ss[i])
    <3>1. list[row[x]] = list[i] /\ row[x] \in DOMAIN list
        BY <1>3, <1>8, <1>10, <2>1, <2>2
    <3>2. row[x] = i
        BY <2>1, <3>1 DEF Distinct
    <3> QED
        BY <1>8, <3>2 DEF Marks
  <2>3. ASSUME NEW c \in DOMAIN ss[i]
        PROVE  \E x \in DOMAIN out : SamePlace(out[x], list[i]) /\ out[x].part = ss[i][c].part
    <3>1. PICK x \in DOMAIN out : row[x] = i /\ col[x] = c
        BY <1>7 DEF Joins
    <3> QED
        BY <1>8, <3>1
  <2> QED
      BY <2>2, <2>3 DEF Parts, Marks
<1>12. ASSUME NEW p \in Spots(R), \A i \in 1..m : list[i] # p PROVE Parts(out, p) = {}
    BY <1>8, <1>10, <1>12 DEF Parts
<1>13. /\ \A i \in 1..m : Parts(out, list[i]) = Marks(Pieces(before(i), ns, list[i]))
       /\ \A p \in Spots(R) : (\A i \in 1..m : list[i] # p) => Parts(out, p) = {}
    BY <1>5, <1>11, <1>12
<1> QED
    BY <1>13 DEF out, k, m, before, touched

\* Of the answers in R, one place at most names node n.
Sole(n, R) == \A p, q \in Spots(R) : Segment(p) = Output(n) /\ Segment(q) = Output(n) => p = q

\* What was streamed of source n once its place was left behind: nothing of a
\* skipped one, all its chunks, or the value it ended with.
Final(ns, arr, pl, n, S) ==
  \/ ns[n] = "skipped" /\ S = {}
  \/ flow.chunks[n] > 0 /\ arr[n] = flow.chunks[n] /\ S = 1..flow.chunks[n]
  \/ /\ n \in pl /\ ~(flow.chunks[n] > 0 /\ arr[n] = flow.chunks[n])
     /\ S = 1..arr[n] \union {flow.chunks[n] + 1}

\* Of the places of the answers in R, one that still waits holds what was read
\* of its stream, one left behind all its segment says; and only what a place
\* names is read.
FillsPlace(sh, td, done, ns, arr, pl, R, p) ==
  /\ Segment(p).kind # "node" => Parts(sh, p) = IF Waits(td, p) THEN {} ELSE {0}
  /\ \A n \in graph.nodes : Segment(p) = Output(n) /\ Sole(n, R) =>
       IF Waits(td, p) THEN Parts(sh, p) = 1..done[n] ELSE Final(ns, arr, pl, n, Parts(sh, p))

Fills(sh, td, done, ns, arr, pl, R) ==
  /\ \A p \in Spots(R) : FillsPlace(sh, td, done, ns, arr, pl, R, p)
  /\ \A n \in graph.nodes : done[n] > 0 => \E p \in Spots(R) : Segment(p) = Output(n)

\* What two outputs hold, one behind the other.
LEMMA PartsJoined ==
  ASSUME NEW S, NEW sh \in Seq(S), NEW out \in Seq(S), NEW p
  PROVE  Parts(sh \o out, p) = Parts(sh, p) \union Parts(out, p)
<1> DEFINE a == Len(sh)
           b == Len(out)
           G == sh \o out
<1>1. /\ a \in Nat /\ b \in Nat /\ DOMAIN sh = 1..a /\ DOMAIN out = 1..b
      /\ G \in Seq(S) /\ Len(G) = a + b
      /\ \A i \in 1..(a + b) : G[i] = IF i <= a THEN sh[i] ELSE out[i - a]
    BY ConcatProperties, LenProperties
<1> HIDE DEF a, b, G
<1>2. DOMAIN G = 1..(a + b)
    BY <1>1, LenProperties
<1>3. \A i \in DOMAIN G : (i \in DOMAIN sh /\ G[i] = sh[i]) \/ (i - a \in DOMAIN out /\ G[i] = out[i - a])
    BY <1>1, <1>2
<1>4. \A i \in DOMAIN sh : i \in DOMAIN G /\ G[i] = sh[i]
    BY <1>1, <1>2
<1>5. \A i \in DOMAIN out : a + i \in DOMAIN G /\ G[a + i] = out[i]
  <2> TAKE i \in DOMAIN out
  <2>1. a + i \in 1..(a + b) /\ ~(a + i <= a) /\ (a + i) - a = i
      BY <1>1
  <2> QED
      BY <1>1, <1>2, <2>1
<1>6. Parts(G, p) \subseteq Parts(sh, p) \union Parts(out, p)
    BY <1>3 DEF Parts
<1>7. Parts(sh, p) \subseteq Parts(G, p)
    BY <1>4 DEF Parts
<1>8. Parts(out, p) \subseteq Parts(G, p)
    BY <1>5 DEF Parts
<1> QED
    BY <1>6, <1>7, <1>8 DEF G

\* Looking at other places leaves the stream that only one place names.
LEMMA TakenOfOthers ==
  ASSUME NEW R, NEW list \in Seq(Spots(R)), Distinct(list), NEW n \in graph.nodes, Sole(n, R),
         NEW i \in DOMAIN list, Segment(list[i]) = Output(n), NEW ns, NEW done,
         NEW L, \A j \in DOMAIN L : \E h \in DOMAIN list : h # i /\ L[j] = list[h]
  PROVE  Taken(done, ns, L)[n] = done[n]
<1>1. \A j \in DOMAIN list : list[j] \in Spots(R)
    OBVIOUS
<1>2. ASSUME NEW j \in DOMAIN L, Segment(L[j]) = Output(n) PROVE FALSE
  <2>1. PICK h \in DOMAIN list : h # i /\ L[j] = list[h]
      OBVIOUS
  <2>2. list[h] = list[i]
      BY <1>1, <1>2, <2>1 DEF Sole
  <2> QED
      BY <2>1, <2>2 DEF Distinct
<1> QED
    BY <1>2 DEF Taken

\* A flush fills the places it leaves behind, and those it reaches as far as
\* their stream goes.
LEMMA FlushFills ==
  ASSUME Chosen, NEW R \in SUBSET Responses(flow), NEW list \in Seq(Spots(R)), Distinct(list), NEW ns,
         NEW done, Positions(done), NEW sh, Told(sh, R),
         Fills(sh, list, done, ns, arrived', pool', R),
         \A n \in graph.nodes : ns[n] = "skipped" => done[n] = 0
  PROVE  LET F == Flushed(list, done, ns)
         IN  Fills(sh \o F.shown, F.todo, F.read, ns, arrived', pool', R)
<1> DEFINE k == Leading(ns, list)
           m == IF k < Len(list) THEN k + 1 ELSE k
           touched == SubSeq(list, 1, m)
           F == Flushed(list, done, ns)
           before(i) == Taken(done, ns, SubSeq(touched, 1, i - 1))
           G == sh \o F.shown
<1>1. /\ F.todo = SubSeq(list, k + 1, Len(list)) /\ F.read = Taken(done, ns, touched)
      /\ F.shown \in Seq(Shards(R, assigned)) /\ sh \in Seq(Shards(R, assigned))
    BY FlushedIs DEF Told
<1>2. /\ \A i \in 1..m : Parts(F.shown, list[i]) = Marks(Pieces(before(i), ns, list[i]))
      /\ \A p \in Spots(R) : (\A i \in 1..m : list[i] # p) => Parts(F.shown, p) = {}
    BY FlushedHolds
<1>3. /\ k \in 0..Len(list) /\ Len(list) \in Nat /\ DOMAIN list = 1..Len(list)
      /\ \A i \in 1..k : Complete(ns, list[i])
      /\ k < Len(list) => ~Complete(ns, list[k + 1])
      /\ \A i \in DOMAIN list : list[i] \in Spots(R)
    BY LeadingIs
<1>4. m \in 0..Len(list) /\ k <= m /\ m <= k + 1 /\ (m = k + 1 => k < Len(list)) /\ (m = k => ~(k < Len(list)))
    BY <1>3
<1>5. \A p : Parts(G, p) = Parts(sh, p) \union Parts(F.shown, p)
  <2> DEFINE S == Shards(R, assigned)
             out == F.shown
  <2> HIDE DEF S, out
  <2>1. sh \in Seq(S) /\ out \in Seq(S)
      BY <1>1 DEF S, out
  <2>2. \A p : Parts(sh \o out, p) = Parts(sh, p) \union Parts(out, p)
      BY <2>1, PartsJoined
  <2> QED
      BY <2>2 DEF out
<1> HIDE DEF k, m, G, F
<1>6. \A p : Waits(F.todo, p) <=> \E i \in DOMAIN list : k < i /\ list[i] = p
  <2>1. /\ DOMAIN F.todo = 1..(Len(list) - k)
        /\ \A j \in DOMAIN F.todo : F.todo[j] = list[k + j] /\ k + j \in DOMAIN list /\ k < k + j
      BY <1>1, <1>3
  <2>2. \A i \in DOMAIN list : k < i => i - k \in DOMAIN F.todo /\ F.todo[i - k] = list[i]
    <3> TAKE i \in DOMAIN list
    <3> HAVE k < i
    <3>1. i - k \in 1..(Len(list) - k) /\ k + (i - k) = i
        BY <1>3
    <3> QED
        BY <2>1, <3>1
  <2> QED
      BY <2>1, <2>2 DEF Waits
<1>7. /\ DOMAIN touched = 1..m
      /\ \A i \in 1..m : touched[i] = list[i] /\ i \in DOMAIN list
      /\ \A i \in 1..m : \A j \in DOMAIN SubSeq(touched, 1, i - 1) :
           j \in DOMAIN list /\ j # i /\ SubSeq(touched, 1, i - 1)[j] = list[j]
    BY <1>3, <1>4
<1> HIDE DEF touched
<1>8. \A n \in graph.nodes : done[n] \in Nat /\ arrived'[n] \in Nat /\ done[n] <= arrived'[n]
    BY DEF Positions
<1>9. ASSUME NEW i \in 1..m
      PROVE  /\ Segment(list[i]).kind # "node" => Parts(F.shown, list[i]) = {0}
             /\ \A n \in graph.nodes : Segment(list[i]) = Output(n) /\ Sole(n, R) =>
                  Parts(F.shown, list[i]) = IF Passes(ns, list[i]) THEN {} ELSE Rest(done, n)
  <2>1. i \in DOMAIN list /\ list[i] \in Spots(R) /\ Positions(before(i))
      BY <1>3, <1>7, TakenIs
  <2>2. Parts(F.shown, list[i]) =
          IF Segment(list[i]).kind # "node" THEN {0}
          ELSE IF Passes(ns, list[i]) THEN {} ELSE Rest(before(i), Segment(list[i]).node)
      BY <1>2, <2>1, PiecesHold
  <2>3. ASSUME NEW n \in graph.nodes, Segment(list[i]) = Output(n), Sole(n, R)
        PROVE  /\ Segment(list[i]).kind = "node" /\ Segment(list[i]).node = n
               /\ Rest(before(i), n) = Rest(done, n)
    <3>1. before(i)[n] = done[n]
      <4> DEFINE L == SubSeq(touched, 1, i - 1)
      <4>1. \A j \in DOMAIN L : \E h \in DOMAIN list : h # i /\ L[j] = list[h]
          BY <1>7
      <4> HIDE DEF L
      <4>2. Taken(done, ns, L)[n] = done[n]
          BY <2>1, <2>3, <4>1, TakenOfOthers
      <4> QED
          BY <4>2 DEF L
    <3> QED
        BY <2>3, <3>1 DEF Rest, Output
  <2> QED
      BY <2>2, <2>3
<1>10. ASSUME NEW n \in graph.nodes
       PROVE  1..done[n] \union Rest(done, n) =
                1..arrived'[n] \union {c \in {flow.chunks[n] + 1} : n \in pool' /\ ~Closed(n)}
    BY <1>8 DEF Rest
<1>11. ASSUME NEW p \in Spots(R), \A i \in 1..m : list[i] # p
       PROVE  FillsPlace(G, F.todo, F.read, ns, arrived', pool', R, p)
  <2>1. FillsPlace(sh, list, done, ns, arrived', pool', R, p)
      BY DEF Fills
  <2>2. Parts(G, p) = Parts(sh, p)
      BY <1>2, <1>5, <1>11
  <2>3. \A i \in DOMAIN list : list[i] = p => k < i
      BY <1>3, <1>4, <1>11
  <2>4. Waits(F.todo, p) <=> Waits(list, p)
      BY <1>6, <2>3 DEF Waits
  <2>5. ASSUME NEW n \in graph.nodes, Segment(p) = Output(n), Sole(n, R), Waits(list, p)
        PROVE  F.read[n] = done[n]
    <3>1. PICK i \in DOMAIN list : list[i] = p
        BY <2>5 DEF Waits
    <3>2. \A j \in DOMAIN touched : \E h \in DOMAIN list : h # i /\ touched[j] = list[h]
        BY <1>7, <1>11, <3>1
    <3> QED
        BY <1>1, <2>5, <3>1, <3>2, TakenOfOthers
  <2> QED
      BY <2>1, <2>2, <2>4, <2>5 DEF FillsPlace
<1>12. ASSUME NEW i \in 1..m
       PROVE  FillsPlace(G, F.todo, F.read, ns, arrived', pool', R, list[i])
  <2> DEFINE p == list[i]
  <2>1. i \in DOMAIN list /\ p \in Spots(R) /\ Waits(list, p) /\ i \in 1..Len(list)
      BY <1>3, <1>7 DEF Waits
  <2>2. FillsPlace(sh, list, done, ns, arrived', pool', R, p)
      BY <2>1 DEF Fills
  <2>3. Waits(F.todo, p) <=> k < i
      BY <1>6, <2>1 DEF Distinct
  <2>4. /\ Segment(p).kind # "node" => Parts(sh, p) = {} /\ Parts(G, p) = {0}
        /\ \A n \in graph.nodes : Segment(p) = Output(n) /\ Sole(n, R) =>
             Parts(G, p) = 1..done[n] \union (IF Passes(ns, p) THEN {} ELSE Rest(done, n))
      BY <1>5, <1>9, <2>1, <2>2 DEF FillsPlace
  <2> HIDE DEF p
  <2>5. CASE i <= k
    <3>1. Complete(ns, p) /\ ~(k < i) /\ ~Waits(F.todo, p)
      <4>1. i \in 1..k /\ ~(k < i)
          BY <1>3, <2>1, <2>5
      <4> QED
          BY <1>3, <2>3, <4>1 DEF p
    <3>2. ASSUME NEW n \in graph.nodes, Segment(p) = Output(n), Sole(n, R)
          PROVE  Final(ns, arrived', pool', n, Parts(G, p))
      <4>1. Segment(p).kind = "node" /\ Segment(p).node = n
          BY <3>2 DEF Output
      <4>2. CASE Passes(ns, p)
        <5>1. ns[n] = "skipped" /\ done[n] = 0
            BY <4>1, <4>2 DEF Passes
        <5>2. 1..done[n] = {}
            BY <5>1
        <5> QED
            BY <2>4, <3>2, <4>2, <5>1, <5>2 DEF Final
      <4>3. CASE ~Passes(ns, p)
        <5>1. Parts(G, p) = 1..arrived'[n] \union {c \in {flow.chunks[n] + 1} : n \in pool' /\ ~Closed(n)}
            BY <1>10, <2>4, <3>2, <4>3
        <5>2. Closed(n) \/ n \in pool'
            BY <3>1, <4>1, <4>3 DEF Complete
        <5>3. CASE Closed(n)
            BY <5>1, <5>3 DEF Closed, Final
        <5>4. CASE ~Closed(n)
            BY <5>1, <5>2, <5>4 DEF Closed, Final
        <5> QED
            BY <5>3, <5>4
      <4> QED
          BY <4>2, <4>3
    <3> QED
        BY <2>4, <3>1, <3>2 DEF FillsPlace, p
  <2>6. CASE ~(i <= k)
    <3>1. k < i /\ i = k + 1 /\ k < Len(list) /\ Waits(F.todo, p) /\ ~Complete(ns, p)
      <4>1. k < i /\ i = k + 1 /\ k < Len(list)
          BY <1>3, <1>4, <2>1, <2>6
      <4> QED
          BY <1>3, <2>3, <4>1 DEF p
    <3>2. Segment(p).kind = "node" /\ ~Passes(ns, p) /\ Segment(p).node \notin pool'
        BY <3>1 DEF Complete
    <3>3. ASSUME NEW n \in graph.nodes, Segment(p) = Output(n), Sole(n, R)
          PROVE  Parts(G, p) = 1..F.read[n]
      <4>1. n \notin pool'
          BY <3>2, <3>3 DEF Output
      <4>2. Parts(G, p) = 1..arrived'[n]
          BY <1>10, <2>4, <3>2, <3>3, <4>1
      <4>3. i \in DOMAIN touched /\ touched[i] = p
          BY <1>7 DEF p
      <4>4. F.read[n] = arrived'[n]
          BY <1>1, <3>2, <3>3, <4>3, TakenIs
      <4> QED
          BY <4>2, <4>4
    <3> QED
        BY <3>1, <3>2, <3>3 DEF FillsPlace, p
  <2> QED
      BY <2>5, <2>6
<1>13. \A p \in Spots(R) : FillsPlace(G, F.todo, F.read, ns, arrived', pool', R, p)
    BY <1>11, <1>12
<1>14. ASSUME NEW n \in graph.nodes, F.read[n] > 0
       PROVE  \E p \in Spots(R) : Segment(p) = Output(n)
  <2>1. CASE done[n] > 0
      BY <2>1 DEF Fills
  <2>2. CASE ~(done[n] > 0)
    <3>1. F.read[n] # done[n]
        BY <1>14, <2>2
    <3>2. \E j \in DOMAIN touched : Segment(touched[j]) = Output(n)
        BY <1>1, <3>1 DEF Taken
    <3> QED
        BY <1>3, <1>7, <3>2
  <2> QED
      BY <2>1, <2>2
<1>15. Fills(G, F.todo, F.read, ns, arrived', pool', R)
    BY <1>13, <1>14 DEF Fills
<1> QED
    BY <1>15 DEF F, G

\* A skipped node stays skipped, a whole stream whole and a value in the pool;
\* so what is filled stays so.
LEMMA FillsLater ==
  ASSUME NEW sh, NEW td, NEW done, NEW ns, NEW arr, NEW pl, NEW R, NEW ms, NEW brr, NEW ql,
         Fills(sh, td, done, ns, arr, pl, R),
         \A n \in graph.nodes :
           /\ ns[n] = "skipped" => ms[n] = "skipped"
           /\ arr[n] = flow.chunks[n] => brr[n] = arr[n]
           /\ n \in pl => n \in ql /\ brr[n] = arr[n]
  PROVE  Fills(sh, td, done, ms, brr, ql, R)
<1>1. ASSUME NEW n \in graph.nodes, NEW S, Final(ns, arr, pl, n, S)
      PROVE  Final(ms, brr, ql, n, S)
    BY <1>1 DEF Final
<1> QED
    BY <1>1 DEF Fills, FillsPlace

\* Places in line are distinct.
LEMMA LineIsDistinct ==
  ASSUME Chosen, NEW R \in SUBSET Responses(flow), NEW td \in Seq(Spots(R)), NEW rank, \A r \in R : rank[r] \in Nat,
         \A i, j \in DOMAIN td : i < j => Earlier(td[i], td[j], rank)
  PROVE  Distinct(td)
<1>1. \A i \in DOMAIN td : td[i].by \in R /\ td[i].seg \in Nat
  <2> TAKE i \in DOMAIN td
  <2>1. td[i] \in Spots(R)
      OBVIOUS
  <2> QED
      BY <2>1, SegmentsTyped
<1> QED
    BY <1>1 DEF Distinct, Earlier

\* Answers that begin are told apart from those that have: nothing of theirs
\* was streamed, and nothing was read of what they alone name.
LEMMA FillsMore ==
  ASSUME Chosen, NEW R \in SUBSET Responses(flow), NEW B \in SUBSET Responses(flow), R \intersect B = {},
         NEW td \in Seq(Spots(R)), NEW new \in Seq(Spots(B)), \A p \in Spots(B) : Waits(new, p),
         NEW sh, Told(sh, R), NEW done \in [graph.nodes -> Nat], NEW ns, NEW arr, NEW pl,
         Fills(sh, td, done, ns, arr, pl, R)
  PROVE  Fills(sh, td \o new, done, ns, arr, pl, R \union B)
<1> DEFINE C == R \union B
           a == Len(td)
           b == Len(new)
           G == td \o new
<1>1. Spots(C) = Spots(R) \union Spots(B)
    BY DEF Spots
<1>2. /\ \A p \in Spots(R) : p.by \in R
      /\ \A p \in Spots(B) : p.by \in B
      /\ Spots(R) \intersect Spots(B) = {}
  <2>1. /\ \A p \in Spots(R) : p.by \in R
        /\ \A p \in Spots(B) : p.by \in B
      BY SegmentsTyped
  <2> QED
      BY <2>1
<1>3. \A i \in DOMAIN sh : sh[i].by \in R
  <2>1. sh \in Seq(Shards(R, assigned))
      BY DEF Told
  <2>2. \A x \in Shards(R, assigned) : x.by \in R
      BY DEF Shards
  <2> HIDE DEF Shards
  <2> QED
      BY <2>1, <2>2
<1>4. \A p : Waits(G, p) <=> Waits(td, p) \/ Waits(new, p)
  <2> DEFINE S == Spots(C)
  <2>1. td \in Seq(S) /\ new \in Seq(S)
    <3>1. Spots(R) \subseteq S /\ Spots(B) \subseteq S
        BY <1>1
    <3> HIDE DEF S
    <3> QED
        BY <3>1
  <2> HIDE DEF S
  <2>2. /\ a \in Nat /\ b \in Nat /\ DOMAIN td = 1..a /\ DOMAIN new = 1..b
        /\ G \in Seq(S) /\ Len(G) = a + b
        /\ \A i \in 1..(a + b) : G[i] = IF i <= a THEN td[i] ELSE new[i - a]
      BY <2>1, ConcatProperties, LenProperties
  <2> HIDE DEF a, b, G
  <2>3. DOMAIN G = 1..(a + b)
      BY <2>2, LenProperties
  <2>4. \A i \in DOMAIN G : (i \in DOMAIN td /\ G[i] = td[i]) \/ (i - a \in DOMAIN new /\ G[i] = new[i - a])
      BY <2>2, <2>3
  <2>5. \A i \in DOMAIN td : i \in DOMAIN G /\ G[i] = td[i]
      BY <2>2, <2>3
  <2>6. \A i \in DOMAIN new : a + i \in DOMAIN G /\ G[a + i] = new[i]
    <3> TAKE i \in DOMAIN new
    <3>1. a + i \in 1..(a + b) /\ ~(a + i <= a) /\ (a + i) - a = i
        BY <2>2
    <3> QED
        BY <2>2, <2>3, <3>1
  <2> QED
      BY <2>4, <2>5, <2>6 DEF Waits
<1> HIDE DEF a, b, G
<1>5. \A n : Sole(n, C) => Sole(n, R)
    BY <1>1 DEF Sole
<1>6. ASSUME NEW p \in Spots(R) PROVE FillsPlace(sh, G, done, ns, arr, pl, C, p)
  <2>1. Waits(G, p) <=> Waits(td, p)
    <3>1. \A j \in DOMAIN new : new[j] \in Spots(B)
        OBVIOUS
    <3> QED
        BY <1>2, <1>4, <3>1 DEF Waits
  <2> QED
      BY <1>5, <2>1 DEF Fills, FillsPlace
<1>7. ASSUME NEW p \in Spots(B) PROVE FillsPlace(sh, G, done, ns, arr, pl, C, p)
  <2>1. Waits(G, p)
      BY <1>4
  <2>2. Parts(sh, p) = {}
    <3>1. p.by \notin R
        BY <1>2
    <3> QED
        BY <1>3, <3>1 DEF Parts, SamePlace
  <2>3. ASSUME NEW n \in graph.nodes, Segment(p) = Output(n), Sole(n, C)
        PROVE  1..done[n] = {}
    <3>1. ~(done[n] > 0)
      <4> SUFFICES ASSUME done[n] > 0 PROVE FALSE
          OBVIOUS
      <4>1. PICK q \in Spots(R) : Segment(q) = Output(n)
          BY DEF Fills
      <4>2. q = p
          BY <1>1, <2>3, <4>1 DEF Sole
      <4> QED
          BY <1>2, <4>1, <4>2
    <3>2. done[n] = 0
        BY <3>1
    <3> QED
        BY <3>2
  <2> QED
      BY <2>1, <2>2, <2>3 DEF FillsPlace
<1>8. \A n \in graph.nodes : done[n] > 0 => \E p \in Spots(C) : Segment(p) = Output(n)
    BY <1>1 DEF Fills
<1> QED
    BY <1>1, <1>6, <1>7, <1>8 DEF Fills, G

\* The sessions of the answers that begin hold every place of theirs once.
LEMMA SessionsHold ==
  ASSUME Chosen, NEW B \in SUBSET Responses(flow), NEW order \in SetToSeqs(B)
  PROVE  LET new == FlattenSeq([i \in DOMAIN order |-> Session(order[i])])
         IN  /\ new \in Seq(Spots(B)) /\ Distinct(new)
             /\ \A p \in Spots(B) : Waits(new, p)
<1> DEFINE c == Cardinality(B)
           ss == [i \in DOMAIN order |-> Session(order[i])]
           new == FlattenSeq(ss)
<1>1. IsFiniteSet(B) /\ c \in Nat
  <2>1. IsFiniteSet(Responses(flow))
      BY FlowsAreWellFormed DEF Chosen
  <2> QED
      BY <2>1, FS_Subset, FS_CardinalityType
<1>2. /\ order \in [1..c -> B] /\ \A i, j \in 1..c : i # j => order[i] # order[j]
      /\ DOMAIN order = 1..c
    BY DEF SetToSeqs
<1>3. IsFiniteSet(1..c) /\ Cardinality(1..c) = c
  <2>1. 1 \in Int /\ c \in Int
      BY <1>1
  <2>2. IsFiniteSet(1..c) /\ Cardinality(1..c) = IF 1 > c THEN 0 ELSE c - 1 + 1
      BY <2>1, FS_Interval
  <2>3. (IF 1 > c THEN 0 ELSE c - 1 + 1) = c
      BY <1>1
  <2> QED
      BY <2>2, <2>3
<1>4. order \in Seq(B)
  <2> HIDE DEF c
  <2> QED
      BY <1>1, <1>2
<1>5. \A r \in B : \E i \in DOMAIN order : order[i] = r
  <2>1. order \in Injection(1..c, B)
      BY <1>2 DEF Injection, IsInjective
  <2>2. order \in Surjection(1..c, B)
      BY <1>1, <1>3, <2>1, FS_Injection
  <2> QED
      BY <1>2, <2>2 DEF Surjection
<1> HIDE DEF c
<1> DEFINE rank == [r \in B |-> CHOOSE i \in 1..c : order[i] = r]
<1>6. /\ \A i \in DOMAIN order : rank[order[i]] = 0 + i
      /\ \A r \in B : rank[r] \in Nat
  <2>1. \A r \in B : rank[r] \in 1..c /\ order[rank[r]] = r
      BY <1>2, <1>5
  <2>2. \A i \in 1..c : rank[order[i]] = i
      BY <1>2, <2>1
  <2> HIDE DEF rank
  <2> QED
      BY <1>1, <1>2, <2>1, <2>2
<1> HIDE DEF rank
<1>7. new \in Seq(Spots(B)) /\ \A k, l \in DOMAIN new : k < l => Earlier(new[k], new[l], rank)
    BY <1>4, <1>6, SessionsJoined
<1>8. Distinct(new)
  <2> HIDE DEF new
  <2> QED
      BY <1>6, <1>7, LineIsDistinct
<1>9. JoinsSome(new, ss, Len(ss)) /\ Len(ss) = c /\ DOMAIN ss = 1..c
  <2> DEFINE S == Spots(B)
             Q == Seq(S)
  <2>1. \A i \in 1..c : Session(order[i]) \in Q
      BY <1>2, SessionListed
  <2> HIDE DEF Q
  <2>2. ss \in Seq(Q) /\ Len(ss) = c /\ DOMAIN ss = 1..c
      BY <1>1, <1>2, <2>1
  <2> HIDE DEF S, ss
  <2>3. JoinsSome(FlattenSeq(ss), ss, Len(ss))
      BY <2>2, FlattenJoins DEF Q
  <2> QED
      BY <2>2, <2>3
<1>10. PICK row \in [DOMAIN new -> Nat], col \in [DOMAIN new -> Nat] : Joins(new, ss, c, row, col)
    BY <1>9 DEF JoinsSome
<1>11. \A i \in 1..c : ss[i] = Session(order[i])
    BY <1>2
<1> HIDE DEF new, ss
<1>12. ASSUME NEW p \in Spots(B) PROVE Waits(new, p)
  <2>1. PICK r \in B : \E x \in DOMAIN flow.template[r] : p = [by |-> r, seg |-> x]
      BY SpotsAre
  <2>2. PICK x \in DOMAIN flow.template[r] : p = [by |-> r, seg |-> x]
      BY <2>1
  <2>3. PICK i \in 1..c : order[i] = r
      BY <1>2, <1>5
  <2>4. x \in DOMAIN ss[i] /\ ss[i][x] = p
    <3>1. ss[i] = Session(r)
        BY <1>11, <2>3
    <3>2. x \in DOMAIN Session(r) /\ Session(r)[x] = [by |-> r, seg |-> x]
        BY <2>2 DEF Session
    <3> QED
        BY <2>2, <3>1, <3>2
  <2>5. PICK k \in DOMAIN new : row[k] = i /\ col[k] = x
      BY <1>10, <2>4 DEF Joins
  <2>6. new[k] = p
      BY <1>10, <2>4, <2>5 DEF Joins
  <2> QED
      BY <2>6 DEF Waits
<1> QED
    BY <1>7, <1>8, <1>12 DEF new, ss

\* The first place a flush leaves is one that is not complete.
LEMMA FlushStops ==
  ASSUME NEW S, NEW list \in Seq(S), NEW ns, NEW done
  PROVE  LET F == Flushed(list, done, ns)
         IN  F.todo # <<>> => F.todo[1] \in S /\ ~Complete(ns, F.todo[1])
<1> DEFINE k == Leading(ns, list)
           td == SubSeq(list, k + 1, Len(list))
<1>1. Flushed(list, done, ns).todo = td
    BY DEF Flushed
<1>2. /\ k \in 0..Len(list) /\ Len(list) \in Nat
      /\ k < Len(list) => ~Complete(ns, list[k + 1])
    BY LeadingIs
<1> HIDE DEF k
<1>3. td # <<>> => k < Len(list) /\ td[1] = list[k + 1] /\ list[k + 1] \in S
  <2>1. k < Len(list) => Len(td) = Len(list) - k /\ td[1] = list[k + 1] /\ list[k + 1] \in S
      BY <1>2
  <2>2. ~(k < Len(list)) => td = <<>>
      BY <1>2
  <2> QED
      BY <2>1, <2>2
<1> HIDE DEF td
<1> QED
    BY <1>1, <1>2, <1>3

\* What begins is streamed as far as it goes, or waits behind the first place
\* there is.
LEMMA ProceedFills ==
  ASSUME Chosen, NEW R, R = Responses(flow) \ pending, pending \subseteq Responses(flow),
         NEW first, first.todo \in Seq(Spots(R)), Positions(first.read), Told(first.shown, R),
         Told(shown, R), Proceed(first),
         Fills(shown \o first.shown, first.todo, first.read, nodeState', arrived', pool', R),
         \A n \in graph.nodes : nodeState'[n] = "skipped" => first.read[n] = 0
  PROVE  LET C == R \union Reachable(edgeState')
         IN  /\ pending' = pending \ Reachable(edgeState')
             /\ Reachable(edgeState') \subseteq pending
             /\ Fills(shown', todo', read', nodeState', arrived', pool', C)
             /\ todo' # <<>> =>
                  \/ first.todo # <<>> /\ todo'[1] = first.todo[1]
                  \/ first.todo = <<>> /\ todo'[1] \in Spots(C) /\ ~Complete(nodeState', todo'[1])
<1> DEFINE B == Reachable(edgeState')
           C == R \union B
           sh == shown \o first.shown
<1>1. B \subseteq pending /\ B \subseteq Responses(flow) /\ C \subseteq Responses(flow) /\ R \intersect B = {}
    BY DEF Reachable
<1>2. PICK order \in SetToSeqs(B) :
        LET new    == FlattenSeq([i \in DOMAIN order |-> Session(order[i])])
            second == Queued(first, new)
        IN  /\ pending' = pending \ B
            /\ todo' = second.todo
            /\ read' = second.read
            /\ shown' = shown \o first.shown \o second.shown
    BY DEF Proceed
<1> DEFINE new == FlattenSeq([i \in DOMAIN order |-> Session(order[i])])
           second == Queued(first, new)
<1> HIDE DEF B
<1>3. new \in Seq(Spots(B)) /\ Distinct(new) /\ \A p \in Spots(B) : Waits(new, p)
    BY <1>1, SessionsHold
<1>4. todo' = second.todo /\ read' = second.read /\ shown' = sh \o second.shown
    BY <1>2
<1> HIDE DEF new
<1>5. Told(sh, R) /\ Told(sh, C)
    BY ToldJoined, ToldOfMore
<1>6. Spots(C) = Spots(R) \union Spots(B)
    BY DEF Spots
<1>7. new \in Seq(Spots(C)) /\ first.todo \in Seq(Spots(C))
  <2> DEFINE X == Spots(B)
             Y == Spots(C)
             Z == Spots(R)
  <2>1. X \subseteq Y /\ Z \subseteq Y /\ new \in Seq(X) /\ first.todo \in Seq(Z)
      BY <1>3, <1>6
  <2> HIDE DEF X, Y, Z
  <2>2. new \in Seq(Y) /\ first.todo \in Seq(Y)
      BY <2>1
  <2> QED
      BY <2>2 DEF Y
<1> HIDE DEF sh
<1>8. Fills(sh, first.todo \o new, first.read, nodeState', arrived', pool', C)
  <2>1. first.read \in [graph.nodes -> Nat]
      BY DEF Positions
  <2>2. Fills(sh, first.todo, first.read, nodeState', arrived', pool', R)
      BY DEF sh
  <2>3. R \in SUBSET Responses(flow) /\ B \in SUBSET Responses(flow)
      BY <1>1
  <2> QED
      BY <1>1, <1>3, <1>5, <2>1, <2>2, <2>3, FillsMore
<1>9. CASE first.todo = <<>>
  <2> DEFINE F == Flushed(new, first.read, nodeState')
  <2>1. second = F
      BY <1>9 DEF Queued
  <2>2. first.todo \o new = new
    <3> DEFINE Y == Spots(C)
    <3>1. new \in Seq(Y)
        BY <1>7
    <3> HIDE DEF Y
    <3> QED
        BY <1>9, <3>1
  <2>3. Fills(sh, new, first.read, nodeState', arrived', pool', C)
      BY <1>8, <2>2
  <2>4. Fills(sh \o F.shown, F.todo, F.read, nodeState', arrived', pool', C)
    <3>1. C \in SUBSET Responses(flow)
        BY <1>1
    <3> QED
        BY <1>3, <1>5, <1>7, <2>3, <3>1, FlushFills
  <2>5. F.todo # <<>> => F.todo[1] \in Spots(C) /\ ~Complete(nodeState', F.todo[1])
      BY <1>7, FlushStops
  <2> HIDE DEF F, second, C
  <2>6. /\ Fills(shown', todo', read', nodeState', arrived', pool', C)
        /\ todo' # <<>> => todo'[1] \in Spots(C) /\ ~Complete(nodeState', todo'[1])
      BY <1>4, <2>1, <2>4, <2>5
  <2> QED
      BY <1>1, <1>2, <1>9, <2>6 DEF B, C
<1>10. CASE first.todo # <<>>
  <2>1. second.todo = first.todo \o new /\ second.read = first.read /\ second.shown = <<>>
      BY <1>10 DEF Queued
  <2>2. sh \o <<>> = sh
    <3>1. \A S : \A t \in Seq(S) : t \o <<>> = t
        OBVIOUS
    <3>2. sh \in Seq(Shards(C, assigned))
        BY <1>5 DEF Told
    <3> QED
        BY <3>1, <3>2
  <2>3. (first.todo \o new)[1] = first.todo[1]
    <3> DEFINE Y == Spots(C)
    <3>1. new \in Seq(Y) /\ first.todo \in Seq(Y)
        BY <1>7
    <3> HIDE DEF Y
    <3> QED
        BY <1>10, <3>1
  <2> HIDE DEF second, C
  <2>4. Fills(shown', todo', read', nodeState', arrived', pool', C) /\ todo'[1] = first.todo[1]
      BY <1>4, <1>8, <2>1, <2>2, <2>3
  <2> QED
      BY <1>1, <1>2, <1>10, <2>4 DEF B, C
<1> QED
    BY <1>9, <1>10

(***************************************************************************)
(* The invariant of what is streamed: the places of the answers begun are  *)
(* filled, and the first that waits waits for a node, unless that node     *)
(* ended with nothing to stream.                                           *)
(***************************************************************************)

Begun == Responses(flow) \ pending

Filled == Fills(shown, todo, read, nodeState, arrived, pool, Begun)

\* The place waits for a node that ended without a value or half-way.
Stuck(p) ==
  /\ Segment(p).kind = "node" /\ Ended(Segment(p).node)
  /\ ~Whole(Segment(p).node) /\ Segment(p).node \notin pool

FirstRuns == todo # <<>> => ~Ended(todo[1].by) \/ Stuck(todo[1])

\* Only a node that runs streams, only one that ended has its value in the pool.
Fed ==
  /\ \A n \in graph.nodes : arrived[n] > 0 => nodeState[n] = "taken"
  /\ \A n \in pool : Ended(n)

\* The sources of an answer that runs are decided.
Decided ==
  \A r \in Responses(flow) : nodeState[r] = "taken" =>
    \A n \in graph.nodes : Uses(flow, r, n) => Ended(n) \/ nodeState[n] = "skipped"

Pours == Filled /\ FirstRuns /\ Fed

LEMMA TraversedDecided == Traversed => Decided
BY SourcesSettled DEF Decided

LEMMA InitPours == Init => Pours
<1> SUFFICES ASSUME Init PROVE Pours
    OBVIOUS
<1>1. /\ todo = <<>> /\ pool = {} /\ Begun = {}
      /\ \A n \in graph.nodes : arrived[n] = 0 /\ read[n] = 0
    BY DEF Init, Begun
<1>2. Spots(Begun) = {}
    BY <1>1 DEF Spots
<1>3. Filled
    BY <1>1, <1>2 DEF Filled, Fills
<1> QED
    BY <1>1, <1>3 DEF Pours, FirstRuns, Fed

\* The same after a step that leaves the flow.
LEMMA FilledNext ==
  ASSUME flow' = flow, graph' = graph,
         Fills(shown', todo', read', nodeState', arrived', pool', Responses(flow) \ pending')
  PROVE  Filled'
<1> DEFINE R == Responses(flow) \ pending'
<1>1. /\ Begun' = R /\ Spots(Begun)' = Spots(R)
      /\ \A p : Segment(p)' = Segment(p)
    BY SameFlow DEF Begun, Spots, Session, Responses
<1>2. \A n : Sole(n, Begun)' <=> Sole(n, R)
    BY <1>1 DEF Sole
<1>3. ASSUME NEW p
      PROVE  FillsPlace(shown, todo, read, nodeState, arrived, pool, Begun, p)' <=>
               FillsPlace(shown', todo', read', nodeState', arrived', pool', R, p)
    BY <1>1, <1>2 DEF FillsPlace, Final, Parts, SamePlace, Waits
<1>4. ASSUME NEW n
      PROVE  (\E p \in Spots(Begun) : Segment(p) = Output(n))' <=> \E p \in Spots(R) : Segment(p) = Output(n)
    BY <1>1 DEF Output
<1> QED
    BY <1>1, <1>3, <1>4 DEF Filled, Fills

StuckNext(p) ==
  LET n == Segment(p).node
  IN  /\ Segment(p).kind = "node" /\ outcome'[n] # Traversal!NotEnded
      /\ ~(flow.chunks[n] > 0 /\ arrived'[n] = flow.chunks[n]) /\ n \notin pool'

LEMMA FirstRunsNext ==
  ASSUME flow' = flow,
         todo' # <<>> => outcome'[todo'[1].by] = Traversal!NotEnded \/ StuckNext(todo'[1])
  PROVE  FirstRuns'
BY DEF FirstRuns, Stuck, StuckNext, Segment, Ended, Whole

\* A place that is not complete although its answer's sources are decided
\* waits for ever.
LEMMA UndecidedOrStuck ==
  ASSUME Chosen, flow' = flow, graph' = graph, NEW R \in SUBSET Responses(flow), NEW p \in Spots(R),
         NEW ns, ~Complete(ns, p),
         \A n \in graph.nodes : Uses(flow, p.by, n) => outcome'[n] # Traversal!NotEnded \/ ns[n] = "skipped"
  PROVE  StuckNext(p)
<1> DEFINE n == Segment(p).node
<1>1. /\ Segment(p).kind = "node" /\ n \notin pool' /\ ~Closed(n) /\ ns[n] # "skipped"
    BY DEF Complete, Passes
<1>2. n \in graph.nodes /\ Segment(p) = Output(n)
    BY <1>1, SegmentsTyped
<1>3. Uses(flow, p.by, n)
  <2>1. PICK r \in R : \E i \in DOMAIN flow.template[r] : p = [by |-> r, seg |-> i]
      BY SpotsAre
  <2>2. p.by = r /\ p.seg \in DOMAIN flow.template[r]
      BY <2>1
  <2>3. Segment(p) \in ToSet(flow.template[p.by])
      BY <2>2 DEF Segment, ToSet
  <2> QED
      BY <1>2, <2>3 DEF Uses, Segments
<1>4. outcome'[n] # Traversal!NotEnded
    BY <1>1, <1>2, <1>3
<1>5. ~(flow.chunks[n] > 0 /\ arrived'[n] = flow.chunks[n])
    BY <1>1 DEF Closed
<1> QED
    BY <1>1, <1>4, <1>5 DEF StuckNext

\* No place waits twice.
LEMMA WaitingIsDistinct ==
  ASSUME Chosen, Streams
  PROVE  Distinct(todo)
<1> DEFINE R == Responses(flow) \ pending
<1>1. todo \in Seq(Spots(R))
    BY DEF Streams, Streaming
<1>2. PICK rank \in [Responses(flow) -> Nat] : \E N \in Nat : Ranks(rank, N)
    BY DEF Streams, InLine
<1>3. \A i, j \in DOMAIN todo : i < j => Earlier(todo[i], todo[j], rank)
    BY <1>2 DEF Ranks, Lined
<1>4. R \in SUBSET Responses(flow) /\ \A r \in R : rank[r] \in Nat
    BY <1>2
<1> HIDE DEF R
<1> QED
    BY <1>1, <1>3, <1>4, LineIsDistinct

\* The flush of the waiting sessions fills them further.
LEMMA FirstFills ==
  ASSUME Traversed, Streams, Pours, Positions(read), NEW first, first = Flushed(todo, read, nodeState),
         \A n \in graph.nodes : arrived[n] = flow.chunks[n] \/ n \in pool => arrived'[n] = arrived[n],
         pool \subseteq pool'
  PROVE  /\ Fills(shown \o first.shown, first.todo, first.read, nodeState, arrived', pool', Begun)
         /\ first.todo # <<>> => first.todo[1] \in Spots(Begun) /\ ~Complete(nodeState, first.todo[1])
<1>1. /\ Chosen /\ Begun \in SUBSET Responses(flow)
      /\ todo \in Seq(Spots(Begun)) /\ Told(shown, Begun)
      /\ arrived \in [graph.nodes -> Nat] /\ read \in [graph.nodes -> Nat]
      /\ \A n \in graph.nodes : read[n] <= arrived[n]
    BY DEF Traversed, Streams, Streaming, Begun
<1>2. Distinct(todo)
    BY <1>1, WaitingIsDistinct
<1>3. Fills(shown, todo, read, nodeState, arrived', pool', Begun)
    BY FillsLater DEF Pours, Filled
<1>4. \A n \in graph.nodes : nodeState[n] = "skipped" => read[n] = 0
  <2> SUFFICES ASSUME NEW n \in graph.nodes, nodeState[n] = "skipped" PROVE read[n] = 0
      OBVIOUS
  <2>1. ~(arrived[n] > 0)
      BY DEF Pours, Fed
  <2> QED
      BY <1>1, <2>1
<1> QED
    BY <1>1, <1>2, <1>3, <1>4, FlushFills, FlushStops

\* A chunk goes to the first place that waits, or stays in its stream.
LEMMA ChunkPours ==
  ASSUME Traversed, Decided, Streams, Pours, NEW n \in graph.nodes, Chunk(n)
  PROVE  Pours'
<1> DEFINE R == Responses(flow) \ pending
           after == Flushed(todo, read, nodeState)
<1>1. /\ flow' = flow /\ graph' = graph /\ nodeState' = nodeState /\ outcome' = outcome
      /\ pending' = pending /\ pool' = pool /\ launched[n] > 0 /\ ~Ended(n)
      /\ arrived[n] < flow.chunks[n] /\ arrived' = [arrived EXCEPT ![n] = @ + 1]
      /\ todo' = after.todo /\ read' = after.read /\ shown' = shown \o after.shown
    BY DEF Chunk, traversal, InFlight, Traversal!InFlight, Ended
<1> HIDE DEF after
<1>2. /\ arrived \in [graph.nodes -> Nat] /\ read \in [graph.nodes -> Nat]
      /\ \A m \in graph.nodes : read[m] <= arrived[m] /\ arrived[m] <= flow.chunks[m]
      /\ flow.chunks \in [graph.nodes -> Nat]
    BY FlowsAreWellFormed DEF Streams, Streaming, Traversed, Chosen
<1>3. \A m \in graph.nodes : arrived'[m] = IF m = n THEN arrived[n] + 1 ELSE arrived[m]
    BY <1>1, <1>2
<1>4. Positions(read)
  <2>1. arrived' \in [graph.nodes -> Nat]
      BY <1>1, <1>2
  <2>2. \A m \in graph.nodes : read[m] <= arrived'[m] /\ arrived'[m] <= flow.chunks[m]
    <3> TAKE m \in graph.nodes
    <3>1. read[m] \in Nat /\ arrived[m] \in Nat /\ flow.chunks[m] \in Nat
        BY <1>2
    <3> QED
        BY <1>1, <1>2, <1>3, <3>1
  <2> QED
      BY <1>2, <2>1, <2>2 DEF Positions
<1>5. \A m \in graph.nodes : arrived[m] = flow.chunks[m] \/ m \in pool => arrived'[m] = arrived[m]
  <2> TAKE m \in graph.nodes
  <2>1. n \notin pool
      BY <1>1 DEF Pours, Fed
  <2>2. arrived[n] # flow.chunks[n]
      BY <1>1, <1>2
  <2> QED
      BY <1>3, <2>1, <2>2
<1>6. /\ Fills(shown', todo', read', nodeState', arrived', pool', Begun)
      /\ todo' # <<>> => todo'[1] \in Spots(Begun) /\ ~Complete(nodeState, todo'[1])
  <2>1. pool \subseteq pool' /\ after = Flushed(todo, read, nodeState)
      BY <1>1 DEF after
  <2>2. /\ Fills(shown \o after.shown, after.todo, after.read, nodeState, arrived', pool', Begun)
        /\ after.todo # <<>> => after.todo[1] \in Spots(Begun) /\ ~Complete(nodeState, after.todo[1])
      BY <1>4, <1>5, <2>1, FirstFills
  <2> QED
      BY <1>1, <2>2
<1>7. Filled'
  <2>1. Begun = Responses(flow) \ pending'
      BY <1>1 DEF Begun
  <2> QED
      BY <1>1, <1>6, <2>1, FilledNext
<1>8. ASSUME todo' # <<>>, outcome'[todo'[1].by] # Traversal!NotEnded
      PROVE  StuckNext(todo'[1])
  <2> DEFINE p == todo'[1]
  <2>1. /\ p \in Spots(Begun) /\ ~Complete(nodeState, p) /\ Chosen
        /\ Begun \in SUBSET Responses(flow)
      BY <1>6, <1>8 DEF Begun, Traversed
  <2>2. p.by \in Responses(flow) /\ p.by \in graph.nodes /\ Ended(p.by)
      BY <1>1, <1>8, <2>1, SegmentsTyped, FlowsAreWellFormed DEF Ended, Chosen
  <2>3. nodeState[p.by] = "taken"
      BY <2>2, TraversalAgrees DEF Traversed
  <2>4. \A m \in graph.nodes : Uses(flow, p.by, m) => outcome'[m] # Traversal!NotEnded \/ nodeState[m] = "skipped"
      BY <1>1, <2>2, <2>3 DEF Decided, Ended
  <2> HIDE DEF p
  <2>5. StuckNext(p)
      BY <1>1, <2>1, <2>4, UndecidedOrStuck
  <2> QED
      BY <2>5 DEF p
<1>9. FirstRuns'
    BY <1>1, <1>8, FirstRunsNext
<1>10. Fed'
  <2>1. nodeState[n] = "taken"
      BY <1>1, TraversalAgrees DEF Traversed
  <2>2. \A m \in graph.nodes : arrived'[m] > 0 => nodeState'[m] = "taken"
      BY <1>1, <1>3, <2>1 DEF Pours, Fed
  <2>3. \A m \in pool' : outcome'[m] # Traversal!NotEnded
      BY <1>1 DEF Pours, Fed, Ended
  <2> QED
      BY <1>1, <2>2, <2>3 DEF Fed, Ended
<1> QED
    BY <1>7, <1>9, <1>10 DEF Pours

\* The end of a node: what its value completes is streamed, then the answers
\* that its edges make certain begin.
LEMMA ProceedPours ==
  ASSUME Traversed, Agreed', Decided, Decided', Streams, Pours, flow' = flow,
         NEW n \in graph.nodes, NEW handle, Traversal!End(n, handle), handle # Traversal!NotEnded,
         arrived' = arrived, assigned' = assigned, pool' = pool \/ pool' = pool \union {n},
         NEW first,
         \/ first = Flushed(todo, read, nodeState)
         \/ first = [todo |-> todo, read |-> read, shown |-> <<>>] /\ n \notin Responses(flow),
         Proceed(first)
  PROVE  Pours'
<1> DEFINE R == Responses(flow) \ pending
           C == R \union Reachable(edgeState')
<1>1. /\ graph' = graph /\ nodeState[n] = "taken" /\ ~Ended(n)
      /\ \A m \in graph.nodes : outcome'[m] # Traversal!NotEnded <=> m = n \/ Ended(m)
  <2>1. /\ outcome' = [outcome EXCEPT ![n] = handle]
        /\ outcome \in [graph.nodes -> Handles \union {Traversal!NotEnded}]
      BY TraversalTyped DEF Traversal!End, Traversed
  <2>2. graph' = graph /\ nodeState[n] = "taken" /\ ~Ended(n)
      BY EndAdvances
  <2>3. \A m \in graph.nodes : outcome'[m] = IF m = n THEN handle ELSE outcome[m]
      BY <2>1
  <2> QED
      BY <2>2, <2>3 DEF Ended
<1>2. /\ pending \subseteq Responses(flow) /\ Responses(flow) \subseteq graph.nodes
      /\ pool \subseteq graph.nodes
      /\ todo \in Seq(Spots(R)) /\ Told(shown, R)
      /\ arrived \in [graph.nodes -> Nat] /\ read \in [graph.nodes -> Nat]
      /\ \A m \in graph.nodes : read[m] <= arrived[m] /\ arrived[m] <= flow.chunks[m]
    BY FlowsAreWellFormed DEF Streams, Streaming, Traversed, Chosen
<1>3. \A m \in graph.nodes : nodeState[m] # "unknown" => nodeState'[m] = nodeState[m]
    BY EndKeepsNodes
<1>4. Positions(read)
    BY <1>2 DEF Positions
<1>5. /\ first.todo \in Seq(Spots(R)) /\ Positions(first.read) /\ Told(first.shown, R)
  <2>1. \E rank : Lined(shown, todo, read, rank)
      BY DEF Streams, InLine, Ranks
  <2>2. Chosen /\ Streaming
      BY DEF Streams, Traversed
  <2>3. \A rank : Lined(shown, todo, read, rank) =>
          first.todo \in Seq(Spots(R)) /\ Positions(first.read) /\ Told(first.shown, R)
    <3> TAKE rank
    <3> HAVE Lined(shown, todo, read, rank)
    <3> QED
        BY <1>4, <2>2, FirstKeeps
  <2> QED
      BY <2>1, <2>3
<1>6. Fills(shown \o first.shown, first.todo, first.read, nodeState, arrived', pool', R)
  <2>1. CASE first = Flushed(todo, read, nodeState)
    <3>1. \A m \in graph.nodes : arrived[m] = flow.chunks[m] \/ m \in pool => arrived'[m] = arrived[m]
        OBVIOUS
    <3>2. pool \subseteq pool'
        OBVIOUS
    <3> QED
        BY <1>4, <2>1, <3>1, <3>2, FirstFills DEF Begun
  <2>2. CASE first = [todo |-> todo, read |-> read, shown |-> <<>>]
    <3>1. shown \o <<>> = shown
      <4>1. \A S : \A t \in Seq(S) : t \o <<>> = t
          OBVIOUS
      <4>2. shown \in Seq(Shards(R, assigned))
          BY <1>2 DEF Told
      <4> QED
          BY <4>1, <4>2
    <3>2. Fills(shown, todo, read, nodeState, arrived, pool, R)
        BY DEF Pours, Filled, Begun
    <3>3. Fills(shown, todo, read, nodeState, arrived', pool', R)
        BY <3>2, FillsLater
    <3> QED
        BY <2>2, <3>1, <3>3
  <2> QED
      BY <2>1, <2>2
<1>7. Fills(shown \o first.shown, first.todo, first.read, nodeState', arrived', pool', R)
    BY <1>3, <1>6, FillsLater
<1>8. \A m \in graph.nodes : nodeState'[m] = "skipped" => first.read[m] = 0
  <2> SUFFICES ASSUME NEW m \in graph.nodes, nodeState'[m] = "skipped" PROVE first.read[m] = 0
      OBVIOUS
  <2>1. ~(arrived[m] > 0)
    <3>1. arrived[m] > 0 => nodeState[m] = "taken"
        BY DEF Pours, Fed
    <3> QED
        BY <1>3, <3>1
  <2>2. first.read[m] \in Nat /\ first.read[m] <= arrived[m]
      BY <1>5 DEF Positions
  <2> QED
      BY <1>2, <2>1, <2>2
<1>9. /\ pending' = pending \ Reachable(edgeState') /\ Reachable(edgeState') \subseteq pending
      /\ Fills(shown', todo', read', nodeState', arrived', pool', C)
      /\ todo' # <<>> =>
           \/ first.todo # <<>> /\ todo'[1] = first.todo[1]
           \/ first.todo = <<>> /\ todo'[1] \in Spots(C) /\ ~Complete(nodeState', todo'[1])
  <2>1. Chosen /\ R = Responses(flow) \ pending
      BY DEF Traversed
  <2> HIDE DEF R
  <2> QED
      BY <1>2, <1>5, <1>7, <1>8, <2>1, ProceedFills DEF C
<1>10. C = Responses(flow) \ pending' /\ C \in SUBSET Responses(flow)
    BY <1>2, <1>9
<1>11. Filled'
    BY <1>1, <1>9, <1>10, FilledNext
<1> HIDE DEF C
<1>12. ASSUME todo' # <<>>, outcome'[todo'[1].by] # Traversal!NotEnded
       PROVE  StuckNext(todo'[1])
  <2> DEFINE p == todo'[1]
  <2>1. CASE first.todo = <<>>
    <3>1. p \in Spots(C) /\ ~Complete(nodeState', p) /\ Chosen
        BY <1>9, <1>12, <2>1 DEF Traversed
    <3>2. p.by \in Responses(flow) /\ p.by \in graph.nodes
        BY <1>2, <1>10, <3>1, SegmentsTyped
    <3>3. nodeState'[p.by] = "taken"
        BY <1>1, <1>12, <3>2 DEF Agreed, Ended
    <3>4. \A m \in graph.nodes : Uses(flow, p.by, m) => outcome'[m] # Traversal!NotEnded \/ nodeState'[m] = "skipped"
      <4>1. \A r \in Responses(flow) : nodeState'[r] = "taken" =>
              \A m \in graph.nodes : Uses(flow, r, m) => outcome'[m] # Traversal!NotEnded \/ nodeState'[m] = "skipped"
          BY <1>1 DEF Decided, Ended, Responses, Uses, Segments
      <4> HIDE DEF p
      <4> QED
          BY <3>2, <3>3, <4>1
    <3> HIDE DEF p
    <3>5. StuckNext(p)
        BY <1>1, <1>10, <3>1, <3>4, UndecidedOrStuck
    <3> QED
        BY <3>5 DEF p
  <2>2. CASE first.todo # <<>> /\ first = Flushed(todo, read, nodeState)
    <3>1. p \in Spots(R) /\ ~Complete(nodeState, p) /\ Chosen
      <4>1. first.todo[1] \in Spots(R) /\ ~Complete(nodeState, first.todo[1])
          BY <1>2, <2>2, FlushStops
      <4> QED
          BY <1>9, <1>12, <2>2, <4>1 DEF Traversed
    <3>2. p.by \in Responses(flow) /\ p.by \in graph.nodes
        BY <1>2, <3>1, SegmentsTyped
    <3>3. nodeState[p.by] = "taken"
      <4>1. p.by = n \/ Ended(p.by)
          BY <1>1, <1>12, <3>2
      <4> QED
          BY <1>1, <3>2, <4>1, TraversalAgrees DEF Traversed
    <3> HIDE DEF p
    <3>4. \A m \in graph.nodes : Uses(flow, p.by, m) => outcome'[m] # Traversal!NotEnded \/ nodeState[m] = "skipped"
        BY <1>1, <3>2, <3>3 DEF Decided
    <3>5. StuckNext(p)
        BY <1>1, <3>1, <3>4, UndecidedOrStuck
    <3> QED
        BY <3>5 DEF p
  <2>3. CASE /\ first.todo # <<>> /\ n \notin Responses(flow)
             /\ first = [todo |-> todo, read |-> read, shown |-> <<>>]
    <3>1. todo # <<>> /\ p = todo[1]
        BY <1>9, <1>12, <2>3
    <3>2. p \in Spots(R) /\ Chosen
        BY <1>2, <3>1 DEF Traversed
    <3>3. p.by \in Responses(flow) /\ p.by \in graph.nodes
        BY <1>2, <3>2, SegmentsTyped
    <3>4. Ended(p.by)
        BY <1>1, <1>12, <2>3, <3>3
    <3>5. Stuck(p)
        BY <3>1, <3>4 DEF Pours, FirstRuns
    <3> HIDE DEF p
    <3>6. Segment(p).kind = "node" /\ Segment(p).node \in graph.nodes
        BY <3>2, <3>5, SegmentsTyped DEF Stuck
    <3>7. Segment(p).node # n
        BY <1>1, <3>5 DEF Stuck
    <3>8. StuckNext(p)
        BY <1>1, <3>5, <3>6, <3>7 DEF Stuck, StuckNext, Whole
    <3> QED
        BY <3>8 DEF p
  <2> QED
      BY <2>1, <2>2, <2>3
<1>13. FirstRuns'
    BY <1>12, FirstRunsNext
<1>14. Fed'
  <2>1. \A m \in graph.nodes : arrived'[m] > 0 => nodeState'[m] = "taken"
      BY <1>3 DEF Pours, Fed
  <2>2. \A m \in pool' : outcome'[m] # Traversal!NotEnded
      BY <1>1, <1>2 DEF Pours, Fed
  <2> QED
      BY <1>1, <2>1, <2>2 DEF Fed, Ended
<1> QED
    BY <1>11, <1>13, <1>14 DEF Pours

\* A step of nodes that run, which streams nothing.
LEMMA NonePours ==
  ASSUME Pours, flow' = flow, graph' = graph, pending' = pending, todo' = todo, read' = read,
         arrived' = arrived, pool' = pool, shown' = shown, outcome' = outcome,
         \A n \in graph.nodes : nodeState[n] # "unknown" => nodeState'[n] = nodeState[n]
  PROVE  Pours'
<1>1. Fills(shown', todo', read', nodeState', arrived', pool', Responses(flow) \ pending')
    BY FillsLater DEF Pours, Filled, Begun
<1>2. Filled'
    BY <1>1, FilledNext
<1>3. FirstRuns' /\ Fed'
    BY DEF Pours, FirstRuns, Fed, Stuck, Segment, Ended, Whole
<1> QED
    BY <1>2, <1>3 DEF Pours

LEMMA NextPours ==
  Traversed /\ Agreed' /\ Decided /\ Decided' /\ Streams /\ Pours /\ [Next]_vars => Pours'
<1> SUFFICES ASSUME Traversed, Agreed', Decided, Decided', Streams, Pours, [Next]_vars PROVE Pours'
    OBVIOUS
<1>1. CASE Start
  <2>1. /\ flow' = flow /\ graph' = graph /\ outcome' = outcome
        /\ pending' = pending /\ todo' = todo /\ read' = read
        /\ arrived' = arrived /\ pool' = pool /\ shown' = shown
      BY <1>1 DEF Start, Traversal!Start, stream
  <2>2. \A n \in graph.nodes : nodeState[n] # "unknown" => nodeState'[n] = nodeState[n]
    <3>1. /\ nodeState' = [nodeState EXCEPT ![graph.root] = "taken"] /\ launched[graph.root] = 0
        BY <1>1 DEF Start, Traversal!Start
    <3>2. /\ nodeState \in [graph.nodes -> States] /\ graph.root \in graph.nodes
          /\ nodeState[graph.root] # "taken"
        BY <3>1, TraversalTyped, TraversalAgrees DEF Traversed, IsWorkflowGraph
    <3>3. nodeState[graph.root] # "skipped"
        BY DEF Traversed, Abs!IInv, Abs!RootNotSkipped
    <3>4. nodeState[graph.root] = "unknown"
        BY <3>2, <3>3 DEF States
    <3> QED
        BY <3>1, <3>2, <3>4
  <2> QED
      BY <2>1, <2>2, NonePours
<1>2. ASSUME NEW n \in graph.nodes, Chunk(n) PROVE Pours'
    BY <1>2, ChunkPours
<1>3. ASSUME NEW n \in graph.nodes, Assign(n) PROVE Pours'
    BY <1>3, NonePours DEF Assign, traversal
<1>4. ASSUME NEW n \in graph.nodes, NEW handle \in HandlesOf(graph, n), Succeed(n, handle) PROVE Pours'
  <2>1. /\ Traversal!End(n, handle) /\ pool' = pool \union {n}
        /\ flow' = flow /\ arrived' = arrived /\ assigned' = assigned
        /\ Proceed(Flushed(todo, read, nodeState))
      BY <1>4 DEF Succeed
  <2>2. handle # Traversal!NotEnded
      BY NotEndedIsNoHandle, DefaultHandles DEF HandlesOf
  <2> QED
      BY <2>1, <2>2, ProceedPours
<1>5. ASSUME NEW n \in graph.nodes, Except(n) PROVE Pours'
  <2> DEFINE first == [todo |-> todo, read |-> read, shown |-> <<>>]
  <2>1. /\ flow' = flow /\ arrived' = arrived /\ assigned' = assigned
        /\ Proceed(first)
        /\ pool' = pool \/ pool' = pool \union {n}
        /\ graph.strategy[n] # "abort"
        /\ \E handle \in {Source, FailBranch} : Traversal!End(n, handle)
      BY <1>5 DEF Except
  <2>2. Source # Traversal!NotEnded /\ FailBranch # Traversal!NotEnded
      BY NotEndedIsNoHandle, DefaultHandles
  <2>3. n \notin Responses(flow)
      BY <2>1, AnswersHaveNoStrategy DEF Traversed, Chosen
  <2>4. PICK handle \in {Source, FailBranch} : Traversal!End(n, handle)
      BY <2>1
  <2> HIDE DEF first
  <2>5. first = [todo |-> todo, read |-> read, shown |-> <<>>]
      BY DEF first
  <2> QED
      BY <2>1, <2>2, <2>3, <2>4, <2>5, ProceedPours
<1>6. CASE UNCHANGED vars
    BY <1>6, NonePours DEF vars, traversal, stream
<1> QED
    BY <1>1, <1>2, <1>3, <1>4, <1>5, <1>6 DEF Next

LEMMA PoursHold == Spec => []Pours
<1>1. Traversed => Decided
    BY TraversedDecided
<1> QED
    BY <1>1, StreamsHold, InitPours, NextPours, PTL DEF Spec

\* Lists that rise one behind the other join to one that rises.
LEMMA FlattenRises ==
  ASSUME NEW ss \in Seq(Seq(Nat \X Nat)), \A i \in DOMAIN ss : Rising(ss[i]),
         \A i, j \in DOMAIN ss : i < j =>
           \A c \in DOMAIN ss[i], d \in DOMAIN ss[j] : Under(ss[i][c], ss[j][d])
  PROVE  /\ FlattenSeq(ss) \in Seq(Nat \X Nat) /\ Rising(FlattenSeq(ss))
         /\ \A x : x \in ToSet(FlattenSeq(ss)) <=> \E i \in DOMAIN ss : x \in ToSet(ss[i])
<1> DEFINE F == FlattenSeq(ss)
           n == Len(ss)
<1>1. F \in Seq(Nat \X Nat) /\ JoinsSome(F, ss, n)
    BY FlattenJoins
<1>2. n \in Nat /\ DOMAIN ss = 1..n
    OBVIOUS
<1> HIDE DEF F, n
<1>3. PICK row \in [DOMAIN F -> Nat], col \in [DOMAIN F -> Nat] : Joins(F, ss, n, row, col)
    BY <1>1 DEF JoinsSome
<1>4. \A k \in DOMAIN F : row[k] \in DOMAIN ss /\ col[k] \in DOMAIN ss[row[k]] /\ F[k] = ss[row[k]][col[k]]
    BY <1>2, <1>3 DEF Joins
<1>5. Rising(F)
  <2> SUFFICES ASSUME NEW k \in DOMAIN F, NEW l \in DOMAIN F, k < l PROVE Under(F[k], F[l])
      BY DEF Rising
  <2>1. row[k] < row[l] \/ (row[k] = row[l] /\ col[k] < col[l])
      BY <1>3 DEF Joins
  <2>2. CASE row[k] < row[l]
      BY <1>4, <2>2
  <2>3. CASE row[k] = row[l] /\ col[k] < col[l]
    <3>1. Rising(ss[row[k]])
        BY <1>4
    <3> QED
        BY <1>4, <2>3, <3>1 DEF Rising
  <2> QED
      BY <2>1, <2>2, <2>3
<1>6. \A x : x \in ToSet(F) <=> \E i \in DOMAIN ss : x \in ToSet(ss[i])
  <2>1. \A k \in DOMAIN F : \E i \in DOMAIN ss : F[k] \in ToSet(ss[i])
      BY <1>4 DEF ToSet
  <2>2. ASSUME NEW i \in DOMAIN ss, NEW c \in DOMAIN ss[i] PROVE ss[i][c] \in ToSet(F)
    <3>1. PICK k \in DOMAIN F : row[k] = i /\ col[k] = c
        BY <1>2, <1>3 DEF Joins
    <3> QED
        BY <1>4, <3>1 DEF ToSet
  <2> QED
      BY <2>1, <2>2 DEF ToSet
<1> QED
    BY <1>1, <1>5, <1>6 DEF F

\* What a segment says, as Answer reads it.
SaidOf(s) ==
  IF s.kind # "node" THEN <<0>>
  ELSE IF nodeState[s.node] = "skipped" THEN <<>>
  ELSE IF Whole(s.node) THEN [c \in 1..flow.chunks[s.node] |-> c]
  ELSE <<flow.chunks[s.node] + 1>>

\* Its parts count up.
LEMMA SaidRises ==
  ASSUME NEW s, s.kind = "node" => flow.chunks[s.node] \in Nat
  PROVE  SaidOf(s) \in Seq(Nat) /\ \A c, d \in DOMAIN SaidOf(s) : c < d => SaidOf(s)[c] < SaidOf(s)[d]
<1>1. CASE s.kind # "node"
  <2>1. SaidOf(s) = <<0>>
      BY <1>1 DEF SaidOf
  <2> QED
      BY <2>1
<1>2. CASE s.kind = "node" /\ nodeState[s.node] = "skipped"
  <2>1. SaidOf(s) = <<>>
      BY <1>2 DEF SaidOf
  <2> QED
      BY <2>1
<1>3. CASE s.kind = "node" /\ nodeState[s.node] # "skipped" /\ Whole(s.node)
  <2> DEFINE n == flow.chunks[s.node]
             L == [c \in 1..n |-> c]
  <2>1. SaidOf(s) = L
      BY <1>3 DEF SaidOf
  <2>2. n \in Nat
      BY <1>3
  <2> HIDE DEF n
  <2>3. L \in Seq(Nat) /\ \A c, d \in DOMAIN L : c < d => L[c] < L[d]
    <3>1. L \in [1..n -> Nat]
        BY <2>2
    <3> QED
        BY <2>2, <3>1
  <2> HIDE DEF L
  <2> QED
      BY <2>1, <2>3
<1>4. CASE s.kind = "node" /\ nodeState[s.node] # "skipped" /\ ~Whole(s.node)
  <2>1. SaidOf(s) = <<flow.chunks[s.node] + 1>>
      BY <1>4 DEF SaidOf
  <2>2. flow.chunks[s.node] + 1 \in Nat
      BY <1>4
  <2> QED
      BY <2>1, <2>2
<1> QED
    BY <1>1, <1>2, <1>3, <1>4

\* The answer as its template and the run say it rises, segment by segment.
LEMMA AnswerRises ==
  ASSUME Chosen, NEW r \in Responses(flow)
  PROVE  /\ Answer(r) \in Seq(Nat \X Nat) /\ Rising(Answer(r))
         /\ \A x : x \in ToSet(Answer(r)) <=>
              \E i \in DOMAIN flow.template[r] : \E c \in ToSet(SaidOf(flow.template[r][i])) : x = <<i, c>>
<1> DEFINE t == flow.template[r]
           marked(i) == [c \in DOMAIN SaidOf(t[i]) |-> <<i, SaidOf(t[i])[c]>>]
           ss == [i \in DOMAIN t |-> marked(i)]
           Q == Nat \X Nat
<1>1. Answer(r) = FlattenSeq(ss)
    BY DEF Answer, SaidOf
<1>2. /\ Len(t) \in Nat /\ DOMAIN t = 1..Len(t)
      /\ \A i \in DOMAIN t : t[i].kind = "node" => flow.chunks[t[i].node] \in Nat
  <2> DEFINE S == {Text, Variable} \union {Output(n) : n \in graph.nodes}
  <2>1. t \in Seq(S) /\ flow.chunks \in [graph.nodes -> Nat]
      BY FlowsAreWellFormed DEF Chosen
  <2>2. \A s \in S : s.kind = "node" => flow.chunks[s.node] \in Nat
      BY <2>1 DEF Text, Variable, Output
  <2> HIDE DEF S, t
  <2> QED
      BY <2>1, <2>2
<1> HIDE DEF t
<1>3. \A i \in DOMAIN t :
        /\ SaidOf(t[i]) \in Seq(Nat)
        /\ \A c, d \in DOMAIN SaidOf(t[i]) : c < d => SaidOf(t[i])[c] < SaidOf(t[i])[d]
    BY <1>2, SaidRises
<1>4. ASSUME NEW i \in DOMAIN t
      PROVE  /\ marked(i) \in Seq(Q) /\ Rising(marked(i))
             /\ \A x : x \in ToSet(marked(i)) <=> \E c \in ToSet(SaidOf(t[i])) : x = <<i, c>>
  <2> DEFINE L == SaidOf(t[i])
             M == marked(i)
  <2>1. /\ L \in Seq(Nat) /\ \A c, d \in DOMAIN L : c < d => L[c] < L[d]
        /\ i \in Nat
      BY <1>2, <1>3
  <2>2. Len(L) \in Nat /\ DOMAIN L = 1..Len(L) /\ \A c \in DOMAIN L : L[c] \in Nat
      BY <2>1
  <2>3. M = [c \in 1..Len(L) |-> <<i, L[c]>>]
      BY <2>2
  <2> HIDE DEF L, M
  <2>4. M \in Seq(Q) /\ DOMAIN M = 1..Len(L)
    <3>1. \A c \in 1..Len(L) : <<i, L[c]>> \in Q
        BY <2>1, <2>2
    <3> HIDE DEF Q
    <3> QED
        BY <2>2, <2>3, <3>1
  <2>5. \A c \in DOMAIN L : M[c] = <<i, L[c]>>
      BY <2>2, <2>3
  <2>6. Rising(M)
      BY <2>1, <2>2, <2>4, <2>5 DEF Rising, Under
  <2>7. \A x : x \in ToSet(M) <=> \E c \in ToSet(L) : x = <<i, c>>
      BY <2>2, <2>4, <2>5 DEF ToSet
  <2> QED
      BY <2>4, <2>6, <2>7 DEF L, M
<1>5. \A i \in DOMAIN t : ss[i] = marked(i)
    OBVIOUS
<1>6. ss \in Seq(Seq(Q)) /\ DOMAIN ss = DOMAIN t
  <2> DEFINE Z == Seq(Q)
  <2>1. \A i \in 1..Len(t) : marked(i) \in Z
      BY <1>2, <1>4
  <2> HIDE DEF Z
  <2>2. ss \in Seq(Z) /\ DOMAIN ss = DOMAIN t
      BY <1>2, <2>1
  <2> QED
      BY <2>2 DEF Z
<1>7. ASSUME NEW i \in DOMAIN t, NEW j \in DOMAIN t, i < j, NEW c \in DOMAIN ss[i], NEW d \in DOMAIN ss[j]
      PROVE  Under(ss[i][c], ss[j][d])
  <2>1. ss[i][c][1] = i /\ ss[j][d][1] = j
      BY <1>5
  <2> QED
      BY <1>7, <2>1 DEF Under
<1> HIDE DEF ss, marked
<1>8. /\ FlattenSeq(ss) \in Seq(Q) /\ Rising(FlattenSeq(ss))
      /\ \A x : x \in ToSet(FlattenSeq(ss)) <=> \E i \in DOMAIN ss : x \in ToSet(ss[i])
    BY <1>4, <1>5, <1>6, <1>7, FlattenRises
<1>9. \A x : x \in ToSet(Answer(r)) <=> \E i \in DOMAIN t : \E c \in ToSet(SaidOf(t[i])) : x = <<i, c>>
  <2>1. \A x : x \in ToSet(Answer(r)) <=> \E i \in DOMAIN t : x \in ToSet(ss[i])
      BY <1>1, <1>6, <1>8
  <2>2. \A i \in DOMAIN t : \A x : x \in ToSet(ss[i]) <=> \E c \in ToSet(SaidOf(t[i])) : x = <<i, c>>
      BY <1>4, <1>5
  <2> QED
      BY <2>1, <2>2
<1> QED
    BY <1>1, <1>8, <1>9 DEF t

\* So does what was streamed of it, for it was streamed in line.
LEMMA StreamedRises ==
  ASSUME Chosen, Streams, NEW r \in Responses(flow)
  PROVE  /\ Streamed(r) \in Seq(Nat \X Nat) /\ Rising(Streamed(r))
         /\ \A x : x \in ToSet(Streamed(r)) <=>
              \E i \in DOMAIN shown : shown[i].by = r /\ x = <<shown[i].seg, shown[i].part>>
<1> DEFINE Q == Nat \X Nat
           mark(i) == IF shown[i].by = r THEN <<<<shown[i].seg, shown[i].part>>>> ELSE <<>>
           ss == [i \in DOMAIN shown |-> mark(i)]
<1>1. Streamed(r) = FlattenSeq(ss)
    BY DEF Streamed
<1>2. /\ Len(shown) \in Nat /\ DOMAIN shown = 1..Len(shown)
      /\ \A i \in DOMAIN shown : <<shown[i].seg, shown[i].part>> \in Q
  <2> DEFINE S == Shards(Responses(flow) \ pending, assigned)
  <2>1. shown \in Seq(S)
      BY DEF Streams, Streaming, Told
  <2>2. \A x \in S : <<x.seg, x.part>> \in Q
      BY DEF Shards
  <2> HIDE DEF S, Q
  <2> QED
      BY <2>1, <2>2
<1>3. PICK rank \in [Responses(flow) -> Nat] :
        \A i, j \in DOMAIN shown : i < j =>
          Earlier(shown[i], shown[j], rank) \/ (SamePlace(shown[i], shown[j]) /\ shown[i].part < shown[j].part)
    BY ShownInLine
<1>4. ASSUME NEW i \in DOMAIN shown
      PROVE  /\ mark(i) \in Seq(Q) /\ Rising(mark(i))
             /\ \A x : x \in ToSet(mark(i)) <=> shown[i].by = r /\ x = <<shown[i].seg, shown[i].part>>
  <2> DEFINE q == <<shown[i].seg, shown[i].part>>
  <2>1. q \in Q
      BY <1>2
  <2> HIDE DEF q, Q
  <2>2. CASE shown[i].by = r
    <3>1. mark(i) = <<q>>
        BY <2>2 DEF q
    <3>2. <<q>> \in Seq(Q) /\ DOMAIN <<q>> = {1} /\ <<q>>[1] = q
        BY <2>1
    <3>3. Rising(<<q>>)
        BY <3>2 DEF Rising
    <3>4. ToSet(<<q>>) = {q}
        BY <3>2 DEF ToSet
    <3> HIDE DEF mark
    <3> QED
        BY <2>2, <3>1, <3>2, <3>3, <3>4 DEF q
  <2>3. CASE shown[i].by # r
    <3>1. mark(i) = <<>>
        BY <2>3
    <3>2. <<>> \in Seq(Q) /\ Rising(<<>>) /\ ToSet(<<>>) = {}
        BY DEF Rising, ToSet
    <3> HIDE DEF mark
    <3> QED
        BY <2>3, <3>1, <3>2
  <2> QED
      BY <2>2, <2>3
<1>5. \A i \in DOMAIN shown : ss[i] = mark(i)
    OBVIOUS
<1>6. ss \in Seq(Seq(Q)) /\ DOMAIN ss = DOMAIN shown
  <2> DEFINE Z == Seq(Q)
  <2>1. \A i \in 1..Len(shown) : mark(i) \in Z
      BY <1>2, <1>4
  <2> HIDE DEF Z, mark
  <2>2. ss \in Seq(Z) /\ DOMAIN ss = DOMAIN shown
      BY <1>2, <2>1
  <2> QED
      BY <2>2 DEF Z
<1>7. ASSUME NEW i \in DOMAIN shown, NEW j \in DOMAIN shown, i < j, NEW c \in DOMAIN ss[i], NEW d \in DOMAIN ss[j]
      PROVE  Under(ss[i][c], ss[j][d])
  <2>1. /\ shown[i].by = r /\ ss[i][c] = <<shown[i].seg, shown[i].part>>
        /\ shown[j].by = r /\ ss[j][d] = <<shown[j].seg, shown[j].part>>
      BY <1>4, <1>5 DEF ToSet
  <2>2. Earlier(shown[i], shown[j], rank) \/ (SamePlace(shown[i], shown[j]) /\ shown[i].part < shown[j].part)
      BY <1>3, <1>7
  <2>3. ~(rank[r] < rank[r])
      BY <1>3
  <2>4. \/ shown[i].seg < shown[j].seg
        \/ shown[i].seg = shown[j].seg /\ shown[i].part < shown[j].part
      BY <2>1, <2>2, <2>3 DEF Earlier, SamePlace
  <2> QED
      BY <2>1, <2>4 DEF Under
<1> HIDE DEF ss, mark
<1>8. /\ FlattenSeq(ss) \in Seq(Q) /\ Rising(FlattenSeq(ss))
      /\ \A x : x \in ToSet(FlattenSeq(ss)) <=> \E i \in DOMAIN ss : x \in ToSet(ss[i])
    BY <1>4, <1>5, <1>6, <1>7, FlattenRises
<1>9. \A x : x \in ToSet(Streamed(r)) <=>
        \E i \in DOMAIN shown : shown[i].by = r /\ x = <<shown[i].seg, shown[i].part>>
    BY <1>1, <1>4, <1>5, <1>6, <1>8
<1> QED
    BY <1>1, <1>8, <1>9

\* At the end no session waits and every place is filled with what its
\* segment says.
LEMMA QuietIsFilled ==
  ASSUME Traversed, Agreed, Streams, Pours, BegunAnswersRun, Traversal!Quiet, Traversal!Rooted,
         \A n \in Sources : UsedOnce(n) /\ (Ran(n) => Whole(n) \/ (n \in pool /\ arrived[n] = 0))
  PROVE  \A p \in Spots(Begun) : Parts(shown, p) = ToSet(SaidOf(Segment(p)))
<1>1. /\ Chosen /\ Begun \in SUBSET Responses(flow) /\ Responses(flow) \subseteq graph.nodes
      /\ todo \in Seq(Spots(Begun)) /\ pool \subseteq graph.nodes
      /\ arrived \in [graph.nodes -> Nat] /\ flow.chunks \in [graph.nodes -> Nat]
    BY FlowsAreWellFormed DEF Traversed, Chosen, Streams, Streaming, Begun
<1>2. /\ \A n \in graph.nodes : nodeState[n] = "taken" => Ended(n)
      /\ \A n \in graph.nodes : Ended(n) => nodeState[n] = "taken"
      /\ \A n \in graph.nodes : nodeState[n] \in {"taken", "skipped"}
    BY TraversalSettles, TraversalAgrees DEF Traversed
<1>3. \A r \in Begun : Ran(r)
    BY <1>1, <1>2 DEF BegunAnswersRun, Begun, Ran, Ended
<1>4. ASSUME NEW p \in Spots(Begun), NEW n \in graph.nodes, Segment(p) = Output(n)
      PROVE  /\ Sole(n, Begun)
             /\ Ended(n) => Whole(n) \/ (n \in pool /\ arrived[n] = 0)
  <2>1. \A q \in Spots(Begun) :
          /\ q.by \in Responses(flow) /\ Ran(q.by) /\ q.seg \in DOMAIN flow.template[q.by]
          /\ q = [by |-> q.by, seg |-> q.seg]
          /\ Segment(q) = flow.template[q.by][q.seg]
    <3> TAKE q \in Spots(Begun)
    <3>1. PICK r \in Begun : \E i \in DOMAIN flow.template[r] : q = [by |-> r, seg |-> i]
        BY SpotsAre
    <3>2. q.by = r /\ q.seg \in DOMAIN flow.template[r] /\ q = [by |-> q.by, seg |-> q.seg]
        BY <3>1
    <3> QED
        BY <1>1, <1>3, <3>2 DEF Segment
  <2>2. n \in Sources
    <3>1. Output(n) \in ToSet(flow.template[p.by])
        BY <1>4, <2>1 DEF ToSet
    <3> QED
        BY <2>1, <3>1 DEF Sources, Uses, Segments
  <2>3. UsedOnce(n) /\ (Ran(n) => Whole(n) \/ (n \in pool /\ arrived[n] = 0))
      BY <2>2
  <2>4. ASSUME NEW q \in Spots(Begun), NEW z \in Spots(Begun), Segment(q) = Output(n), Segment(z) = Output(n)
        PROVE  q = z
    <3>1. q.by = z.by /\ q.seg = z.seg
        BY <2>1, <2>3, <2>4 DEF UsedOnce
    <3> QED
        BY <2>1, <3>1
  <2> QED
      BY <1>2, <2>3, <2>4 DEF Sole, Ran, Ended
<1>5. todo = <<>>
  <2> SUFFICES ASSUME todo # <<>> PROVE FALSE
      OBVIOUS
  <2> DEFINE p == todo[1]
  <2>1. p \in Spots(Begun)
    <3> DEFINE S == Spots(Begun)
    <3>1. todo \in Seq(S)
        BY <1>1
    <3> HIDE DEF S
    <3>2. todo[1] \in S
        BY <3>1
    <3> QED
        BY <3>2 DEF S
  <2>2. p.by \in Begun
      BY <1>1, <2>1, SegmentsTyped
  <2>3. Stuck(p)
      BY <1>3, <2>2 DEF Pours, FirstRuns, Ran, Ended
  <2> HIDE DEF p
  <2>4. /\ Segment(p).node \in graph.nodes /\ Segment(p) = Output(Segment(p).node)
        /\ Ended(Segment(p).node) /\ ~Whole(Segment(p).node) /\ Segment(p).node \notin pool
      BY <1>1, <2>1, <2>3, SegmentsTyped DEF Stuck
  <2> QED
      BY <1>4, <2>1, <2>4
<1>6. \A p : ~Waits(todo, p)
    BY <1>5 DEF Waits
<1>7. ASSUME NEW p \in Spots(Begun), Segment(p).kind # "node"
      PROVE  Parts(shown, p) = ToSet(SaidOf(Segment(p)))
  <2>1. Parts(shown, p) = {0}
      BY <1>6, <1>7 DEF Pours, Filled, Fills, FillsPlace
  <2>2. ToSet(<<0>>) = {0}
      BY DEF ToSet
  <2> QED
      BY <1>7, <2>1, <2>2 DEF SaidOf
<1>8. ASSUME NEW p \in Spots(Begun), Segment(p).kind = "node"
      PROVE  Parts(shown, p) = ToSet(SaidOf(Segment(p)))
  <2> DEFINE n == Segment(p).node
  <2>1. n \in graph.nodes /\ Segment(p) = Output(n)
      BY <1>1, <1>8, SegmentsTyped
  <2>2. Sole(n, Begun) /\ (Ended(n) => Whole(n) \/ (n \in pool /\ arrived[n] = 0))
      BY <1>4, <2>1
  <2>3. Final(nodeState, arrived, pool, n, Parts(shown, p))
      BY <1>6, <2>1, <2>2 DEF Pours, Filled, Fills, FillsPlace
  <2>4. /\ arrived[n] \in Nat /\ flow.chunks[n] \in Nat
        /\ arrived[n] > 0 => nodeState[n] = "taken"
        /\ n \in pool => nodeState[n] = "taken"
      BY <1>1, <1>2, <2>1 DEF Pours, Fed
  <2>5. SaidOf(Segment(p)) = IF nodeState[n] = "skipped" THEN <<>>
                             ELSE IF Whole(n) THEN [c \in 1..flow.chunks[n] |-> c]
                             ELSE <<flow.chunks[n] + 1>>
      BY <1>8 DEF SaidOf
  <2> HIDE DEF n
  <2>6. CASE nodeState[n] = "skipped"
    <3>1. Parts(shown, p) = {}
        BY <2>3, <2>4, <2>6 DEF Final
    <3>2. ToSet(<<>>) = {}
        BY DEF ToSet
    <3> QED
        BY <2>5, <2>6, <3>1, <3>2
  <2>7. CASE nodeState[n] # "skipped" /\ Whole(n)
    <3>1. Parts(shown, p) = 1..flow.chunks[n]
        BY <2>3, <2>7 DEF Final, Whole
    <3>2. ToSet([c \in 1..flow.chunks[n] |-> c]) = 1..flow.chunks[n]
        BY DEF ToSet
    <3> QED
        BY <2>5, <2>7, <3>1, <3>2
  <2>8. CASE nodeState[n] # "skipped" /\ ~Whole(n)
    <3>1. n \in pool /\ arrived[n] = 0
        BY <1>2, <2>1, <2>2, <2>8
    <3>2. Parts(shown, p) = 1..arrived[n] \union {flow.chunks[n] + 1}
        BY <2>3, <2>8 DEF Final, Whole
    <3>3. Parts(shown, p) = {flow.chunks[n] + 1}
        BY <3>1, <3>2
    <3>4. ToSet(<<flow.chunks[n] + 1>>) = {flow.chunks[n] + 1}
        BY DEF ToSet
    <3> QED
        BY <2>5, <2>8, <3>3, <3>4
  <2> QED
      BY <2>6, <2>7, <2>8
<1> QED
    BY <1>7, <1>8

\* When nothing is left to run, every answer the run went through has been
\* streamed whole and in its order, whatever the order in which its sources
\* streamed and ended.
THEOREM AnswersAreWhole == Spec => []StreamedIsAnswer
<1>1. Traversed /\ Agreed /\ Streams /\ Pours => StreamedIsAnswer
  <2> SUFFICES ASSUME Traversed, Agreed, Streams, Pours, Traversal!Quiet, Traversal!Rooted,
                      \A n \in Sources : UsedOnce(n) /\ (Ran(n) => Whole(n) \/ (n \in pool /\ arrived[n] = 0)),
                      NEW r \in Responses(flow), Ran(r)
               PROVE  Streamed(r) = Answer(r)
      BY DEF StreamedIsAnswer
  <2> DEFINE t == flow.template[r]
             Place(i) == [by |-> r, seg |-> i]
  <2>1. \A p \in Spots(Begun) : Parts(shown, p) = ToSet(SaidOf(Segment(p)))
      BY BegunDoRun, QuietIsFilled
  <2>2. r \in Begun /\ Chosen
      BY DEF Streams, LaunchedHaveBegun, Begun, Ran, Traversed
  <2>3. \A i \in DOMAIN t : Parts(shown, Place(i)) = ToSet(SaidOf(t[i]))
    <3> TAKE i \in DOMAIN t
    <3>1. i \in DOMAIN Session(r) /\ Session(r)[i] = Place(i)
        BY DEF Session
    <3>2. Place(i) \in Spots(Begun)
        BY <2>2, <3>1 DEF Spots, ToSet
    <3>3. Segment(Place(i)) = t[i]
        BY DEF Segment
    <3> QED
        BY <2>1, <3>2, <3>3
  <2>4. \A i \in DOMAIN shown : shown[i].by = r => shown[i].seg \in DOMAIN t
      BY DEF Streams, Streaming, Told
  <2>5. \A i \in DOMAIN t : \A c : c \in Parts(shown, Place(i)) <=>
          \E k \in DOMAIN shown : shown[k].by = r /\ shown[k].seg = i /\ shown[k].part = c
      BY DEF Parts, SamePlace
  <2> HIDE DEF t, Place
  <2>6. /\ Streamed(r) \in Seq(Nat \X Nat) /\ Rising(Streamed(r))
        /\ \A x : x \in ToSet(Streamed(r)) <=>
             \E i \in DOMAIN shown : shown[i].by = r /\ x = <<shown[i].seg, shown[i].part>>
      BY <2>2, StreamedRises
  <2>7. /\ Answer(r) \in Seq(Nat \X Nat) /\ Rising(Answer(r))
        /\ \A x : x \in ToSet(Answer(r)) <=> \E i \in DOMAIN t : \E c \in ToSet(SaidOf(t[i])) : x = <<i, c>>
      BY <2>2, AnswerRises DEF t
  <2>8. \A x : x \in ToSet(Streamed(r)) <=> x \in ToSet(Answer(r))
    <3> TAKE x
    <3>1. ASSUME NEW k \in DOMAIN shown, shown[k].by = r, x = <<shown[k].seg, shown[k].part>>
          PROVE  x \in ToSet(Answer(r))
      <4>1. shown[k].seg \in DOMAIN t /\ shown[k].part \in ToSet(SaidOf(t[shown[k].seg]))
          BY <2>3, <2>4, <2>5, <3>1
      <4> QED
          BY <2>7, <3>1, <4>1
    <3>2. ASSUME NEW i \in DOMAIN t, NEW c \in ToSet(SaidOf(t[i])), x = <<i, c>>
          PROVE  x \in ToSet(Streamed(r))
      <4>1. PICK k \in DOMAIN shown : shown[k].by = r /\ shown[k].seg = i /\ shown[k].part = c
          BY <2>3, <2>5
      <4> QED
          BY <2>6, <3>2, <4>1
    <3> QED
        BY <2>6, <2>7, <3>1, <3>2
  <2> HIDE DEF Begun
  <2>9. ToSet(Streamed(r)) = ToSet(Answer(r))
      BY <2>8
  <2> QED
      BY <2>6, <2>7, <2>9, RisingAlike
<1> QED
    BY <1>1, StreamsHold, PoursHold, PTL

=============================================================================

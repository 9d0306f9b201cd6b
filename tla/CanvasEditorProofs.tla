------------------------- MODULE CanvasEditorProofs -------------------------
(***************************************************************************)
(* Proofs about the canvas of the browser, for any users, any number of    *)
(* runs and any length of the history.                                     *)
(*                                                                         *)
(* Every canvas the state holds is kept in one set, Sound: its nodes are   *)
(* well formed, the runs they show were started, and its edges connect     *)
(* nodes of its own.  What changes a canvas is shown once to stay in it;   *)
(* undo, redo and the snapshots only move its members about.               *)
(***************************************************************************)
EXTENDS CanvasEditor, FiniteSetTheorems, SequenceTheorems, WellFoundedInduction, NaturalsInduction, TLAPS

(***************************************************************************)
(* Lists: what is kept of one, and the last of several equal ids.          *)
(***************************************************************************)

\* Kept takes the members of a list at the places given, each once.
LEMMA KeptMembers ==
  ASSUME NEW S, NEW s \in Seq(S), NEW I \in SUBSET DOMAIN s
  PROVE  /\ Kept(s, I) \in Seq(S)
         /\ ToSet(Kept(s, I)) = {s[i] : i \in I}
<1>1. CASE I = DOMAIN s
    BY <1>1 DEF Kept, ToSet
<1>2. CASE I # DOMAIN s
  <2> DEFINE n        == Cardinality(I)
             Upto(i)  == {j \in I : j <= i}
             place    == [i \in I |-> Cardinality(Upto(i))]
             at       == [k \in 1 .. n |-> CHOOSE i \in I : Cardinality(Upto(i)) = k]
  <2>1. IsFiniteSet(I) /\ n \in Nat /\ I \subseteq Nat
    <3>1. IsFiniteSet(1 .. Len(s)) /\ DOMAIN s = 1 .. Len(s) /\ Len(s) \in Nat
        BY FS_Interval
    <3> QED
        BY <3>1, FS_Subset, FS_CardinalityType
  <2>2. \A i \in I : IsFiniteSet(Upto(i)) /\ Cardinality(Upto(i)) \in 1 .. n
    <3> TAKE i \in I
    <3>1. Upto(i) \in SUBSET I /\ i \in Upto(i)
        BY <2>1
    <3>2. IsFiniteSet(Upto(i)) /\ Cardinality(Upto(i)) <= n
        BY <2>1, <3>1, FS_Subset
    <3>3. Cardinality(Upto(i)) # 0
        BY <3>1, <3>2, FS_EmptySet
    <3> QED
        BY <2>1, <3>2, <3>3, FS_CardinalityType
  <2>3. \A i, j \in I : i < j => Cardinality(Upto(i)) # Cardinality(Upto(j))
    <3> TAKE i, j \in I
    <3> HAVE i < j
    <3>1. Upto(i) \in SUBSET Upto(j) /\ j \in Upto(j) /\ j \notin Upto(i)
        BY <2>1
    <3> QED
        BY <2>2, <3>1, FS_Subset
  <2>4. \A i, j \in I : Cardinality(Upto(i)) = Cardinality(Upto(j)) => i = j
    <3>1. \A i, j \in I : i < j \/ j < i \/ i = j
        BY <2>1
    <3> HIDE DEF Upto
    <3> QED
        BY <2>3, <3>1
  <2>5. \A k \in 1 .. n : \E i \in I : Cardinality(Upto(i)) = k
    <3> HIDE DEF n, Upto
    <3>1. place \in Injection(I, 1 .. n)
        BY <2>2, <2>4 DEF Injection, IsInjective
    <3>2. IsFiniteSet(1 .. n) /\ Cardinality(1 .. n) = n
        BY <2>1, FS_Interval
    <3>3. place \in Surjection(I, 1 .. n)
        BY <3>1, <3>2, FS_Injection DEF n
    <3> QED
        BY <3>3 DEF Surjection
  <2>6. \A k \in 1 .. n : at[k] \in I /\ Cardinality(Upto(at[k])) = k
    <3> HIDE DEF n, Upto
    <3> QED
        BY <2>5
  <2>7. Kept(s, I) = [k \in 1 .. n |-> s[at[k]]]
      BY <1>2 DEF Kept
  <2> HIDE DEF n, Upto, at
  <2>8. \A i \in I : \E k \in 1 .. n : at[k] = i
      BY <2>2, <2>4, <2>6
  <2>9. Kept(s, I) \in Seq(S) /\ DOMAIN Kept(s, I) = 1 .. n
      BY <2>1, <2>6, <2>7
  <2> QED
      BY <2>6, <2>7, <2>8, <2>9 DEF ToSet
<1> QED
    BY <1>1, <1>2

\* Of the nodes that share an id one is the newest.
LEMMA NewestShares ==
  ASSUME NEW S, NEW s \in Seq(S), NEW i \in DOMAIN s
  PROVE  \E j \in Newest(s) : s[j].id = s[i].id
<1> DEFINE T == {m \in Nat : Len(s) - m \in DOMAIN s /\ s[Len(s) - m].id = s[i].id}
<1>1. Len(s) - i \in T
    BY SMTT(20)
<1>2. PICK m \in T : \A k \in T : ~(<<k, m>> \in OpToRel(<, Nat))
    BY <1>1, NatLessThanWellFounded, WFMin
<1>3. \A k \in T : ~(k < m)
    BY <1>2 DEF OpToRel
<1> DEFINE j == Len(s) - m
<1>4. j \in DOMAIN s /\ s[j].id = s[i].id
    BY <1>2
<1>5. \A h \in DOMAIN s : h > j => s[h].id # s[j].id
  <2> SUFFICES ASSUME NEW h \in DOMAIN s, h > j, s[h].id = s[j].id PROVE FALSE
      OBVIOUS
  <2>1. Len(s) - h \in T /\ Len(s) - h < m
      BY <1>4
  <2> QED
      BY <1>3, <2>1
<1> QED
    BY <1>4, <1>5 DEF Newest

(***************************************************************************)
(* The canvases the state may hold.                                        *)
(***************************************************************************)

Names(t)     == {"node", "task"} \X (1 .. t)
Live(t, rs)  ==
    {n \in [id : Names(t), look : 0 .. 1, run : Runs \cup {None},
            shows : {"idle", "queued", "running"} \cup Final] :
       /\ (n.run = None) = (n.id[1] = "node")
       /\ n.run # None => rs[n.run] # "none"
       /\ n.shows = "succeeded" => n.run # None /\ rs[n.run] = "succeeded"}
Sound(t, rs) ==
    {g \in [nodes : Seq(Live(t, rs)), edges : SUBSET (Names(t) \X Names(t))] :
       \A e \in g.edges : {e[1], e[2]} \subseteq Ids(g)}

LEMMA NoRunIsNone == None \notin Runs /\ Runs \subseteq Nat
<1>1. Cardinality(Runs) \in Nat
    BY EditorAssumption, FS_CardinalityType
<1> QED
    BY <1>1, EditorAssumption DEF None

\* A canvas is its nodes and edges.
LEMMA SoundParts ==
  ASSUME NEW t, NEW rs, NEW g \in Sound(t, rs)
  PROVE  /\ g = [nodes |-> g.nodes, edges |-> g.edges]
         /\ g.nodes \in Seq(Live(t, rs)) /\ g.edges \in SUBSET (Names(t) \X Names(t))
         /\ \A e \in g.edges : {e[1], e[2]} \subseteq Ids(g)
         /\ \A s : [g EXCEPT !.nodes = s] = [nodes |-> s, edges |-> g.edges]
         /\ \A E : [g EXCEPT !.edges = E] = [nodes |-> g.nodes, edges |-> E]
<1>1. g \in [nodes : Seq(Live(t, rs)), edges : SUBSET (Names(t) \X Names(t))]
    BY DEF Sound
<1> QED
    BY <1>1 DEF Sound

\* Nodes put in place of others keep a canvas sound if no id is missing.
LEMMA NodesSound ==
  ASSUME NEW t, NEW rs, NEW g \in Sound(t, rs), NEW s \in Seq(Live(t, rs)),
         \A i \in DOMAIN g.nodes : \E j \in DOMAIN s : s[j].id = g.nodes[i].id
  PROVE  [g EXCEPT !.nodes = s] \in Sound(t, rs)
<1> DEFINE new == [nodes |-> s, edges |-> g.edges]
<1>1. Ids(g) \subseteq Ids(new)
    BY DEF Ids, ToSet
<1>2. new \in Sound(t, rs)
    BY <1>1, SoundParts DEF Sound
<1> QED
    BY <1>2, SoundParts

\* The canvas without anything on it.
LEMMA BlankSound == ASSUME NEW t, NEW rs PROVE Blank \in Sound(t, rs)
    BY DEF Blank, Sound

\* A node as it is made.
LEMMA NodeLive ==
  ASSUME NEW t \in Nat, NEW rs, NEW k \in 1 .. t
  PROVE  /\ Node(<<"node", k>>, None, 0) \in Live(t, rs)
         /\ Node(<<"node", k>>, None, 1) \in Live(t, rs)
         /\ \A r \in Runs : rs[r] # "none" => Node(<<"task", k>>, r, 0) \in Live(t, rs)
    BY NoRunIsNone DEF Node, Live, Names

\* One node more, at the end.
LEMMA AppendSound ==
  ASSUME NEW t, NEW rs, NEW g \in Sound(t, rs), NEW n \in Live(t, rs)
  PROVE  [g EXCEPT !.nodes = Append(@, n)] \in Sound(t, rs)
<1> DEFINE s == Append(g.nodes, n)
<1>1. g.nodes \in Seq(Live(t, rs))
    BY SoundParts
<1>2. s \in Seq(Live(t, rs)) /\ \A i \in DOMAIN g.nodes : i \in DOMAIN s /\ s[i] = g.nodes[i]
    BY <1>1
<1> HIDE DEF s
<1>3. [g EXCEPT !.nodes = s] \in Sound(t, rs)
    BY <1>2, NodesSound
<1> QED
    BY <1>3 DEF s

\* Two nodes more.
LEMMA PairSound ==
  ASSUME NEW t, NEW rs, NEW g \in Sound(t, rs), NEW m \in Live(t, rs), NEW n \in Live(t, rs)
  PROVE  [g EXCEPT !.nodes = @ \o <<m, n>>] \in Sound(t, rs)
<1> DEFINE s == g.nodes \o <<m, n>>
<1>1. g.nodes \in Seq(Live(t, rs))
    BY SoundParts
<1>2. s \in Seq(Live(t, rs)) /\ \A i \in DOMAIN g.nodes : i \in DOMAIN s /\ s[i] = g.nodes[i]
    BY <1>1
<1> HIDE DEF s
<1>3. [g EXCEPT !.nodes = s] \in Sound(t, rs)
    BY <1>2, NodesSound
<1> QED
    BY <1>3 DEF s

\* Nodes looked after one by one, none losing its id.
LEMMA RedrawnSound ==
  ASSUME NEW t, NEW rs, NEW g \in Sound(t, rs), NEW f,
         \A i \in DOMAIN g.nodes : f[i] \in Live(t, rs) /\ f[i].id = g.nodes[i].id
  PROVE  [g EXCEPT !.nodes = [i \in DOMAIN @ |-> f[i]]] \in Sound(t, rs)
<1> DEFINE s == [i \in DOMAIN g.nodes |-> f[i]]
<1>1. g.nodes \in Seq(Live(t, rs))
    BY SoundParts
<1>2. s \in Seq(Live(t, rs)) /\ \A i \in DOMAIN g.nodes : i \in DOMAIN s /\ s[i].id = g.nodes[i].id
    BY <1>1
<1> HIDE DEF s
<1>3. [g EXCEPT !.nodes = s] \in Sound(t, rs)
    BY <1>2, NodesSound
<1> QED
    BY <1>3 DEF s

\* Only the nodes that bear the id have to be looked after.
LEMMA ChangedSound ==
  ASSUME NEW t, NEW rs, NEW g \in Sound(t, rs), NEW id, NEW new,
         \A n \in ToSet(g.nodes) : n.id = id => new[n] \in Live(t, rs) /\ new[n].id = n.id
  PROVE  Changed(g, id, new) \in Sound(t, rs)
<1> DEFINE f == [i \in DOMAIN g.nodes |-> IF g.nodes[i].id = id THEN new[g.nodes[i]] ELSE g.nodes[i]]
<1>1. g.nodes \in Seq(Live(t, rs))
    BY SoundParts
<1>2. \A i \in DOMAIN g.nodes : f[i] \in Live(t, rs) /\ f[i].id = g.nodes[i].id
  <2> TAKE i \in DOMAIN g.nodes
  <2>1. g.nodes[i] \in ToSet(g.nodes) /\ g.nodes[i] \in Live(t, rs)
      BY <1>1 DEF ToSet
  <2> QED
      BY <2>1
<1>3. Changed(g, id, new) = [g EXCEPT !.nodes = [i \in DOMAIN @ |-> f[i]]]
    BY DEF Changed
<1> HIDE DEF f
<1> QED
    BY <1>2, <1>3, RedrawnSound

LEMMA ByIdSound ==
  ASSUME NEW t, NEW rs, NEW g \in Sound(t, rs)
  PROVE  ById(g) \in Sound(t, rs)
<1> DEFINE s == g.nodes
           kept == Kept(s, Newest(s))
<1>1. s \in Seq(Live(t, rs))
    BY SoundParts
<1>2. Newest(s) \in SUBSET DOMAIN s
    BY DEF Newest
<1>3. kept \in Seq(Live(t, rs)) /\ ToSet(kept) = {s[i] : i \in Newest(s)}
    BY <1>1, <1>2, KeptMembers
<1>4. \A i \in DOMAIN s : \E j \in Newest(s) : s[j].id = s[i].id
    BY <1>1, NewestShares
<1> HIDE DEF kept
<1>5. \A i \in DOMAIN s : \E k \in DOMAIN kept : kept[k].id = s[i].id
  <2> TAKE i \in DOMAIN s
  <2>1. PICK j \in Newest(s) : s[j].id = s[i].id
      BY <1>4
  <2>2. s[j] \in ToSet(kept)
      BY <1>3
  <2> QED
      BY <2>1, <2>2 DEF ToSet
<1>6. [g EXCEPT !.nodes = kept] \in Sound(t, rs)
    BY <1>3, <1>5, NodesSound
<1> QED
    BY <1>6 DEF ById, kept

\* React Flow keeps one node of an id.
LEMMA ByIdUnique ==
  ASSUME NEW t, NEW rs, NEW g \in Sound(t, rs),
         NEW m \in ToSet(ById(g).nodes), NEW n \in ToSet(ById(g).nodes), m.id = n.id
  PROVE  m = n
<1> DEFINE s == g.nodes
<1>1. s \in Seq(Live(t, rs))
    BY SoundParts
<1>2. Newest(s) \in SUBSET DOMAIN s /\ DOMAIN s \subseteq Nat
    BY <1>1 DEF Newest
<1>3. ById(g).nodes = Kept(s, Newest(s))
    BY SoundParts DEF ById
<1>4. ToSet(ById(g).nodes) = {s[i] : i \in Newest(s)}
    BY <1>1, <1>2, <1>3, KeptMembers
<1> HIDE DEF s
<1>5. PICK i, j \in Newest(s) : m = s[i] /\ n = s[j]
    BY <1>4
<1>6. ~(j > i) /\ ~(i > j)
    BY <1>5 DEF Newest
<1>7. i = j
    BY <1>2, <1>6
<1> QED
    BY <1>5, <1>7

LEMMA WithoutSound ==
  ASSUME NEW t, NEW rs, NEW g \in Sound(t, rs), NEW id
  PROVE  Without(g, id) \in Sound(t, rs)
<1> DEFINE s == g.nodes
           kept == Kept(s, Others(s, id))
           edges == {e \in g.edges : id \notin {e[1], e[2]}}
           new == [nodes |-> kept, edges |-> edges]
<1>1. s \in Seq(Live(t, rs)) /\ g.edges \in SUBSET (Names(t) \X Names(t))
    BY SoundParts
<1>2. Others(s, id) \in SUBSET DOMAIN s
    BY DEF Others
<1>3. kept \in Seq(Live(t, rs)) /\ ToSet(kept) = {s[i] : i \in Others(s, id)}
    BY <1>1, <1>2, KeptMembers
<1>4. Ids(g) \ {id} \subseteq {n.id : n \in ToSet(kept)}
    BY <1>3 DEF Ids, ToSet, Others
<1>5. \A e \in g.edges : e[1] \in Ids(g) /\ e[2] \in Ids(g)
    BY SoundParts
<1> HIDE DEF kept
<1>6. \A e \in edges : {e[1], e[2]} \subseteq Ids(new)
    BY <1>4, <1>5 DEF Ids
<1>7. new \in Sound(t, rs)
    BY <1>1, <1>3, <1>6 DEF Sound
<1> QED
    BY <1>7 DEF Without, kept

\* An edge less.
LEMMA FewerEdgesSound ==
  ASSUME NEW t, NEW rs, NEW g \in Sound(t, rs), NEW e
  PROVE  [g EXCEPT !.edges = @ \ {e}] \in Sound(t, rs)
<1> DEFINE new == [nodes |-> g.nodes, edges |-> g.edges \ {e}]
<1>1. Ids(new) = Ids(g)
    BY DEF Ids
<1>2. new \in Sound(t, rs)
    BY <1>1, SoundParts DEF Sound
<1>3. \A E : [g EXCEPT !.edges = E] = [nodes |-> g.nodes, edges |-> E]
    BY SoundParts
<1> QED
    BY <1>2, <1>3, Zenon

\* A new edge joins two nodes of the canvas.
LEMMA ConnectSound ==
  ASSUME NEW t, NEW rs, NEW g \in Sound(t, rs), NEW a \in Ids(g), NEW b \in Ids(g)
  PROVE  [g EXCEPT !.edges = @ \cup {<<a, b>>}] \in Sound(t, rs)
<1> DEFINE new == [nodes |-> g.nodes, edges |-> g.edges \cup {<<a, b>>}]
<1>1. g.nodes \in Seq(Live(t, rs)) /\ g.edges \in SUBSET (Names(t) \X Names(t))
    BY SoundParts
<1>2. Ids(new) = Ids(g) /\ Ids(g) \subseteq Names(t)
    BY <1>1 DEF Ids, ToSet, Live
<1>3. \A e \in new.edges : {e[1], e[2]} \subseteq Ids(new)
    BY <1>2, SoundParts
<1>4. new \in Sound(t, rs)
    BY <1>1, <1>2, <1>3 DEF Sound
<1>5. \A E : [g EXCEPT !.edges = E] = [nodes |-> g.nodes, edges |-> E]
    BY SoundParts
<1> QED
    BY <1>4, <1>5, Zenon

\* The task node an answer brings goes before the others, joined to the node
\* that asked for it.
LEMMA AnswerSound ==
  ASSUME NEW t, NEW rs, NEW g \in Sound(t, rs), NEW a \in Ids(g), NEW n \in Live(t, rs)
  PROVE  [nodes |-> <<n>> \o g.nodes, edges |-> g.edges \cup {<<a, n.id>>}] \in Sound(t, rs)
<1> DEFINE s == <<n>> \o g.nodes
           new == [nodes |-> s, edges |-> g.edges \cup {<<a, n.id>>}]
<1>1. g.nodes \in Seq(Live(t, rs)) /\ g.edges \in SUBSET (Names(t) \X Names(t))
    BY SoundParts
<1>2. s \in Seq(Live(t, rs)) /\ 1 \in DOMAIN s /\ s[1] = n
      /\ \A i \in DOMAIN g.nodes : i + 1 \in DOMAIN s /\ s[i + 1] = g.nodes[i]
    BY <1>1
<1> HIDE DEF s
<1>3. ToSet(g.nodes) \subseteq ToSet(s) /\ n \in ToSet(s)
    BY <1>2 DEF ToSet
<1>4. Ids(g) \subseteq Ids(new) /\ n.id \in Ids(new)
    BY <1>3 DEF Ids
<1>5. Ids(g) \subseteq Names(t) /\ n.id \in Names(t)
    BY <1>1 DEF Ids, ToSet, Live
<1>6. \A e \in new.edges : {e[1], e[2]} \subseteq Ids(new)
  <2> TAKE e \in new.edges
  <2>1. CASE e \in g.edges
      BY <1>4, <2>1, SoundParts
  <2>2. CASE e = <<a, n.id>>
      BY <1>4, <2>2
  <2> QED
      BY <2>1, <2>2
<1>7. new.edges \in SUBSET (Names(t) \X Names(t))
    BY <1>1, <1>5
<1>8. new \in Sound(t, rs)
    BY <1>2, <1>6, <1>7 DEF Sound
<1> QED
    BY <1>8 DEF s

(***************************************************************************)
(* The history as a tape with a cursor: the past, the present one and the  *)
(* future turned around.  A jump moves the cursor and leaves the tape.     *)
(***************************************************************************)

Histories(S) == [past : Seq(S), present : S, future : Seq(S)]
Span(h) == Len(h.past) + 1 + Len(h.future)
Tape(h) ==
    [i \in 1 .. Span(h) |->
       IF i <= Len(h.past) THEN h.past[i]
       ELSE IF i = Len(h.past) + 1 THEN h.present
       ELSE h.future[Span(h) + 1 - i]]
At(tape, span, c) ==
    [past |-> [i \in 1 .. c - 1 |-> tape[i]], present |-> tape[c],
     future |-> [i \in 1 .. span - c |-> tape[span + 1 - i]]]

\* What is on the tape.
LEMMA TapeHasAll ==
  ASSUME NEW S, NEW h \in Histories(S)
  PROVE  LET n == Len(h.past)
             m == Len(h.future)
         IN  /\ n \in Nat /\ m \in Nat /\ Span(h) = n + 1 + m
             /\ \A i \in 1 .. n : Tape(h)[i] = h.past[i]
             /\ Tape(h)[n + 1] = h.present
             /\ \A i \in 1 .. m : Tape(h)[n + m + 2 - i] = h.future[i]
             /\ Tape(h) \in [1 .. n + 1 + m -> S]
<1> DEFINE n == Len(h.past)
           m == Len(h.future)
<1>1. h.past \in Seq(S) /\ h.present \in S /\ h.future \in Seq(S)
    BY DEF Histories
<1>2. n \in Nat /\ m \in Nat
    BY <1>1
<1>3. \A i \in 1 .. n : h.past[i] \in S
    BY <1>1
<1>4. \A i \in 1 .. m : h.future[i] \in S
    BY <1>1
<1>5. Span(h) = n + 1 + m
    BY Zenon DEF Span
<1>6. Tape(h) = [i \in 1 .. n + 1 + m |-> IF i <= n THEN h.past[i]
                                         ELSE IF i = n + 1 THEN h.present
                                         ELSE h.future[n + 1 + m + 1 - i]]
    BY Zenon DEF Tape, Span
<1> HIDE DEF n, m
<1>7. \A i \in 1 .. n : Tape(h)[i] = h.past[i]
    BY <1>2, <1>6
<1>8. Tape(h)[n + 1] = h.present
    BY <1>2, <1>6
<1>9. \A i \in 1 .. m : Tape(h)[n + m + 2 - i] = h.future[i]
  <2> TAKE i \in 1 .. m
  <2> DEFINE j == n + m + 2 - i
  <2>1. j \in 1 .. n + 1 + m /\ ~(j <= n) /\ j # n + 1 /\ n + 1 + m + 1 - j = i
      BY <1>2
  <2> HIDE DEF j
  <2>2. Tape(h)[j] = h.future[i]
      BY <1>6, <2>1
  <2> QED
      BY <2>2 DEF j
<1>10. Tape(h) \in [1 .. n + 1 + m -> S]
  <2>1. \A i \in 1 .. n + 1 + m : ~(i <= n) /\ i # n + 1 => n + 1 + m + 1 - i \in 1 .. m
      BY <1>2
  <2>2. \A i \in 1 .. n + 1 + m : i <= n => i \in 1 .. n
      BY <1>2
  <2> QED
      BY <1>1, <1>3, <1>4, <1>6, <2>1, <2>2
<1> QED
    BY <1>2, <1>5, <1>7, <1>8, <1>9, <1>10 DEF n, m

\* The tape with the cursor after the past is the history.
LEMMA TapeGivesHistory ==
  ASSUME NEW S, NEW h \in Histories(S)
  PROVE  /\ Span(h) \in Nat /\ Len(h.past) + 1 \in 1 .. Span(h)
         /\ Tape(h) \in [1 .. Span(h) -> S]
         /\ At(Tape(h), Span(h), Len(h.past) + 1) = h
<1> DEFINE n == Len(h.past)
           m == Len(h.future)
<1>1. /\ h = [past |-> h.past, present |-> h.present, future |-> h.future]
      /\ h.past \in Seq(S) /\ h.present \in S /\ h.future \in Seq(S)
    BY DEF Histories
<1>2. h.past = [i \in 1 .. n |-> h.past[i]]
    BY <1>1
<1>3. h.future = [i \in 1 .. m |-> h.future[i]]
    BY <1>1
<1>4. /\ n \in Nat /\ m \in Nat /\ Span(h) = n + 1 + m
      /\ \A i \in 1 .. n : Tape(h)[i] = h.past[i]
      /\ Tape(h)[n + 1] = h.present
      /\ \A i \in 1 .. m : Tape(h)[n + m + 2 - i] = h.future[i]
      /\ Tape(h) \in [1 .. n + 1 + m -> S]
    BY TapeHasAll
<1> HIDE DEF n, m
<1>5. [i \in 1 .. n |-> Tape(h)[i]] = h.past
    BY <1>2, <1>4
<1>6. [i \in 1 .. m |-> Tape(h)[n + m + 2 - i]] = h.future
    BY <1>3, <1>4
<1>7. At(Tape(h), Span(h), n + 1)
        = [past |-> [i \in 1 .. n |-> Tape(h)[i]], present |-> Tape(h)[n + 1],
           future |-> [i \in 1 .. m |-> Tape(h)[n + m + 2 - i]]]
  <2>1. (n + 1) - 1 = n /\ (n + 1 + m) - (n + 1) = m
      BY <1>4
  <2>2. \A i \in 1 .. m : (n + 1 + m) + 1 - i = n + m + 2 - i
      BY <1>4
  <2> QED
      BY <1>4, <2>1, <2>2 DEF At
<1>8. Span(h) \in Nat /\ n + 1 \in 1 .. Span(h) /\ Tape(h) \in [1 .. Span(h) -> S]
    BY <1>4
<1>9. At(Tape(h), Span(h), n + 1) = h
  <2>1. At(Tape(h), Span(h), n + 1)
          = [past |-> h.past, present |-> h.present, future |-> h.future]
      BY <1>4, <1>5, <1>6, <1>7, Zenon
  <2> QED
      BY <1>1, <2>1, Zenon
<1> QED
    BY <1>8, <1>9, Zenon DEF n

\* And every tape with a cursor is a history, of that tape.
LEMMA AtIsHistory ==
  ASSUME NEW S, NEW span \in Nat, NEW tape \in [1 .. span -> S], NEW c \in 1 .. span
  PROVE  /\ At(tape, span, c) \in Histories(S)
         /\ Len(At(tape, span, c).past) = c - 1 /\ Len(At(tape, span, c).future) = span - c
         /\ Span(At(tape, span, c)) = span /\ Tape(At(tape, span, c)) = tape
<1> DEFINE past == [i \in 1 .. c - 1 |-> tape[i]]
           future == [i \in 1 .. span - c |-> tape[span + 1 - i]]
           h == [past |-> past, present |-> tape[c], future |-> future]
<1>1. past \in Seq(S) /\ Len(past) = c - 1
    OBVIOUS
<1>2. future \in Seq(S) /\ Len(future) = span - c
  <2>1. \A i \in 1 .. span - c : tape[span + 1 - i] \in S
      OBVIOUS
  <2>2. span - c \in Nat
      OBVIOUS
  <2> QED
      BY <2>1, <2>2
<1>3. h = At(tape, span, c)
    BY DEF At
<1>4. h \in Histories(S)
    BY <1>1, <1>2 DEF Histories
<1>5. Span(h) = span
    BY <1>1, <1>2 DEF Span
<1>6. \A i \in 1 .. span : Tape(h)[i] = tape[i]
  <2> TAKE i \in 1 .. span
  <2>1. CASE i <= c - 1
      BY <1>1, <1>5, <2>1 DEF Tape
  <2>2. CASE i = c
      BY <1>1, <1>5, <2>2 DEF Tape
  <2>3. CASE i > c
    <3>1. span + 1 - i \in 1 .. span - c /\ span + 1 - (span + 1 - i) = i
        BY <2>3
    <3>2. future[span + 1 - i] = tape[i]
        BY <3>1
    <3>3. ~(i <= c - 1) /\ i # (c - 1) + 1
        BY <2>3
    <3> HIDE DEF future, past
    <3> QED
        BY <1>1, <1>5, <3>2, <3>3 DEF Tape
  <2> QED
      BY <2>1, <2>2, <2>3
<1>7. Tape(h) = tape
  <2>1. Tape(h) = [i \in 1 .. span |-> Tape(h)[i]]
      BY <1>5 DEF Tape
  <2> QED
      BY <1>6, <2>1
<1> HIDE DEF past, future
<1> QED
    BY <1>1, <1>2, <1>3, <1>4, <1>5, <1>7

Passed(p, x, f, k) == Append(f, x) \o Reverse(SubSeq(p, Len(p) - k + 2, Len(p)))
Spliced(p, x, f, k) ==
    [i \in 1 .. Len(f) + k |-> IF i <= Len(f) THEN f[i]
                              ELSE IF i = Len(f) + 1 THEN x ELSE p[Len(p) + Len(f) + 2 - i]]

\* What a jump leaves behind comes, turned around, before the snapshot it
\* started from: one list goes on where the other ends.
LEMMA PassedOver ==
  ASSUME NEW S, NEW p \in Seq(S), NEW f \in Seq(S), NEW x \in S, NEW k \in 1 .. Len(p)
  PROVE  Passed(p, x, f, k) = Spliced(p, x, f, k)
<1> DEFINE n == Len(p)
           m == Len(f)
           passed == SubSeq(p, n - k + 2, n)
           back == Reverse(passed)
           new == Append(f, x)
           all == new \o back
<1>1. new \in Seq(S) /\ Len(new) = m + 1 /\ new[m + 1] = x /\ \A i \in 1 .. m : new[i] = f[i]
    OBVIOUS
<1>2. passed \in Seq(S) /\ Len(passed) = k - 1
      /\ \A j \in 1 .. k - 1 : passed[j] = p[n - k + 1 + j]
    OBVIOUS
<1>3. n \in Nat /\ m \in Nat /\ k \in Nat /\ 1 <= k /\ k <= n
    OBVIOUS
<1> HIDE DEF new, passed, n, m
<1>5. back = [i \in 1 .. k - 1 |-> passed[k - i]]
  <2>1. \A i \in 1 .. k - 1 : (k - 1) - i + 1 = k - i
      BY ONLY <1>3
  <2> QED
      BY ONLY <1>2, <2>1 DEF Reverse, back
<1> HIDE DEF back
<1>6. back \in Seq(S) /\ Len(back) = k - 1 /\ \A j \in 1 .. k - 1 : back[j] = p[n + 1 - j]
  <2>1. \A j \in 1 .. k - 1 : k - j \in 1 .. k - 1 /\ n - k + 1 + (k - j) = n + 1 - j
      BY ONLY <1>3
  <2>2. \A j \in 1 .. k - 1 : passed[k - j] \in S
      BY ONLY <1>2, <2>1
  <2>3. k - 1 \in Nat
      BY ONLY <1>3
  <2>4. back \in Seq(S) /\ Len(back) = k - 1
      BY ONLY <1>5, <2>2, <2>3
  <2> QED
      BY ONLY <1>2, <1>5, <2>1, <2>4
<1>7. /\ all \in Seq(S) /\ Len(all) = m + k
      /\ \A i \in 1 .. m + 1 : all[i] = new[i]
      /\ \A i \in m + 2 .. m + k : all[i] = back[i - (m + 1)]
  <2>1. /\ all \in Seq(S) /\ Len(all) = Len(new) + Len(back)
        /\ \A i \in 1 .. Len(new) + Len(back) :
              all[i] = IF i <= Len(new) THEN new[i] ELSE back[i - Len(new)]
      BY <1>1, <1>6, ConcatProperties, Zenon
  <2>2. Len(new) + Len(back) = m + k
      BY ONLY <1>1, <1>3, <1>6
  <2> HIDE DEF all
  <2>3. \A i \in 1 .. m + k : all[i] = IF i <= m + 1 THEN new[i] ELSE back[i - (m + 1)]
      BY ONLY <1>1, <2>1, <2>2
  <2>4. /\ \A i \in 1 .. m + 1 : i \in 1 .. m + k /\ i <= m + 1
        /\ \A i \in m + 2 .. m + k : i \in 1 .. m + k /\ ~(i <= m + 1)
      BY ONLY <1>3
  <2> QED
      BY ONLY <2>1, <2>2, <2>3, <2>4
<1> HIDE DEF all
<1>8. \A i \in 1 .. m + k : all[i] = IF i <= m THEN f[i]
                                   ELSE IF i = m + 1 THEN x ELSE p[n + m + 2 - i]
  <2> TAKE i \in 1 .. m + k
  <2>1. CASE i <= m
    <3>1. i \in 1 .. m /\ i \in 1 .. m + 1
        BY ONLY i \in 1 .. m + k, <1>3, <2>1
    <3> QED
        BY ONLY <1>1, <1>7, <2>1, <3>1
  <2>2. CASE i = m + 1
    <3>1. i \in 1 .. m + 1 /\ ~(i <= m)
        BY ONLY <1>3, <2>2
    <3> QED
        BY ONLY <1>1, <1>7, <2>2, <3>1
  <2>3. CASE i > m + 1
    <3>1. /\ i \in m + 2 .. m + k /\ i - (m + 1) \in 1 .. k - 1
          /\ n + 1 - (i - (m + 1)) = n + m + 2 - i /\ ~(i <= m) /\ i # m + 1
        BY ONLY i \in 1 .. m + k, <1>3, <2>3
    <3>2. all[i] = p[n + 1 - (i - (m + 1))]
        BY ONLY <1>6, <1>7, <3>1
    <3> QED
        BY ONLY <3>1, <3>2
  <2> QED
      BY ONLY i \in 1 .. m + k, <1>3, <2>1, <2>2, <2>3
<1>9. all = [i \in 1 .. m + k |-> all[i]]
    BY ONLY <1>7
<1>10. all = [i \in 1 .. m + k |-> IF i <= m THEN f[i]
                                  ELSE IF i = m + 1 THEN x ELSE p[n + m + 2 - i]]
    BY ONLY <1>8, <1>9
<1> QED
    BY ONLY <1>10 DEF Passed, Spliced, all, new, back, passed, n, m

\* Undo moves the cursor back.
LEMMA UndoMoves ==
  ASSUME NEW S, NEW h \in Histories(S), NEW k \in 1 .. Len(h.past)
  PROVE  UndoSteps(h, k) = At(Tape(h), Span(h), Len(h.past) + 1 - k)
<1> DEFINE n == Len(h.past)
           m == Len(h.future)
           passed == SubSeq(h.past, n - k + 2, n)
           new == Append(h.future, h.present) \o Reverse(passed)
<1>1. h.past \in Seq(S) /\ h.present \in S /\ h.future \in Seq(S)
    BY DEF Histories
<1>2. /\ n \in Nat /\ m \in Nat /\ Span(h) = n + 1 + m
      /\ \A i \in 1 .. n : Tape(h)[i] = h.past[i]
      /\ Tape(h)[n + 1] = h.present
      /\ \A i \in 1 .. m : Tape(h)[n + m + 2 - i] = h.future[i]
    BY TapeHasAll
<1>3. k \in Nat /\ 1 <= k /\ k <= n
    BY <1>1
<1>4. SubSeq(h.past, 1, n - k) = [i \in 1 .. n - k |-> h.past[i]]
    BY <1>1
<1>5. new = [i \in 1 .. m + k |-> IF i <= m THEN h.future[i]
                                 ELSE IF i = m + 1 THEN h.present
                                 ELSE h.past[n + m + 2 - i]]
  <2>1. Passed(h.past, h.present, h.future, k) = Spliced(h.past, h.present, h.future, k)
      BY <1>1, PassedOver
  <2> QED
      BY <2>1, Zenon DEF Passed, Spliced
<1>6. UndoSteps(h, k) = [past |-> SubSeq(h.past, 1, n - k), present |-> h.past[n - k + 1],
                         future |-> new]
    BY DEF UndoSteps
<1> HIDE DEF n, m, new
<1>7. SubSeq(h.past, 1, n - k) = [i \in 1 .. n - k |-> Tape(h)[i]]
    BY ONLY <1>2, <1>3, <1>4
<1>8. h.past[n - k + 1] = Tape(h)[n + 1 - k]
  <2>1. n - k + 1 \in 1 .. n /\ n + 1 - k = n - k + 1
      BY ONLY <1>2, <1>3
  <2> QED
      BY ONLY <1>2, <2>1
<1>9. \A i \in 1 .. m + k :
        Tape(h)[n + m + 2 - i] = IF i <= m THEN h.future[i]
                                 ELSE IF i = m + 1 THEN h.present
                                 ELSE h.past[n + m + 2 - i]
  <2> TAKE i \in 1 .. m + k
  <2>1. CASE i <= m
      BY ONLY i \in 1 .. m + k, <1>2, <2>1
  <2>2. CASE i = m + 1
    <3>1. n + m + 2 - i = n + 1 /\ ~(i <= m)
        BY ONLY <1>2, <2>2
    <3> QED
        BY ONLY <1>2, <2>2, <3>1
  <2>3. CASE i > m + 1
    <3> DEFINE j == n + m + 2 - i
    <3>1. j \in 1 .. n /\ ~(i <= m) /\ i # m + 1
        BY ONLY i \in 1 .. m + k, <1>2, <1>3, <2>3
    <3> HIDE DEF j
    <3>2. Tape(h)[j] = h.past[j]
        BY ONLY <1>2, <3>1
    <3> QED
        BY <3>1, <3>2 DEF j
  <2> QED
      BY ONLY i \in 1 .. m + k, <1>2, <2>1, <2>2, <2>3
<1>10. new = [i \in 1 .. m + k |-> Tape(h)[n + m + 2 - i]]
    BY ONLY <1>5, <1>9
<1>11. At(Tape(h), n + 1 + m, n + 1 - k)
        = [past |-> [i \in 1 .. n - k |-> Tape(h)[i]], present |-> Tape(h)[n + 1 - k],
           future |-> [i \in 1 .. m + k |-> Tape(h)[n + m + 2 - i]]]
  <2>1. (n + 1 - k) - 1 = n - k /\ (n + 1 + m) - (n + 1 - k) = m + k
      BY ONLY <1>2, <1>3
  <2>2. \A i \in 1 .. m + k : (n + 1 + m) + 1 - i = n + m + 2 - i
      BY ONLY <1>2, <1>3
  <2> QED
      BY ONLY <2>1, <2>2 DEF At
<1> QED
    BY ONLY <1>2, <1>6, <1>7, <1>8, <1>10, <1>11 DEF n

\* Redo moves it forward.
LEMMA RedoMoves ==
  ASSUME NEW S, NEW h \in Histories(S), NEW k \in 1 .. Len(h.future)
  PROVE  RedoSteps(h, k) = At(Tape(h), Span(h), Len(h.past) + 1 + k)
<1> DEFINE n == Len(h.past)
           m == Len(h.future)
           passed == SubSeq(h.future, m - k + 2, m)
           new == Append(h.past, h.present) \o Reverse(passed)
<1>1. h.past \in Seq(S) /\ h.present \in S /\ h.future \in Seq(S)
    BY DEF Histories
<1>2. /\ n \in Nat /\ m \in Nat /\ Span(h) = n + 1 + m
      /\ \A i \in 1 .. n : Tape(h)[i] = h.past[i]
      /\ Tape(h)[n + 1] = h.present
      /\ \A i \in 1 .. m : Tape(h)[n + m + 2 - i] = h.future[i]
    BY TapeHasAll
<1>3. k \in Nat /\ 1 <= k /\ k <= m
    BY <1>1
<1>4. SubSeq(h.future, 1, m - k) = [i \in 1 .. m - k |-> h.future[i]]
    BY <1>1
<1>5. new = [i \in 1 .. n + k |-> IF i <= n THEN h.past[i]
                                 ELSE IF i = n + 1 THEN h.present
                                 ELSE h.future[m + n + 2 - i]]
  <2>1. Passed(h.future, h.present, h.past, k) = Spliced(h.future, h.present, h.past, k)
      BY <1>1, PassedOver
  <2> QED
      BY <2>1, Zenon DEF Passed, Spliced
<1>6. RedoSteps(h, k) = [past |-> new, present |-> h.future[m - k + 1],
                         future |-> SubSeq(h.future, 1, m - k)]
    BY DEF RedoSteps
<1> HIDE DEF n, m, new
<1>7. SubSeq(h.future, 1, m - k) = [i \in 1 .. m - k |-> Tape(h)[n + m + 2 - i]]
    BY ONLY <1>2, <1>3, <1>4
<1>8. h.future[m - k + 1] = Tape(h)[n + 1 + k]
  <2>1. m - k + 1 \in 1 .. m /\ n + m + 2 - (m - k + 1) = n + 1 + k
      BY ONLY <1>2, <1>3
  <2> QED
      BY ONLY <1>2, <2>1
<1>9. \A i \in 1 .. n + k :
        Tape(h)[i] = IF i <= n THEN h.past[i]
                     ELSE IF i = n + 1 THEN h.present ELSE h.future[m + n + 2 - i]
  <2> TAKE i \in 1 .. n + k
  <2>1. CASE i <= n
      BY ONLY i \in 1 .. n + k, <1>2, <2>1
  <2>2. CASE i = n + 1
      BY ONLY <1>2, <2>2
  <2>3. CASE i > n + 1
    <3> DEFINE j == m + n + 2 - i
    <3>1. j \in 1 .. m /\ ~(i <= n) /\ i # n + 1 /\ n + m + 2 - j = i
        BY ONLY i \in 1 .. n + k, <1>2, <1>3, <2>3
    <3> HIDE DEF j
    <3>2. Tape(h)[i] = h.future[j]
        BY ONLY <1>2, <3>1
    <3> QED
        BY <3>1, <3>2 DEF j
  <2> QED
      BY ONLY i \in 1 .. n + k, <1>2, <2>1, <2>2, <2>3
<1>10. new = [i \in 1 .. n + k |-> Tape(h)[i]]
    BY ONLY <1>5, <1>9
<1>11. At(Tape(h), n + 1 + m, n + 1 + k)
        = [past |-> [i \in 1 .. n + k |-> Tape(h)[i]], present |-> Tape(h)[n + 1 + k],
           future |-> [i \in 1 .. m - k |-> Tape(h)[n + m + 2 - i]]]
  <2>1. (n + 1 + k) - 1 = n + k /\ (n + 1 + m) - (n + 1 + k) = m - k
      BY ONLY <1>2, <1>3
  <2>2. \A i \in 1 .. m - k : (n + 1 + m) + 1 - i = n + m + 2 - i
      BY ONLY <1>2, <1>3
  <2> QED
      BY ONLY <2>1, <2>2 DEF At
<1> QED
    BY ONLY <1>2, <1>6, <1>7, <1>8, <1>10, <1>11 DEF n

\* Where a jump leads, and what is left of the history there.
LEMMA JumpLands ==
  ASSUME NEW S, NEW h \in Histories(S)
  PROVE  /\ Len(h.past) \in Nat /\ Len(h.future) \in Nat
         /\ \A k \in 1 .. Len(h.past) : LET u == UndoSteps(h, k) IN
              /\ u \in Histories(S) /\ Span(u) = Span(h) /\ Tape(u) = Tape(h)
              /\ Len(u.past) = Len(h.past) - k /\ Len(u.future) = Len(h.future) + k
         /\ \A k \in 1 .. Len(h.future) : LET u == RedoSteps(h, k) IN
              /\ u \in Histories(S) /\ Span(u) = Span(h) /\ Tape(u) = Tape(h)
              /\ Len(u.past) = Len(h.past) + k /\ Len(u.future) = Len(h.future) - k
<1> DEFINE n == Len(h.past)
           m == Len(h.future)
<1>1. n \in Nat /\ m \in Nat /\ Span(h) = n + 1 + m
    BY TapeHasAll
<1>2. Span(h) \in Nat /\ Tape(h) \in [1 .. Span(h) -> S]
    BY TapeGivesHistory
<1>3. \A k \in 1 .. n : UndoSteps(h, k) = At(Tape(h), Span(h), n + 1 - k)
    BY UndoMoves
<1>4. \A k \in 1 .. m : RedoSteps(h, k) = At(Tape(h), Span(h), n + 1 + k)
    BY RedoMoves
<1> HIDE DEF n, m
<1>5. ASSUME NEW c \in 1 .. Span(h), NEW u, u = At(Tape(h), Span(h), c)
      PROVE  /\ u \in Histories(S) /\ Span(u) = Span(h) /\ Tape(u) = Tape(h)
             /\ Len(u.past) = c - 1 /\ Len(u.future) = Span(h) - c
  <2> DEFINE span == Span(h)
             tape == Tape(h)
  <2>1. span \in Nat /\ tape \in [1 .. span -> S] /\ c \in 1 .. span
      BY <1>2
  <2> HIDE DEF span, tape
  <2>2. /\ At(tape, span, c) \in Histories(S)
        /\ Len(At(tape, span, c).past) = c - 1 /\ Len(At(tape, span, c).future) = span - c
        /\ Span(At(tape, span, c)) = span /\ Tape(At(tape, span, c)) = tape
      BY <2>1, AtIsHistory
  <2> QED
      BY <1>5, <2>2 DEF span, tape
<1>6. ASSUME NEW k \in 1 .. n, NEW u, u = UndoSteps(h, k)
      PROVE  /\ u \in Histories(S) /\ Span(u) = Span(h) /\ Tape(u) = Tape(h)
             /\ Len(u.past) = n - k /\ Len(u.future) = m + k
  <2>1. n + 1 - k \in 1 .. Span(h) /\ (n + 1 - k) - 1 = n - k /\ Span(h) - (n + 1 - k) = m + k
      BY <1>1
  <2>2. u = At(Tape(h), Span(h), n + 1 - k)
      BY <1>3, <1>6
  <2> QED
      BY <1>5, <2>1, <2>2
<1>7. ASSUME NEW k \in 1 .. m, NEW u, u = RedoSteps(h, k)
      PROVE  /\ u \in Histories(S) /\ Span(u) = Span(h) /\ Tape(u) = Tape(h)
             /\ Len(u.past) = n + k /\ Len(u.future) = m - k
  <2>1. n + 1 + k \in 1 .. Span(h) /\ (n + 1 + k) - 1 = n + k /\ Span(h) - (n + 1 + k) = m - k
      BY <1>1
  <2>2. u = At(Tape(h), Span(h), n + 1 + k)
      BY <1>4, <1>7
  <2> QED
      BY <1>5, <2>1, <2>2
<1> QED
    BY <1>1, <1>6, <1>7, Zenon DEF n, m

(***************************************************************************)
(* The state: every canvas it holds is sound, and what the history and the *)
(* timers still to fire may take up grows with the clock only.             *)
(***************************************************************************)

Canvas   == Sound(MaxTime, runs)
Firsts(S) == [timer : {"unset", "set", "fired"}, graph : S]
Statuses == {"none", "queued", "succeeded"}
\* A run does not go back: once started it stays so, and success is final.
Onward(rs, qs) ==
    \A r \in Runs : /\ rs[r] # "none" => qs[r] # "none"
                    /\ rs[r] = "succeeded" => qs[r] = "succeeded"
Due      == IF first.timer = "fired" THEN 0 ELSE 1
Load     == Span(history) + saves + Due
Waits(a) == /\ a \in [run : Runs, from : {"node"} \X (1 .. MaxTime)]
            /\ runs[a.run] # "none" /\ now > 0

Held == /\ user \in Users /\ now \in 0 .. MaxTime /\ saves \in 0 .. now
        /\ opening \in BOOLEAN /\ drifted \in BOOLEAN
        /\ runs \in [Runs -> Statuses]
        /\ \A a \in asked : Waits(a)
        /\ graph \in Canvas /\ first \in Firsts(Canvas) /\ history \in Histories(Canvas)
        /\ Load <= now + 2

LEMMA TimeIsNat == Held => MaxTime \in Nat /\ now \in Nat /\ saves \in Nat
    BY EditorAssumption DEF Held, MaxTime

LEMMA HistoriesGrow ==
  ASSUME NEW S, NEW T, S \subseteq T
  PROVE  Histories(S) \subseteq Histories(T)
<1>1. Seq(S) \subseteq Seq(T)
    OBVIOUS
<1> QED
    BY <1>1 DEF Histories

\* A canvas stays sound when runs have gone on.
LEMMA SoundGrows ==
  ASSUME NEW t, NEW rs, NEW qs, Onward(rs, qs)
  PROVE  Sound(t, rs) \subseteq Sound(t, qs)
<1>1. Live(t, rs) \subseteq Live(t, qs)
  <2> SUFFICES ASSUME NEW n \in Live(t, rs) PROVE n \in Live(t, qs)
      OBVIOUS
  <2>1. /\ n.run # None => n.run \in Runs /\ rs[n.run] # "none"
        /\ n.shows = "succeeded" => n.run # None /\ rs[n.run] = "succeeded"
      BY DEF Live
  <2>2. /\ n.run # None => qs[n.run] # "none"
        /\ n.shows = "succeeded" => n.run # None /\ qs[n.run] = "succeeded"
      BY <2>1 DEF Onward
  <2> QED
      BY <2>2 DEF Live
<1>2. Seq(Live(t, rs)) \subseteq Seq(Live(t, qs))
    BY <1>1
<1> QED
    BY <1>2 DEF Sound

\* What a step has to see to.
LEMMA HeldStep ==
  ASSUME Held, user' = user, runs' \in [Runs -> Statuses],
         Onward(runs, runs'), now' \in now .. MaxTime, saves' \in 0 .. now',
         opening' \in BOOLEAN, drifted' \in BOOLEAN,
         \A a \in asked' : a \in asked \/ Waits(a)',
         graph' \in Canvas, first' \in Firsts(Canvas), history' \in Histories(Canvas),
         Load' + now <= Load + now'
  PROVE  Held'
<1>1. MaxTime' = MaxTime
    BY DEF MaxTime
<1>2. Canvas \subseteq Canvas'
  <2>1. Sound(MaxTime, runs) \subseteq Sound(MaxTime, runs')
      BY SoundGrows
  <2> QED
      BY <1>1, <2>1 DEF Canvas
<1>3. graph' \in Canvas' /\ first' \in Firsts(Canvas') /\ history' \in Histories(Canvas')
    BY <1>2, HistoriesGrow DEF Firsts
<1>4. \A a \in asked' : Waits(a)'
  <2> SUFFICES ASSUME NEW a \in asked', a \in asked PROVE Waits(a)'
      OBVIOUS
  <2>1. Waits(a) /\ now' > 0
      BY TimeIsNat DEF Held, Waits
  <2> QED
      BY <1>1, <2>1 DEF Waits, Onward
<1>5. Load' <= now' + 2
  <2>1. Span(history) \in Nat /\ Span(history') \in Nat
      BY TapeGivesHistory DEF Held
  <2>2. Load \in Nat /\ Load' \in Nat
    <3>1. saves \in Nat /\ saves' \in Nat
        BY TimeIsNat
    <3>2. Due \in Nat /\ Due' \in Nat
        BY DEF Due
    <3> QED
        BY <2>1, <3>1, <3>2 DEF Load
  <2>3. Load <= now + 2 /\ now \in Nat /\ MaxTime \in Nat
      BY TimeIsNat DEF Held
  <2>4. \A n, m, k, l \in Nat : m <= n + 2 /\ k + n <= m + l => k <= l + 2
      OBVIOUS
  <2>5. now' \in Nat
      BY <2>3
  <2> QED
      BY <2>2, <2>3, <2>4, <2>5
<1>6. user' \in Users /\ now' \in 0 .. MaxTime'
    BY <1>1, TimeIsNat DEF Held
<1> QED
    BY <1>3, <1>4, <1>5, <1>6 DEF Held

LEMMA InitHeld == Init => Held
<1> SUFFICES ASSUME Init PROVE Held
    OBVIOUS
<1>1. Blank \in Canvas
    BY BlankSound DEF Canvas
<1>2. history \in Histories(Canvas) /\ Span(history) = 1
    BY <1>1 DEF Init, Histories, Span
<1>3. first \in Firsts(Canvas) /\ Due = 1
    BY <1>1 DEF Init, Firsts, Due
<1>4. runs \in [Runs -> Statuses]
    BY DEF Init, Statuses
<1>5. MaxTime \in Nat /\ user \in Users
    BY EditorAssumption DEF Init, MaxTime
<1>6. now = 0 /\ saves = 0 /\ asked = {} /\ graph \in Canvas
      /\ opening \in BOOLEAN /\ drifted \in BOOLEAN
    BY <1>1 DEF Init
<1>7. Load <= now + 2
    BY <1>2, <1>3, <1>6 DEF Load
<1> QED
    BY <1>2, <1>3, <1>4, <1>5, <1>6, <1>7 DEF Held

\* A snapshot makes the history longer by at most one.
LEMMA SavedHistory ==
  ASSUME NEW S, NEW h \in Histories(S), NEW g \in S
  PROVE  /\ SaveSnapshot(h, g) \in Histories(S) /\ SaveSnapshot(h, g).present = g
         /\ Span(SaveSnapshot(h, g)) \in 1 .. Span(h) + 1
<1> DEFINE p == Append(h.past, h.present)
           q == IF Len(p) > Limit THEN Tail(p) ELSE p
           n == Len(h.past)
           m == Len(h.future)
<1>1. h.past \in Seq(S) /\ h.present \in S /\ h.future \in Seq(S)
    BY DEF Histories
<1>2. n \in Nat /\ m \in Nat /\ Span(h) = n + 1 + m
    BY TapeHasAll
<1>3. p \in Seq(S) /\ Len(p) = n + 1 /\ p # <<>>
    BY <1>1
<1> HIDE DEF p, n, m
<1>4. q \in Seq(S) /\ Len(q) \in 0 .. n + 1
    BY <1>2, <1>3
<1> HIDE DEF q
<1>5. CASE g = h.present
  <2>1. SaveSnapshot(h, g) = h
      BY <1>5 DEF SaveSnapshot
  <2> QED
      BY <1>2, <1>5, <2>1
<1>6. CASE g # h.present
  <2> DEFINE new == [present |-> g, future |-> <<>>, past |-> q]
  <2>1. SaveSnapshot(h, g) = new
      BY <1>6 DEF SaveSnapshot, q, p
  <2>2. new \in Histories(S) /\ new.present = g
      BY <1>4 DEF Histories
  <2>3. Span(new) = Len(q) + 1
      BY <1>4 DEF Span
  <2>4. Span(new) \in 1 .. Span(h) + 1
      BY <1>2, <1>4, <2>3
  <2> HIDE DEF new
  <2> QED
      BY <2>1, <2>2, <2>4
<1> QED
    BY <1>5, <1>6

\* The edits of single nodes.
Turn(n)     == [n EXCEPT !.look = 1 - @]
Straight(n) == [n EXCEPT !.look = 0]
Say(n, s)   == [n EXCEPT !.shows = s]

LEMMA LiveEdits ==
  ASSUME NEW t, NEW rs, NEW n \in Live(t, rs)
  PROVE  /\ Turn(n) \in Live(t, rs) /\ Turn(n).id = n.id
         /\ Straight(n) \in Live(t, rs) /\ Straight(n).id = n.id
    BY DEF Live, Turn, Straight

\* A node shows what its run tells, success only of a run that has succeeded.
LEMMA SaidLive ==
  ASSUME NEW t, NEW rs, NEW n \in Live(t, rs), NEW s \in {"idle", "queued", "running"} \cup Final,
         s = "succeeded" => n.run # None /\ rs[n.run] = "succeeded"
  PROVE  Say(n, s) \in Live(t, rs) /\ Say(n, s).id = n.id
<1>1. /\ Say(n, s).id = n.id /\ Say(n, s).look = n.look /\ Say(n, s).run = n.run
      /\ Say(n, s).shows = s
      /\ Say(n, s) \in [id : Names(t), look : 0 .. 1, run : Runs \cup {None},
                        shows : {"idle", "queued", "running"} \cup Final]
    BY DEF Live, Say
<1> QED
    BY <1>1 DEF Live

LEMMA TurnedSound ==
  ASSUME NEW t, NEW rs, NEW g \in Sound(t, rs), NEW id
  PROVE  Changed(g, id, Turned(g)) \in Sound(t, rs)
<1>1. ToSet(g.nodes) \subseteq Live(t, rs)
    BY SoundParts DEF ToSet
<1>2. \A n \in ToSet(g.nodes) : Turned(g)[n] \in Live(t, rs) /\ Turned(g)[n].id = n.id
  <2> TAKE n \in ToSet(g.nodes)
  <2>1. Turned(g)[n] = Turn(n)
      BY DEF Turned, Turn
  <2>2. n \in Live(t, rs)
      BY <1>1
  <2> QED
      BY <2>1, <2>2, LiveEdits
<1> QED
    BY <1>2, ChangedSound

\* What is shown decides whether the first snapshot is due.
LEMMA ShowsHeld ==
  ASSUME Held, NEW g \in Canvas, Shows(g)
  PROVE  graph' \in Canvas /\ first' \in Firsts(Canvas) /\ Due' = Due
<1>1. first \in Firsts(Canvas)
    BY DEF Held
<1>2. first' \in Firsts(Canvas)
    BY <1>1 DEF Shows, Firsts
<1>3. first'.timer = "fired" <=> first.timer = "fired"
    BY <1>1 DEF Shows, Firsts
<1> QED
    BY <1>2, <1>3 DEF Shows, Due

\* A gesture that changes the canvas and leaves the history to a timer, or
\* takes no snapshot at all.
LEMMA DrawnHeld ==
  ASSUME Held, NEW g \in Canvas, Shows(g), UNCHANGED <<user, history, runs>>,
         now' \in now .. MaxTime, saves' \in Nat, saves' + now <= saves + now',
         opening' \in BOOLEAN, drifted' \in BOOLEAN, asked' \subseteq asked
  PROVE  Held'
<1>1. graph' \in Canvas /\ first' \in Firsts(Canvas) /\ Due' = Due
    BY ShowsHeld
<1>2. Span(history) \in Nat
    BY TapeGivesHistory DEF Held
<1>3. now \in Nat /\ saves \in 0 .. now /\ MaxTime \in Nat
    BY TimeIsNat DEF Held
<1>4. Due \in {0, 1}
    BY DEF Due
<1>5. now' \in Nat /\ saves \in Nat /\ saves <= now
    BY <1>3
<1>6. Load' + now <= Load + now'
  <2>1. \A sp, sv, d, n, m, l \in Nat : l + n <= sv + m => sp + l + d + n <= sp + sv + d + m
      OBVIOUS
  <2> QED
      BY <1>1, <1>2, <1>3, <1>4, <1>5, <2>1 DEF Load
<1>7. saves' \in 0 .. now'
  <2>1. \A sv, n, m, l \in Nat : sv <= n /\ l + n <= sv + m => l \in 0 .. m
      OBVIOUS
  <2> QED
      BY <1>3, <1>5, <2>1
<1> QED
    BY <1>1, <1>6, <1>7, HeldStep DEF Held, Onward

\* A gesture that replaces the history too.
LEMMA RestoredHeld ==
  ASSUME Held, NEW g \in Canvas, Shows(g), NEW h \in Histories(Canvas), history' = h,
         Span(h) <= Span(history) + 1, UNCHANGED <<user, saves, opening, asked, runs>>,
         now' = now + 1, now + 1 <= MaxTime, drifted' \in BOOLEAN
  PROVE  Held'
<1>1. graph' \in Canvas /\ first' \in Firsts(Canvas) /\ Due' = Due
    BY ShowsHeld
<1>2. Span(history) \in Nat /\ Span(h) \in Nat
    BY TapeGivesHistory DEF Held
<1>3. now \in Nat /\ saves \in 0 .. now /\ MaxTime \in Nat
    BY TimeIsNat DEF Held
<1>4. Due \in {0, 1}
    BY DEF Due
<1>5. Load' + now <= Load + now'
    BY <1>1, <1>2, <1>3, <1>4 DEF Load
<1>6. saves' \in 0 .. now' /\ now' \in now .. MaxTime
    BY <1>3
<1> QED
    BY <1>1, <1>5, <1>6, HeldStep DEF Held, Onward

\* A step that leaves canvas and history alone, or only uses them up.
LEMMA QuietHeld ==
  ASSUME Held, UNCHANGED <<user, graph, first, saves, opening, runs, drifted>>,
         history' \in Histories(Canvas), Span(history') <= Span(history),
         now' \in now .. MaxTime, asked' \subseteq asked
  PROVE  Held'
<1>1. graph' \in Canvas /\ first' \in Firsts(Canvas) /\ Due' = Due
    BY DEF Held, Due
<1>2. Span(history) \in Nat /\ Span(history') \in Nat
    BY TapeGivesHistory DEF Held
<1>3. now \in Nat /\ saves \in Nat /\ saves <= now /\ MaxTime \in Nat /\ saves' = saves
    BY TimeIsNat DEF Held
<1>4. now' \in Nat /\ Due \in Nat /\ now <= now'
    BY <1>3 DEF Due
<1>5. Load' + now <= Load + now'
  <2>1. \A sp, sq, sv, d, n, m \in Nat : sq <= sp /\ n <= m => sq + sv + d + n <= sp + sv + d + m
      OBVIOUS
  <2> QED
      BY <1>1, <1>2, <1>3, <1>4, <2>1 DEF Load
<1>6. saves' \in 0 .. now'
    BY <1>3, <1>4
<1> QED
    BY <1>1, <1>5, <1>6, HeldStep DEF Held, Onward

\* The gestures that leave the snapshot to a timer.
LEMMA LaterHeld ==
  ASSUME Held, Add \/ (\E time \in 1 .. 2 : Paste(time)) \/ OrganizeLayout
               \/ \E a, b \in Ids(graph) : Connect(a, b)
  PROVE  Held'
<1>1. MaxTime \in Nat /\ now \in Nat /\ saves \in Nat /\ graph \in Canvas
    BY TimeIsNat DEF Held
<1>2. ASSUME NEW g \in Canvas, Shows(g), Later, NEW time \in 1 .. 2, Gesture(time)
      PROVE  Held'
  <2>1. /\ now' \in now .. MaxTime /\ saves' \in Nat /\ saves' + now <= saves + now'
        /\ UNCHANGED <<user, history, runs, opening, drifted, asked>>
    <3>1. now' = now + time /\ now + time <= MaxTime /\ saves' = saves + 1
        BY <1>2 DEF Gesture, Later
    <3>2. \A n, sv \in Nat : (sv + 1) + n <= sv + (n + time)
        OBVIOUS
    <3> QED
        BY <1>1, <1>2, <3>1, <3>2 DEF Later
  <2> QED
      BY <1>2, <2>1, DrawnHeld DEF Held
<1>3. CASE Add
  <2>1. now' \in 1 .. MaxTime
      BY <1>1, <1>3 DEF Add, Gesture
  <2>2. Node(<<"node", now'>>, None, 0) \in Live(MaxTime, runs)
      BY <1>1, <2>1, NodeLive
  <2>3. [graph EXCEPT !.nodes = Append(@, Node(<<"node", now'>>, None, 0))] \in Canvas
      BY <1>1, <2>2, AppendSound DEF Canvas
  <2> QED
      BY <1>2, <1>3, <2>3 DEF Add
<1>4. ASSUME NEW time \in 1 .. 2, Paste(time) PROVE Held'
  <2>1. now' \in 1 .. MaxTime /\ now + 1 \in 1 .. MaxTime
      BY <1>1, <1>4 DEF Paste, Gesture
  <2>2. /\ Node(<<"node", now + 1>>, None, 0) \in Live(MaxTime, runs)
        /\ Node(<<"node", now'>>, None, 1) \in Live(MaxTime, runs)
      BY <1>1, <2>1, NodeLive
  <2>3. [graph EXCEPT !.nodes = @ \o <<Node(<<"node", now + 1>>, None, 0),
                                      Node(<<"node", now'>>, None, 1)>>] \in Canvas
      BY <1>1, <2>2, PairSound DEF Canvas
  <2> QED
      BY <1>2, <1>4, <2>3 DEF Paste
<1>5. CASE OrganizeLayout
  <2> DEFINE f == [i \in DOMAIN graph.nodes |-> Straight(graph.nodes[i])]
             g == [graph EXCEPT !.nodes = [i \in DOMAIN @ |-> f[i]]]
  <2>1. graph.nodes \in Seq(Live(MaxTime, runs))
      BY <1>1, SoundParts DEF Canvas
  <2>2. \A i \in DOMAIN graph.nodes : f[i] \in Live(MaxTime, runs) /\ f[i].id = graph.nodes[i].id
      BY <2>1, LiveEdits
  <2>3. g = [graph EXCEPT !.nodes = [i \in DOMAIN @ |-> [@[i] EXCEPT !.look = 0]]]
      BY DEF Straight
  <2> HIDE DEF f
  <2>4. g \in Canvas
      BY <1>1, <2>2, RedrawnSound DEF Canvas
  <2> QED
      BY <1>2, <1>5, <2>3, <2>4 DEF OrganizeLayout
<1>6. ASSUME NEW a \in Ids(graph), NEW b \in Ids(graph), Connect(a, b) PROVE Held'
  <2>1. [graph EXCEPT !.edges = @ \cup {<<a, b>>}] \in Canvas
      BY <1>1, ConnectSound DEF Canvas
  <2> QED
      BY <1>2, <1>6, <2>1 DEF Connect
<1> QED
    BY <1>3, <1>4, <1>5, <1>6

\* The changes that take no snapshot: parameters, deletions, what answers and
\* events bring, the canvas that has been created.
LEMMA UnrecordedHeld ==
  ASSUME Held, \/ \E id \in Ids(graph) : Configure(id) \/ Delete(id)
               \/ \E e \in graph.edges : DeleteEdge(e)
               \/ \E a \in asked, time \in 0 .. 1 : Answer(a, time)
               \/ \E n \in ToSet(ById(graph).nodes) : Deliver(n)
               \/ Opened
  PROVE  Held'
<1>1. MaxTime \in Nat /\ now \in Nat /\ saves \in Nat /\ graph \in Canvas /\ ById(graph) \in Canvas
    BY TimeIsNat, ByIdSound DEF Held, Canvas
<1>2. ASSUME NEW g \in Canvas, Shows(g), Unrecorded, UNCHANGED <<user, runs>>,
             NEW time \in 0 .. 1, now' = now + time, now + time <= MaxTime,
             opening' \in BOOLEAN, asked' \subseteq asked
      PROVE  Held'
  <2>1. /\ now' \in now .. MaxTime /\ saves' \in Nat /\ saves' + now <= saves + now'
        /\ UNCHANGED history /\ drifted' \in BOOLEAN
    <3>1. \A n, sv \in Nat : sv + n <= sv + (n + time)
        OBVIOUS
    <3> QED
        BY <1>1, <1>2, <3>1 DEF Unrecorded
  <2> QED
      BY <1>2, <2>1, DrawnHeld
<1>3. ASSUME NEW id, Configure(id) PROVE Held'
  <2>1. PICK g \in {graph, ById(graph)} : Shows(Changed(g, id, Turned(g)))
      BY <1>3 DEF Configure
  <2>2. Changed(g, id, Turned(g)) \in Canvas
      BY <1>1, <2>1, TurnedSound DEF Canvas
  <2>3. now' = now + 1 /\ now + 1 <= MaxTime /\ Unrecorded /\ UNCHANGED <<user, runs, opening, asked>>
      BY <1>3 DEF Configure, Gesture, others
  <2>4. opening' \in BOOLEAN /\ asked' \subseteq asked
      BY <2>3 DEF Held
  <2> QED
      BY <1>2, <2>1, <2>2, <2>3, <2>4
<1>4. ASSUME NEW id, Delete(id) PROVE Held'
  <2>1. Without(graph, id) \in Canvas
      BY <1>1, WithoutSound DEF Canvas
  <2>2. now' = now + 1 /\ now + 1 <= MaxTime /\ Unrecorded /\ UNCHANGED <<user, runs, opening, asked>>
      BY <1>4 DEF Delete, Gesture, others
  <2>3. opening' \in BOOLEAN /\ asked' \subseteq asked /\ Shows(Without(graph, id))
      BY <1>4, <2>2 DEF Held, Delete
  <2> QED
      BY <1>2, <2>1, <2>2, <2>3
<1>5. ASSUME NEW a \in asked, NEW time \in 0 .. 1, Answer(a, time) PROVE Held'
  <2>1. /\ now' = now + time /\ now + time <= MaxTime /\ asked' \subseteq asked
        /\ UNCHANGED <<user, opening, runs>> /\ opening' \in BOOLEAN
      BY <1>5 DEF Answer, Held
  <2>2. Waits(a)
      BY DEF Held
  <2>3. CASE CanPlace(a.from)
    <3> DEFINE n == Node(TaskId, a.run, 0)
               g == [nodes |-> <<n>> \o graph.nodes,
                     edges |-> graph.edges \cup {<<a.from, TaskId>>}]
    <3>1. now' \in 1 .. MaxTime
        BY <1>1, <2>1, <2>2 DEF Waits
    <3>2. n \in Live(MaxTime, runs)
        BY <1>1, <2>2, <3>1, NodeLive DEF Waits, TaskId
    <3>3. n.id = TaskId
        BY DEF Node
    <3>4. a.from \in Ids(graph)
        BY <2>3 DEF CanPlace
    <3>5. Shows(g) /\ Unrecorded
        BY <1>5, <2>3 DEF Answer
    <3>6. g \in Canvas
      <4> HIDE DEF n
      <4>1. [nodes |-> <<n>> \o graph.nodes, edges |-> graph.edges \cup {<<a.from, n.id>>}]
              \in Sound(MaxTime, runs)
          BY <1>1, <3>2, <3>4, AnswerSound DEF Canvas
      <4> QED
          BY <3>3, <4>1 DEF Canvas
    <3> HIDE DEF g
    <3> QED
        BY <1>2, <2>1, <3>5, <3>6
  <2>4. CASE ~CanPlace(a.from)
    <3>1. UNCHANGED <<graph, first, history, saves, drifted>>
        BY <1>5, <2>4 DEF Answer
    <3>2. now' \in now .. MaxTime
        BY <1>1, <2>1
    <3>3. Span(history) \in Nat
        BY TapeGivesHistory DEF Held
    <3> QED
        BY <2>1, <3>1, <3>2, <3>3, QuietHeld DEF Held
  <2> QED
      BY <2>3, <2>4
<1>6. ASSUME NEW n \in ToSet(ById(graph).nodes), Deliver(n) PROVE Held'
  <2> DEFINE kept == ById(graph)
  <2>1. PICK s \in Events(n.run) :
          Shows(Changed(kept, n.id, [m \in ToSet(kept.nodes) |-> [m EXCEPT !.shows = s]]))
      BY <1>6 DEF Deliver
  <2>2. ToSet(kept.nodes) \subseteq Live(MaxTime, runs)
      BY <1>1, SoundParts DEF Canvas, ToSet
  <2>3. s \in {"idle", "queued", "running"} \cup Final /\ n.run # None
        /\ (s = "succeeded" => runs[n.run] = "succeeded")
      BY <1>6, <2>1 DEF Deliver, Listens, Events, Final
  <2> DEFINE new == [m \in ToSet(kept.nodes) |-> [m EXCEPT !.shows = s]]
  <2>4. \A m \in ToSet(kept.nodes) :
           m.id = n.id => new[m] \in Live(MaxTime, runs) /\ new[m].id = m.id
    <3> SUFFICES ASSUME NEW m \in ToSet(kept.nodes), m.id = n.id
                 PROVE  new[m] \in Live(MaxTime, runs) /\ new[m].id = m.id
        OBVIOUS
    <3>1. new[m] = Say(m, s)
        BY DEF Say
    <3>2. m \in Live(MaxTime, runs) /\ m = n
        BY <1>1, <2>2, ByIdUnique DEF Canvas
    <3> HIDE DEF new, kept
    <3>3. Say(m, s) \in Live(MaxTime, runs) /\ Say(m, s).id = m.id
      <4>1. s = "succeeded" => m.run # None /\ runs[m.run] = "succeeded"
          BY <2>3, <3>2
      <4> QED
          BY <2>3, <3>2, <4>1, SaidLive
    <3> QED
        BY <3>1, <3>3
  <2> HIDE DEF new, kept
  <2>5. Changed(kept, n.id, new) \in Canvas
      BY <1>1, <2>4, ChangedSound DEF Canvas, kept
  <2>6. Shows(Changed(kept, n.id, new))
      BY <2>1 DEF new
  <2>7. Unrecorded /\ UNCHANGED <<user, opening, asked, runs, now>>
      BY <1>6 DEF Deliver
  <2>8. now' = now + 0 /\ now + 0 <= MaxTime /\ opening' \in BOOLEAN /\ asked' \subseteq asked
      BY <1>1, <2>7 DEF Held
  <2> QED
      BY <1>2, <2>5, <2>6, <2>7, <2>8
<1>7. CASE Opened
  <2>1. Blank \in Canvas
      BY BlankSound DEF Canvas
  <2>2. now' = now + 0 /\ now + 0 <= MaxTime
      BY <1>1, <1>7 DEF Opened, Held
  <2>3. /\ Shows(Blank) /\ Unrecorded /\ UNCHANGED <<user, runs>>
        /\ opening' \in BOOLEAN /\ asked' \subseteq asked
      BY <1>7 DEF Opened
  <2> QED
      BY <1>2, <2>1, <2>2, <2>3
<1>8. ASSUME NEW e \in graph.edges, DeleteEdge(e) PROVE Held'
  <2>1. [graph EXCEPT !.edges = @ \ {e}] \in Canvas
      BY <1>1, FewerEdgesSound DEF Canvas
  <2>2. now' = now + 1 /\ now + 1 <= MaxTime /\ Unrecorded /\ UNCHANGED <<user, runs, opening, asked>>
      BY <1>8 DEF DeleteEdge, Gesture, others
  <2>3. opening' \in BOOLEAN /\ asked' \subseteq asked /\ Shows([graph EXCEPT !.edges = @ \ {e}])
      BY <1>8, <2>2 DEF Held, DeleteEdge
  <2> QED
      BY <1>2, <2>1, <2>2, <2>3
<1> QED
    BY <1>3, <1>4, <1>5, <1>6, <1>7, <1>8

\* The gestures and timers that write the history.
LEMMA HistoryHeld ==
  ASSUME Held, \/ \E id \in Ids(graph) : Drag(id)
               \/ \E k \in 1 .. Len(history.past) : Undo(k)
               \/ \E k \in 1 .. Len(history.future) : Redo(k)
               \/ Clear \/ Save \/ SaveFirst
  PROVE  Held'
<1>1. /\ MaxTime \in Nat /\ now \in Nat /\ saves \in Nat /\ graph \in Canvas
      /\ history \in Histories(Canvas) /\ Span(history) \in Nat
    BY TimeIsNat, TapeGivesHistory DEF Held
<1>2. ASSUME NEW id, Drag(id) PROVE Held'
  <2> DEFINE g == Changed(graph, id, Turned(graph))
             h == SaveSnapshot(history, g)
  <2>1. g \in Canvas
      BY <1>1, TurnedSound DEF Canvas
  <2>2. h \in Histories(Canvas) /\ Span(h) <= Span(history) + 1
      BY <1>1, <2>1, SavedHistory
  <2>3. /\ Shows(g) /\ history' = h /\ drifted' = FALSE
        /\ now' = now + 1 /\ now + 1 <= MaxTime /\ UNCHANGED <<user, saves, opening, asked, runs>>
      BY <1>2 DEF Drag, Gesture, Shows
  <2> HIDE DEF g, h
  <2> QED
      BY <2>1, <2>2, <2>3, RestoredHeld
<1>3. ASSUME NEW h \in Histories(Canvas), Span(h) = Span(history), Restore(h) PROVE Held'
  <2>1. h.present \in Canvas
      BY <1>3 DEF Histories
  <2>2. /\ Shows(h.present) /\ history' = h /\ drifted' = FALSE
        /\ now' = now + 1 /\ now + 1 <= MaxTime /\ UNCHANGED <<user, saves, opening, asked, runs>>
      BY <1>3 DEF Restore, Gesture, Shown
  <2>3. Span(h) <= Span(history) + 1
      BY <1>1, <1>3
  <2> QED
      BY <2>1, <2>2, <2>3, RestoredHeld
<1>4. ASSUME NEW k \in 1 .. Len(history.past), Undo(k) PROVE Held'
    BY <1>1, <1>3, <1>4, JumpLands DEF Undo
<1>5. ASSUME NEW k \in 1 .. Len(history.future), Redo(k) PROVE Held'
    BY <1>1, <1>3, <1>5, JumpLands DEF Redo
<1>6. CASE Clear
  <2> DEFINE h == [past |-> <<>>, present |-> history.present, future |-> <<>>]
  <2>1. history' = h
      BY <1>1, <1>6 DEF Clear, Histories
  <2>2. h \in Histories(Canvas)
      BY <1>1 DEF Histories
  <2>3. Span(h) <= Span(history)
    <3>1. Span(h) = 1
        BY DEF Span
    <3>2. Len(history.past) \in Nat /\ Len(history.future) \in Nat
          /\ Span(history) = Len(history.past) + 1 + Len(history.future)
        BY <1>1, TapeHasAll
    <3>3. \A n, m \in Nat : 1 <= n + 1 + m
        OBVIOUS
    <3> HIDE DEF h
    <3> QED
        BY <3>1, <3>2, <3>3
  <2>4. now' \in now .. MaxTime
      BY <1>1, <1>6 DEF Clear, Gesture
  <2> HIDE DEF h
  <2>5. UNCHANGED <<user, graph, first, saves, opening, asked, runs, drifted>>
      BY <1>6 DEF Clear
  <2> QED
      BY <2>1, <2>2, <2>3, <2>4, <2>5, QuietHeld
<1>7. ASSUME NEW g \in Canvas, history' = SaveSnapshot(history, g),
             saves' \in Nat, saves' <= saves, first' \in Firsts(Canvas), drifted' \in BOOLEAN,
             saves' + Due' + 1 = saves + Due, UNCHANGED <<user, graph, opening, asked, runs, now>>
      PROVE  Held'
  <2>1. history' \in Histories(Canvas) /\ Span(history') \in 1 .. Span(history) + 1
      BY <1>1, <1>7, SavedHistory
  <2>2. Load' + now <= Load + now'
    <3>1. \A sp, sq, sv, d, l, e, n \in Nat :
            sq <= sp + 1 /\ l + e + 1 = sv + d => sq + l + e + n <= sp + sv + d + n
        OBVIOUS
    <3>2. Due \in Nat /\ Due' \in Nat
        BY DEF Due
    <3>3. Span(history') \in Nat /\ Span(history') <= Span(history) + 1
        BY <1>1, <2>1
    <3> QED
        BY <1>1, <1>7, <3>1, <3>2, <3>3 DEF Load
  <2>3. now' \in now .. MaxTime /\ saves' \in 0 .. now'
      BY <1>1, <1>7 DEF Held
  <2> QED
      BY <1>7, <2>1, <2>2, <2>3, HeldStep DEF Held, Onward
<1>8. CASE Save
  <2>1. saves > 0 /\ saves' = saves - 1 /\ Due' = Due
      BY <1>8 DEF Save, Due
  <2>2. saves' \in Nat /\ saves' <= saves /\ saves' + Due' + 1 = saves + Due
    <3>1. Due \in {0, 1}
        BY DEF Due
    <3> QED
        BY <1>1, <2>1, <3>1
  <2>3. /\ history' = SaveSnapshot(history, graph) /\ drifted' \in BOOLEAN
        /\ first' \in Firsts(Canvas) /\ UNCHANGED <<user, graph, opening, asked, runs, now>>
      BY <1>8 DEF Save, Held
  <2> QED
      BY <1>1, <1>7, <2>2, <2>3
<1>9. CASE SaveFirst
  <2>1. first.timer = "set" /\ first' = [timer |-> "fired", graph |-> Blank] /\ saves' = saves
      BY <1>9 DEF SaveFirst
  <2>2. Due = 1 /\ Due' = 0
      BY <2>1 DEF Due
  <2>3. saves' \in Nat /\ saves' <= saves /\ saves' + Due' + 1 = saves + Due
      BY <1>1, <2>1, <2>2
  <2>4. Blank \in Canvas
      BY BlankSound DEF Canvas
  <2>5. first' \in Firsts(Canvas) /\ first.graph \in Canvas
      BY <2>1, <2>4 DEF Firsts, Held
  <2>6. /\ history' = SaveSnapshot(history, first.graph) /\ drifted' \in BOOLEAN
        /\ UNCHANGED <<user, graph, opening, asked, runs, now>>
      BY <1>9 DEF SaveFirst, Held
  <2> QED
      BY <1>7, <2>3, <2>5, <2>6
<1> QED
    BY <1>2, <1>4, <1>5, <1>6, <1>8, <1>9

\* The starts and ends of runs.
LEMMA RunsHeld ==
  ASSUME Held, \/ \E id \in Ids(graph), r \in Runs : Execute(id, r)
               \/ \E a \in asked : Refused(a)
               \/ \E r \in Runs : Finish(r)
  PROVE  Held'
<1>1. /\ MaxTime \in Nat /\ now \in Nat /\ saves \in Nat /\ saves <= now /\ graph \in Canvas
      /\ history \in Histories(Canvas) /\ Span(history) \in Nat
    BY TimeIsNat, TapeGivesHistory DEF Held
<1>2. ASSUME runs' \in [Runs -> Statuses], Onward(runs, runs'),
             \A a \in asked' : a \in asked \/ Waits(a)', now' \in now .. MaxTime,
             UNCHANGED <<user, graph, history, first, saves, opening, drifted>>
      PROVE  Held'
  <2>1. Load' + now <= Load + now'
    <3>1. Load' = Load /\ now' \in Nat /\ now <= now'
        BY <1>1, <1>2 DEF Load, Due
    <3>2. Load \in Nat
        BY <1>1 DEF Load, Due
    <3>3. \A l, n, m \in Nat : n <= m => l + n <= l + m
        OBVIOUS
    <3> QED
        BY <1>1, <3>1, <3>2, <3>3
  <2>2. saves' \in 0 .. now'
      BY <1>1, <1>2
  <2> QED
      BY <1>2, <2>1, <2>2, HeldStep DEF Held
<1>3. ASSUME NEW id \in Ids(graph), NEW r \in Runs, Execute(id, r) PROVE Held'
  <2>1. /\ now' = now + 1 /\ now + 1 <= MaxTime /\ runs[r] = "none"
        /\ runs' = [runs EXCEPT ![r] = "queued"]
        /\ asked' = asked \cup {[run |-> r, from |-> id]}
        /\ UNCHANGED <<user, graph, history, first, saves, opening, drifted>>
      BY <1>3 DEF Execute, Gesture
  <2>2. PICK n \in ToSet(graph.nodes) : n.id = id /\ n.run = None
      BY <1>3 DEF Execute
  <2>3. n \in Live(MaxTime, runs)
      BY <1>1, SoundParts DEF Canvas, ToSet
  <2>4. id \in {"node"} \X (1 .. MaxTime)
      BY <2>2, <2>3 DEF Live, Names
  <2>5. runs' \in [Runs -> Statuses] /\ runs'[r] = "queued"
      BY <2>1 DEF Held, Statuses
  <2>6. Onward(runs, runs')
      BY <2>1 DEF Held, Onward
  <2>7. Waits([run |-> r, from |-> id])'
    <3>1. now' > 0 /\ MaxTime' = MaxTime
        BY <1>1, <2>1 DEF MaxTime
    <3> QED
        BY <2>4, <2>5, <3>1 DEF Waits
  <2>8. now' \in now .. MaxTime
      BY <1>1, <2>1
  <2> QED
      BY <1>2, <2>1, <2>5, <2>6, <2>7, <2>8
<1>4. ASSUME NEW a \in asked, Refused(a) PROVE Held'
  <2>1. UNCHANGED <<user, graph, history, first, saves, opening, runs, now, drifted>>
        /\ asked' \subseteq asked
      BY <1>4 DEF Refused
  <2> QED
      BY <1>1, <1>2, <2>1 DEF Held, Onward
<1>5. ASSUME NEW r \in Runs, Finish(r) PROVE Held'
  <2>1. runs[r] = "queued" /\ runs' = [runs EXCEPT ![r] = "succeeded"]
      BY <1>5 DEF Finish
  <2>2. UNCHANGED <<user, graph, history, first, saves, opening, asked, now, drifted>>
      BY <1>5 DEF Finish
  <2>3. runs' \in [Runs -> Statuses] /\ Onward(runs, runs')
      BY <2>1 DEF Held, Statuses, Onward
  <2>4. now' \in now .. MaxTime /\ \A a \in asked' : a \in asked
      BY <1>1, <2>2 DEF Held
  <2> QED
      BY <1>2, <2>2, <2>3, <2>4
<1> QED
    BY <1>3, <1>4, <1>5

LEMMA NextHeld == Held /\ [Next]_vars => Held'
<1> SUFFICES ASSUME Held, [Next]_vars PROVE Held'
    OBVIOUS
<1>1. CASE UNCHANGED vars
    BY <1>1 DEF Held, vars, Canvas, MaxTime, Load, Due, Waits
<1>2. CASE Next
    BY <1>2, LaterHeld, UnrecordedHeld, HistoryHeld, RunsHeld DEF Next, User
<1> QED
    BY <1>1, <1>2

LEMMA HeldAlways == Spec => []Held
    BY InitHeld, NextHeld, PTL DEF Spec

(***************************************************************************)
(* What follows from it.                                                   *)
(***************************************************************************)

LEMMA SnapshotsSound == Held => Snapshots \cup {graph} \subseteq Canvas
<1> SUFFICES ASSUME Held PROVE Snapshots \cup {graph} \subseteq Canvas
    OBVIOUS
<1>1. /\ history.past \in Seq(Canvas) /\ history.present \in Canvas
      /\ history.future \in Seq(Canvas) /\ graph \in Canvas
    BY DEF Held, Histories
<1>2. ToSet(history.past) \subseteq Canvas /\ ToSet(history.future) \subseteq Canvas
    BY <1>1 DEF ToSet
<1> QED
    BY <1>1, <1>2 DEF Snapshots

\* For any users, runs and length of the history the editor keeps the types
\* of its state, in every snapshot: a node without a run is never a task
\* node, no status is shown that the server cannot send, and neither timers
\* nor entries of the history outgrow the clock.
THEOREM EditorIsTyped == Spec => []TypeOK
<1>1. Held => TypeOK
  <2> SUFFICES ASSUME Held PROVE TypeOK
      OBVIOUS
  <2>1. ASSUME NEW g \in Snapshots \cup {graph}, NEW n \in ToSet(g.nodes)
        PROVE  n \in Live(MaxTime, runs)
      BY <2>1, SnapshotsSound, SoundParts DEF Canvas, ToSet
  <2>2. Len(history.past) <= MaxTime + 1
    <3>1. /\ Len(history.past) \in Nat /\ Len(history.future) \in Nat
          /\ Span(history) = Len(history.past) + 1 + Len(history.future)
        BY TapeHasAll DEF Held
    <3>2. Due \in Nat /\ now \in Nat /\ saves \in Nat /\ MaxTime \in Nat
          /\ now <= MaxTime /\ Load <= now + 2
        BY TimeIsNat DEF Held, Due
    <3>3. \A p, f, sv, d, n, t \in Nat :
            n <= t /\ (p + 1 + f) + sv + d <= n + 2 => p <= t + 1
        OBVIOUS
    <3> QED
        BY <3>1, <3>2, <3>3 DEF Load
  <2>3. saves \in 0 .. MaxTime
      BY TimeIsNat DEF Held
  <2>4. asked \subseteq [run : Runs, from : {"node"} \X (1 .. MaxTime)]
      BY DEF Held, Waits
  <2> QED
      BY <2>1, <2>2, <2>3, <2>4 DEF TypeOK, Live, Names
<1> QED
    BY <1>1, HeldAlways, PTL

\* No edge hangs in the air, whatever is deleted, pasted, answered, undone or
\* redone and however old the snapshot that comes back.
THEOREM EdgesAlwaysConnect == Spec => []EdgesConnect
<1>1. Held => EdgesConnect
    BY SnapshotsSound, SoundParts DEF EdgesConnect, Canvas
<1> QED
    BY <1>1, HeldAlways, PTL

\* Success is shown only for a run that has succeeded, on the canvas and in
\* every snapshot, for any number of runs: a success once seen stays with the
\* run, and an update through React Flow finds no second node of the id.
THEOREM SuccessAlwaysReal == Spec => []SuccessIsReal
<1>1. Held => SuccessIsReal
  <2> SUFFICES ASSUME Held, NEW g \in Snapshots \cup {graph}, NEW n \in ToSet(g.nodes)
               PROVE  n.shows = "succeeded" => n.run # None /\ runs[n.run] = "succeeded"
      BY DEF SuccessIsReal
  <2>1. n \in Live(MaxTime, runs)
      BY SnapshotsSound, SoundParts DEF Canvas, ToSet
  <2> QED
      BY <2>1 DEF Live
<1> QED
    BY <1>1, HeldAlways, PTL

(***************************************************************************)
(* What a patient user sees.  Until the first node is shown nothing is on  *)
(* the canvas and in the history, and no run is started; from then until   *)
(* its snapshot is taken the canvas is the one captured.  So the snapshot  *)
(* of the first nodes, taken of a canvas of the past, never overtakes what *)
(* a patient user did since.                                               *)
(***************************************************************************)

Bare == [nodes : {<<>>}, edges : SUBSET (Names(MaxTime) \X Names(MaxTime))]

Untouched ==
    first.timer = "unset" => graph.nodes = <<>> /\ asked = {} /\ history \in Histories(Bare)
Captured ==
    first.timer = "set" => /\ graph = first.graph /\ asked = {}
                           /\ \A n \in ToSet(graph.nodes) : n.run = None
Current == Quiet /\ ~drifted => graph = history.present
Calm == /\ Untouched
        /\ Patient => (opening => first.timer = "unset") /\ Captured /\ Current

LEMMA BareCanvas ==
  ASSUME Held, NEW g \in Canvas, g.nodes = <<>>
  PROVE  g \in Bare
    BY SoundParts DEF Canvas, Bare

LEMMA InitCalm == Init => Calm
<1> SUFFICES ASSUME Init PROVE Calm
    OBVIOUS
<1>1. Blank \in Bare
    BY DEF Blank, Bare
<1>2. history \in Histories(Bare)
    BY <1>1 DEF Init, Histories
<1> QED
    BY <1>2 DEF Init, Calm, Untouched, Captured, Current, Blank

\* While nothing was shown there is no node to lay a hand on.
LEMMA UntouchedHasNone ==
  ASSUME Untouched, first.timer = "unset"
  PROVE  Ids(graph) = {} /\ ToSet(graph.nodes) = {} /\ graph.nodes = <<>>
    BY DEF Untouched, Ids, ToSet

LEMMA ShowsUntouched ==
  ASSUME NEW g, Shows(g), first'.timer = "unset"
  PROVE  first.timer = "unset" /\ g.nodes = <<>> /\ first' = first
<1>1. CASE first.timer = "unset" /\ g.nodes # <<>>
    BY <1>1 DEF Shows
<1>2. CASE ~(first.timer = "unset" /\ g.nodes # <<>>)
    BY <1>2 DEF Shows
<1> QED
    BY <1>1, <1>2

LEMMA NextUntouched == Held /\ Untouched /\ [Next]_vars => Untouched'
<1> SUFFICES ASSUME Held, Untouched, [Next]_vars, first'.timer = "unset"
             PROVE  graph'.nodes = <<>> /\ asked' = {} /\ history' \in Histories(Bare')
    BY DEF Untouched
<1>1. user' = user
    BY DEF vars, Next, User, Add, Paste, OrganizeLayout, Connect, Later, Drag, Configure,
           Delete, DeleteEdge, Undo, Redo, Restore, Clear, Execute, Save, SaveFirst, Opened, Refused,
           Answer, Finish, Deliver, Unrecorded, others
<1>2. Bare' = Bare
    BY <1>1 DEF Bare, MaxTime
<1>3. ASSUME first.timer = "unset" PROVE /\ graph.nodes = <<>> /\ asked = {}
                                         /\ history \in Histories(Bare) /\ graph \in Bare
    BY <1>3, BareCanvas DEF Untouched, Held
<1>4. ASSUME NEW g, Shows(g), asked' \subseteq asked, history' = history
      PROVE  graph'.nodes = <<>> /\ asked' = {} /\ history' \in Histories(Bare')
    BY <1>2, <1>3, <1>4, ShowsUntouched DEF Shows
<1>5. ASSUME NEW h, Restore(h),
             history \in Histories(Bare) => h \in Histories(Bare)
      PROVE  graph'.nodes = <<>> /\ asked' = {} /\ history' \in Histories(Bare')
    BY <1>2, <1>3, <1>5, ShowsUntouched DEF Restore, Shows
<1>6. CASE Add \/ (\E time \in 1 .. 2 : Paste(time)) \/ OrganizeLayout
           \/ \E a, b \in Ids(graph) : Connect(a, b)
  <2>1. PICK g : Shows(g) /\ Later
      BY <1>6 DEF Add, Paste, OrganizeLayout, Connect
  <2> QED
      BY <1>4, <2>1 DEF Later
<1>7. CASE \E id \in Ids(graph) : \/ Drag(id) \/ Configure(id) \/ Delete(id)
                                \/ \E r \in Runs : Execute(id, r)
  <2>1. first.timer = "unset"
    <3>1. (\E g : Shows(g)) \/ first' = first
        BY <1>7 DEF Drag, Configure, Delete, Execute
    <3> QED
        BY <3>1, ShowsUntouched
  <2> QED
      BY <1>7, <2>1, UntouchedHasNone
<1>8. CASE \/ \E k \in 1 .. Len(history.past) : Undo(k)
           \/ \E k \in 1 .. Len(history.future) : Redo(k)
  <2>1. PICK h : Restore(h) /\ \/ \E k \in 1 .. Len(history.past) : h = UndoSteps(history, k)
                               \/ \E k \in 1 .. Len(history.future) : h = RedoSteps(history, k)
      BY <1>8 DEF Undo, Redo
  <2>2. history \in Histories(Bare) => h \in Histories(Bare)
      BY <2>1, JumpLands
  <2> QED
      BY <1>5, <2>1, <2>2
<1>9. CASE Clear
  <2>1. /\ first.timer = "unset" /\ UNCHANGED <<graph, asked>>
        /\ history' = [history EXCEPT !.past = <<>>, !.future = <<>>]
      BY <1>9 DEF Clear
  <2>2. history' \in Histories(Bare)
    <3>1. history \in Histories(Bare)
        BY <1>3, <2>1
    <3>2. history' = [past |-> <<>>, present |-> history.present, future |-> <<>>]
        BY <2>1, <3>1 DEF Histories
    <3>3. <<>> \in Seq(Bare) /\ history.present \in Bare
        BY <3>1 DEF Histories
    <3> QED
        BY <3>2, <3>3 DEF Histories
  <2> QED
      BY <1>2, <1>3, <2>1, <2>2
<1>10. CASE Save
  <2>1. /\ first.timer = "unset" /\ UNCHANGED <<graph, asked>>
        /\ history' = SaveSnapshot(history, graph)
      BY <1>10 DEF Save
  <2>2. history' \in Histories(Bare)
      BY <1>3, <2>1, SavedHistory
  <2> QED
      BY <1>2, <1>3, <2>1, <2>2
<1>11. CASE SaveFirst
    BY <1>11 DEF SaveFirst
<1>12. CASE Opened
    BY <1>4, <1>12 DEF Opened, Unrecorded
<1>13. CASE \E a \in asked : Refused(a) \/ \E time \in 0 .. 1 : Answer(a, time)
  <2>1. first.timer = "unset"
    <3>1. (\E g : Shows(g)) \/ first' = first
        BY <1>13 DEF Refused, Answer
    <3> QED
        BY <3>1, ShowsUntouched
  <2> QED
      BY <1>3, <1>13, <2>1
<1>14. CASE \/ \E n \in ToSet(ById(graph).nodes) : Deliver(n)
            \/ \E e \in graph.edges : DeleteEdge(e)
  <2>1. PICK g : Shows(g) /\ Unrecorded /\ asked' = asked
      BY <1>14 DEF Deliver, DeleteEdge, others
  <2> QED
      BY <1>4, <2>1 DEF Unrecorded
<1>15. CASE (\E r \in Runs : Finish(r)) \/ UNCHANGED vars
    BY <1>2, <1>3, <1>15 DEF Finish, vars
<1> QED
    BY <1>6, <1>7, <1>8, <1>9, <1>10, <1>11, <1>12, <1>13, <1>14, <1>15 DEF Next, User

\* An event is for a node of the canvas.
LEMMA ByIdKeepsNodes ==
  ASSUME Held, NEW n \in ToSet(ById(graph).nodes)
  PROVE  n \in ToSet(graph.nodes)
<1> DEFINE s == graph.nodes
<1>1. graph \in Canvas
    BY DEF Held
<1>2. s \in Seq(Live(MaxTime, runs))
    BY <1>1, SoundParts DEF Canvas
<1>3. ById(graph).nodes = Kept(s, Newest(s))
    BY <1>1, SoundParts DEF ById, Canvas
<1>4. Newest(s) \in SUBSET DOMAIN s
    BY DEF Newest
<1>5. ToSet(Kept(s, Newest(s))) = {s[i] : i \in Newest(s)}
    BY <1>2, <1>4, KeptMembers
<1> QED
    BY <1>3, <1>4, <1>5 DEF ToSet

\* A patient user's gesture finds no snapshot due and the canvas created.
LEMMA PatientGesture ==
  ASSUME Held, Patient, NEW time, Gesture(time)
  PROVE  saves = 0 /\ first.timer \in {"unset", "fired"} /\ ~opening
    BY DEF Held, Firsts, Gesture, Quiet

\* Once fired the timer stays so.
LEMMA ShowsFired ==
  ASSUME NEW g, Shows(g), first.timer = "fired"
  PROVE  first' = first /\ graph' = g
    BY DEF Shows

\* What a step of the patient user's program has to see to.
LEMMA CalmFired ==
  ASSUME first.timer = "fired", first'.timer = "fired", opening' = opening, ~opening,
         saves' = 0 /\ ~drifted' => graph' = history'.present
  PROVE  (opening' => first'.timer = "unset") /\ Captured' /\ Current'
    BY DEF Captured, Current, Quiet

\* The gestures with a timer: the first of them finds a bare canvas.
LEMMA LaterCalm ==
  ASSUME Held, Calm, Patient,
         \/ Add \/ (\E time \in 1 .. 2 : Paste(time)) \/ OrganizeLayout
         \/ \E a, b \in Ids(graph) : Connect(a, b)
  PROVE  (opening' => first'.timer = "unset") /\ Captured' /\ Current'
<1>1. PICK g, time : Gesture(time) /\ Shows(g) /\ Later
    BY DEF Add, Paste, OrganizeLayout, Connect
<1>2. saves = 0 /\ first.timer \in {"unset", "fired"} /\ ~opening /\ ~opening'
    BY <1>1, PatientGesture DEF Later
<1>3. Current'
  <2>1. saves' # 0
      BY <1>1, <1>2 DEF Later
  <2> QED
      BY <2>1 DEF Current, Quiet
<1>4. ASSUME first'.timer = "set"
      PROVE  graph' = first'.graph /\ asked' = {} /\ \A n \in ToSet(graph'.nodes) : n.run = None
  <2>1. first.timer = "unset"
      BY <1>1, <1>2, <1>4, ShowsFired
  <2>2. graph' = first'.graph
      BY <1>1, <1>4, <2>1 DEF Shows
  <2>3. graph.nodes = <<>> /\ asked = {} /\ Ids(graph) = {} /\ graph \in Canvas
      BY <2>1, UntouchedHasNone DEF Calm, Untouched, Held
  <2>4. asked' = {}
      BY <1>1, <2>3 DEF Later
  <2>5. CASE Add
    <3> DEFINE n == Node(<<"node", now'>>, None, 0)
    <3>1. graph' = [graph EXCEPT !.nodes = Append(@, n)]
        BY <2>5 DEF Add, Shows
    <3>2. n.run = None
        BY DEF Node
    <3> HIDE DEF n
    <3>3. graph'.nodes = <<n>>
        BY <2>3, <3>1, SoundParts DEF Canvas
    <3> QED
        BY <2>2, <2>4, <3>2, <3>3 DEF ToSet
  <2>6. ASSUME NEW t \in 1 .. 2, Paste(t)
        PROVE  \A n \in ToSet(graph'.nodes) : n.run = None
    <3> DEFINE m == Node(<<"node", now + 1>>, None, 0)
               n == Node(<<"node", now'>>, None, 1)
    <3>1. graph' = [graph EXCEPT !.nodes = @ \o <<m, n>>]
        BY <2>6 DEF Paste, Shows
    <3>2. m.run = None /\ n.run = None
        BY DEF Node
    <3> HIDE DEF m, n
    <3>3. graph'.nodes = <<m, n>>
        BY <2>3, <3>1, SoundParts DEF Canvas
    <3> QED
        BY <3>2, <3>3 DEF ToSet
  <2> QED
      BY <2>2, <2>3, <2>4, <2>5, <2>6 DEF OrganizeLayout
<1> QED
    BY <1>2, <1>3, <1>4 DEF Captured

\* The other gestures.
LEMMA GestureCalm ==
  ASSUME Held, Calm, Patient,
         \/ \E id \in Ids(graph) : \/ Drag(id) \/ Configure(id) \/ Delete(id)
                                  \/ \E r \in Runs : Execute(id, r)
         \/ \E e \in graph.edges : DeleteEdge(e)
         \/ \E k \in 1 .. Len(history.past) : Undo(k)
         \/ \E k \in 1 .. Len(history.future) : Redo(k)
         \/ Clear
  PROVE  (opening' => first'.timer = "unset") /\ Captured' /\ Current'
<1>1. /\ saves = 0 /\ first.timer \in {"unset", "fired"} /\ ~opening
      /\ opening' = opening /\ saves' = saves
    BY PatientGesture DEF Drag, Configure, Delete, DeleteEdge, Execute, Undo, Redo, Restore, Clear,
                          Unrecorded, others
<1>2. Untouched /\ Current
    BY DEF Calm
<1>3. ASSUME NEW id \in Ids(graph), Drag(id) \/ Configure(id) \/ Delete(id) \/ \E r \in Runs : Execute(id, r)
      PROVE  (opening' => first'.timer = "unset") /\ Captured' /\ Current'
  <2>1. first.timer = "fired"
      BY <1>1, <1>2, UntouchedHasNone
  <2>2. CASE Drag(id)
    <3> DEFINE g == Changed(graph, id, Turned(graph))
    <3>1. Shows(g) /\ history' = SaveSnapshot(history, graph')
        BY <2>2 DEF Drag
    <3>2. first' = first
        BY <2>1, <3>1, ShowsFired
    <3>3. graph' = history'.present
        BY <3>1 DEF SaveSnapshot
    <3> QED
        BY <1>1, <2>1, <3>2, <3>3, CalmFired
  <2>3. CASE Configure(id) \/ Delete(id)
    <3>1. PICK g : Shows(g) /\ drifted'
        BY <2>3 DEF Configure, Delete, Unrecorded
    <3>2. first' = first
        BY <2>1, <3>1, ShowsFired
    <3> QED
        BY <1>1, <2>1, <3>1, <3>2, CalmFired
  <2>4. ASSUME NEW r \in Runs, Execute(id, r)
        PROVE  (opening' => first'.timer = "unset") /\ Captured' /\ Current'
    <3>1. UNCHANGED <<graph, history, first, drifted>>
        BY <2>4 DEF Execute
    <3> QED
        BY <1>1, <1>2, <2>1, <3>1, CalmFired DEF Current, Quiet
  <2> QED
      BY <1>3, <2>2, <2>3, <2>4
<1>4. ASSUME NEW h, Restore(h), history \in Histories(Bare) => h \in Histories(Bare)
      PROVE  (opening' => first'.timer = "unset") /\ Captured' /\ Current'
  <2>1. Shows(h.present) /\ history' = h
      BY <1>4 DEF Restore, Shown
  <2>2. CASE first.timer = "fired"
      BY <1>1, <2>1, <2>2, ShowsFired, CalmFired
  <2>3. CASE first.timer = "unset"
    <3>1. h.present.nodes = <<>>
        BY <1>2, <1>4, <2>3 DEF Untouched, Histories, Bare
    <3>2. first' = first /\ graph' = h.present
        BY <2>1, <3>1 DEF Shows
    <3> QED
        BY <1>1, <2>1, <2>3, <3>2 DEF Captured, Current
  <2> QED
      BY <1>1, <2>2, <2>3
<1>5. ASSUME NEW k \in 1 .. Len(history.past), Undo(k)
      PROVE  Restore(UndoSteps(history, k))
             /\ (history \in Histories(Bare) => UndoSteps(history, k) \in Histories(Bare))
    BY <1>5, JumpLands DEF Undo
<1>6. ASSUME NEW k \in 1 .. Len(history.future), Redo(k)
      PROVE  Restore(RedoSteps(history, k))
             /\ (history \in Histories(Bare) => RedoSteps(history, k) \in Histories(Bare))
    BY <1>6, JumpLands DEF Redo
<1>7. CASE Clear
  <2>1. UNCHANGED <<graph, first, drifted, asked>>
      BY <1>7 DEF Clear
  <2>2. history'.present = history.present
    <3>1. history' = [past |-> <<>>, present |-> history.present, future |-> <<>>]
        BY <1>7 DEF Clear, Held, Histories
    <3> QED
        BY <3>1
  <2> QED
      BY <1>1, <1>2, <2>1, <2>2 DEF Captured, Current, Quiet
<1>8. ASSUME NEW e \in graph.edges, DeleteEdge(e)
      PROVE  (opening' => first'.timer = "unset") /\ Captured' /\ Current'
  <2>1. e[1] \in Ids(graph)
      BY SoundParts DEF Held, Canvas
  <2>2. first.timer = "fired"
      BY <1>1, <1>2, <2>1, UntouchedHasNone
  <2>3. PICK g : Shows(g) /\ drifted'
      BY <1>8 DEF DeleteEdge, Unrecorded
  <2>4. first' = first
      BY <2>2, <2>3, ShowsFired
  <2> QED
      BY <1>1, <2>2, <2>3, <2>4, CalmFired
<1> QED
    BY <1>3, <1>4, <1>5, <1>6, <1>7, <1>8

\* Timers, answers, events and the ends of runs.
LEMMA ArrivalCalm ==
  ASSUME Held, Calm, Patient,
         \/ Save \/ SaveFirst \/ Opened
         \/ \E a \in asked : Refused(a) \/ \E time \in 0 .. 1 : Answer(a, time)
         \/ \E r \in Runs : Finish(r)
         \/ \E n \in ToSet(ById(graph).nodes) : Deliver(n)
         \/ UNCHANGED vars
  PROVE  (opening' => first'.timer = "unset") /\ Captured' /\ Current'
<1>1. (opening => first.timer = "unset") /\ Untouched /\ Captured /\ Current
    BY DEF Calm
<1>2. CASE Save
  <2>1. history'.present = graph' /\ UNCHANGED <<graph, first, opening, asked>>
      BY <1>2 DEF Save, SaveSnapshot
  <2> QED
      BY <1>1, <2>1 DEF Captured, Current
<1>3. CASE SaveFirst
  <2>1. /\ first.timer = "set" /\ first'.timer = "fired" /\ graph' = graph /\ opening' = opening
        /\ history'.present = first.graph
      BY <1>3 DEF SaveFirst, SaveSnapshot
  <2> QED
      BY <1>1, <2>1 DEF Captured, Current
<1>4. CASE Opened
  <2>1. opening /\ ~opening' /\ Shows(Blank) /\ drifted'
      BY <1>4 DEF Opened, Unrecorded
  <2>2. first' = first /\ first.timer = "unset"
      BY <1>1, <2>1 DEF Shows, Blank
  <2> QED
      BY <2>1, <2>2 DEF Captured, Current
<1>5. ASSUME NEW a \in asked, Refused(a) \/ \E time \in 0 .. 1 : Answer(a, time)
      PROVE  (opening' => first'.timer = "unset") /\ Captured' /\ Current'
  <2>1. first.timer = "fired" /\ ~opening
      BY <1>1 DEF Untouched, Captured, Held, Firsts
  <2>2. opening' = opening
      BY <1>5 DEF Refused, Answer
  <2>3. CASE UNCHANGED <<graph, first, history, saves, drifted>>
      BY <1>1, <2>1, <2>2, <2>3, CalmFired DEF Current, Quiet
  <2>4. CASE \E g : Shows(g) /\ drifted'
      BY <2>1, <2>2, <2>4, ShowsFired, CalmFired
  <2> QED
      BY <1>5, <2>3, <2>4 DEF Refused, Answer, Unrecorded
<1>6. CASE (\E r \in Runs : Finish(r)) \/ UNCHANGED vars
  <2>1. UNCHANGED <<graph, history, first, saves, opening, asked, drifted>>
      BY <1>6 DEF Finish, vars
  <2> QED
      BY <1>1, <2>1 DEF Captured, Current, Quiet
<1>7. ASSUME NEW n \in ToSet(ById(graph).nodes), Deliver(n)
      PROVE  (opening' => first'.timer = "unset") /\ Captured' /\ Current'
  <2>1. n \in ToSet(graph.nodes) /\ n.run # None
      BY <1>7, ByIdKeepsNodes DEF Deliver, Listens
  <2>2. first.timer = "fired" /\ ~opening
      BY <1>1, <2>1, UntouchedHasNone DEF Captured, Held, Firsts
  <2>3. PICK g : Shows(g) /\ drifted' /\ opening' = opening
      BY <1>7 DEF Deliver, Unrecorded
  <2> QED
      BY <2>2, <2>3, ShowsFired, CalmFired
<1> QED
    BY <1>2, <1>3, <1>4, <1>5, <1>6, <1>7

LEMMA NextCalm == Held /\ Calm /\ [Next]_vars => Calm'
<1> SUFFICES ASSUME Held, Calm, [Next]_vars PROVE Calm'
    OBVIOUS
<1>1. Untouched'
    BY NextUntouched DEF Calm
<1>2. user' = user
    BY DEF vars, Next, User, Add, Paste, OrganizeLayout, Connect, Later, Drag, Configure,
           Delete, DeleteEdge, Undo, Redo, Restore, Clear, Execute, Save, SaveFirst, Opened, Refused,
           Answer, Finish, Deliver, Unrecorded, others
<1>3. Patient' = Patient
    BY <1>2 DEF Patient
<1>4. Patient => (opening' => first'.timer = "unset") /\ Captured' /\ Current'
    BY LaterCalm, GestureCalm, ArrivalCalm DEF Next, User
<1> QED
    BY <1>1, <1>3, <1>4 DEF Calm

\* To a user who waits for the snapshots what is shown is the present one of
\* the history, unless an operation without a snapshot came since: neither
\* the snapshot of the first nodes nor the canvas created behind the back of
\* the user nor a jump breaks this, for any number of runs.
THEOREM PresentAlwaysShown == Spec => []PresentIsShown
<1>1. Calm => PresentIsShown
    BY DEF Calm, Current, PresentIsShown
<1> QED
    BY <1>1, InitCalm, NextCalm, HeldAlways, PTL DEF Spec
=============================================================================

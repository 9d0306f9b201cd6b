----------------------------- MODULE AnswerStream -----------------------------
(***************************************************************************)
(* The response coordinator: the answers of a workflow are streamed while  *)
(* its nodes still run, each as its template says, one after the other.    *)
(* An answer may be begun before its node runs, as soon as nothing on some *)
(* way to it can lead elsewhere.  The module composes the coordinator with *)
(* the traversal of the graph; the dispatcher handles one event at a time. *)
(*                                                                         *)
(* A flow is a graph with                                                  *)
(*   template   for each response node, the segments of its answer         *)
(*   chunks     how many chunks the output of each node comes in, 0 if it  *)
(*              is stored at once                                          *)
(*   assigners  the nodes that assign the conversation variable            *)
(* A segment is a text, the output of a node or the conversation variable. *)
(***************************************************************************)
EXTENDS WorkflowGraph, Sequences, FiniteSets, SequencesExt

CONSTANT Flows

VARIABLES
  graph, nodeState, edgeState, launched, outcome,   \* as in GraphTraversal
  flow,      \* of the run
  pending,   \* the response nodes whose session was not activated
  todo,      \* what is left of the active session, then the waiting ones
  arrived,   \* the chunks of each node that have arrived
  read,      \* and those that were taken from its stream
  pool,      \* the nodes whose output is in the variable pool
  assigned,  \* the nodes that have assigned the conversation variable
  shown      \* what has been streamed

traversal == <<graph, nodeState, edgeState, launched, outcome>>
stream    == <<pending, todo, arrived, read, pool, assigned, shown>>
vars      == <<traversal, flow, stream>>

FlowGraphs == {f.graph : f \in Flows}

Traversal == INSTANCE GraphTraversal WITH Graphs <- FlowGraphs

Text       == [kind |-> "text"]
Variable   == [kind |-> "conversation"]
Output(n)  == [kind |-> "node", node |-> n]

Responses(f)    == DOMAIN f.template
Segments(f, r)  == ToSet(f.template[r])
Uses(f, r, n)   == Output(n) \in Segments(f, r)

\* find_paths: the ways from node a to node b, as sets of edges. The graph has
\* no cycle, so no way comes back to a node.
Ways(g, a, b) ==
  LET from[n \in g.nodes] ==
        IF n = b THEN {{}} ELSE UNION {{{e} \union W : W \in from[e.head]} : e \in Out(g, n)}
  IN  from[a]

Before(g, m, n) ==
  m # n /\ \A T \in SUBSET g.nodes :
              m \in T /\ (\A e \in g.edges : e.tail \in T => e.head \in T) => n \in T

HasNoCycle(g) ==
  \A S \in SUBSET g.nodes : S # {} => \E n \in S : \A e \in Out(g, n) : e.head \notin S

\* The editor draws no edge that would close a cycle, and lets an answer name
\* the nodes before it only.
ASSUME FlowsAreWellFormed ==
  \A f \in Flows :
    /\ IsWorkflowGraph(f.graph) /\ HasNoCycle(f.graph)
    /\ f.chunks \in [f.graph.nodes -> Nat]
    /\ Responses(f) \union f.assigners \subseteq f.graph.nodes \ {f.graph.root}
    /\ IsFiniteSet(Responses(f))
    /\ \A r \in Responses(f) :
         /\ f.template[r] \in Seq({Text, Variable} \union {Output(n) : n \in f.graph.nodes})
         /\ \A n \in f.graph.nodes : Uses(f, r, n) => Before(f.graph, n, r)

\* The editor offers an error strategy for nodes of a few other types only.
ASSUME AnswersHaveNoStrategy ==
  \A f \in Flows : \A r \in Responses(f) : f.graph.strategy[r] = "abort"

ASSUME NotEndedIsNoHandle == Traversal!NotEnded \notin Handles

----------------------------------------------------------------------------
(* Which edges on the ways to a response node must be taken before its      *)
(* answer may begin: those of nodes that choose, that answer themselves, or *)
(* that assign a variable the answer names.                                 *)

\* Mutants: a node that chooses, answers or assigns does not hold it back.
BlocksUnlessChooses(n, r) ==
  n \in Responses(flow) \/ (n \in flow.assigners /\ Variable \in Segments(flow, r))
BlocksUnlessAnswers(n, r) ==
  ExecutionType(graph, n) = "branch" \/ (n \in flow.assigners /\ Variable \in Segments(flow, r))
BlocksUnlessAssigns(n, r) ==
  ExecutionType(graph, n) = "branch" \/ n \in Responses(flow)

Blocks(n, r) ==
  \/ ExecutionType(graph, n) = "branch"
  \/ n \in Responses(flow)
  \/ n \in flow.assigners /\ Variable \in Segments(flow, r)

PathsTo(r) == {{e \in W : Blocks(e.tail, r)} : W \in Ways(graph, graph.root, r)}

Reachable(es) == {r \in pending : \E P \in PathsTo(r) : \A e \in P : es[e] = "taken"}

----------------------------------------------------------------------------
(* try_flush: the segments at the front that are complete are streamed and  *)
(* left behind, of the next one what there is. The sessions are a list of   *)
(* places: an answer and the number of a segment in its template.           *)

Session(r) == [i \in DOMAIN flow.template[r] |-> [by |-> r, seg |-> i]]

Segment(p) == flow.template[p.by][p.seg]

Closed(n) == flow.chunks[n] > 0 /\ arrived'[n] = flow.chunks[n]

\* Mutant: a skipped node is waited for.
PassesNone(ns, p) == FALSE

Passes(ns, p) == Segment(p).kind = "node" /\ ns[Segment(p).node] = "skipped"

Complete(ns, p) ==
  Segment(p).kind = "node" =>
    Passes(ns, p) \/ Closed(Segment(p).node) \/ Segment(p).node \in pool'

\* Mutant: what was taken from a stream stays there.
TakenNever(done, ns, list) == done

\* How far the streams are read once the segments in list were looked at.
Taken(done, ns, list) ==
  [n \in graph.nodes |->
     IF \E i \in DOMAIN list : ~Passes(ns, list[i]) /\ Segment(list[i]) = Output(n)
     THEN arrived'[n] ELSE done[n]]

Piece(p, part) == [by |-> p.by, seg |-> p.seg, part |-> part, knows |-> assigned]

\* What a segment adds: the chunks not taken yet and, when the stream was not
\* closed, the whole value.
Pieces(done, ns, p) ==
  LET n == Segment(p).node
  IN  IF Segment(p).kind # "node" THEN <<Piece(p, 0)>>
      ELSE IF Passes(ns, p) THEN <<>>
      ELSE [c \in 1..(arrived'[n] - done[n]) |-> Piece(p, done[n] + c)]
             \o (IF n \in pool' /\ ~Closed(n) THEN <<Piece(p, flow.chunks[n] + 1)>> ELSE <<>>)

\* How many segments at the front of the list are complete.
Leading(ns, list) == Cardinality({i \in DOMAIN list : \A j \in 1..i : Complete(ns, list[j])})

Flushed(list, done, ns) ==
  LET k       == Leading(ns, list)
      touched == SubSeq(list, 1, IF k < Len(list) THEN k + 1 ELSE k)
      before(i) == Taken(done, ns, SubSeq(touched, 1, i - 1))
  IN  [todo  |-> SubSeq(list, k + 1, Len(list)),
       read  |-> Taken(done, ns, touched),
       shown |-> FlattenSeq([i \in DOMAIN touched |-> Pieces(before(i), ns, touched[i])])]

\* _active_or_queue_session: with no session active the new ones are flushed
\* at once, else they wait behind.
Queued(first, new) ==
  IF first.todo = <<>> THEN Flushed(new, first.read, nodeState')
  ELSE [todo |-> first.todo \o new, read |-> first.read, shown |-> <<>>]

\* The answers that an edge just taken has made certain begin, in any order:
\* the coordinator keeps them in a set.
Proceed(first) ==
  LET begun == Reachable(edgeState')
  IN  \E order \in SetToSeqs(begun) :
        LET new    == FlattenSeq([i \in DOMAIN order |-> Session(order[i])])
            second == Queued(first, new)
        IN  /\ pending' = pending \ begun
            /\ todo' = second.todo
            /\ read' = second.read
            /\ shown' = shown \o first.shown \o second.shown

----------------------------------------------------------------------------

Init ==
  /\ flow \in Flows /\ graph = flow.graph
  /\ Traversal!Init
  /\ pending = Responses(flow)
  /\ todo = <<>>
  /\ arrived = [n \in graph.nodes |-> 0]
  /\ read = [n \in graph.nodes |-> 0]
  /\ pool = {}
  /\ assigned = {}
  /\ shown = <<>>

Start == Traversal!Start /\ UNCHANGED <<flow, stream>>

InFlight(n) == Traversal!InFlight(n)

\* Mutant: a stream goes on after its last chunk.
ChunkAfterLast(n) ==
  /\ InFlight(n) /\ arrived[n] <= flow.chunks[n] /\ flow.chunks[n] > 0
  /\ arrived' = [arrived EXCEPT ![n] = @ + 1]
  /\ UNCHANGED <<traversal, flow, pending, todo, read, pool, assigned, shown>>

\* A chunk of node n is handled; the last one closes the stream.
Chunk(n) ==
  /\ InFlight(n) /\ arrived[n] < flow.chunks[n]
  /\ arrived' = [arrived EXCEPT ![n] = @ + 1]
  /\ UNCHANGED <<traversal, flow, pending, pool, assigned>>
  /\ LET after == Flushed(todo, read, nodeState)
     IN  todo' = after.todo /\ read' = after.read /\ shown' = shown \o after.shown

\* An assigner writes the variable while it runs, before its event is handled.
Assign(n) ==
  /\ InFlight(n) /\ n \in flow.assigners \ assigned
  /\ assigned' = assigned \union {n}
  /\ UNCHANGED <<traversal, flow, pending, todo, arrived, read, pool, shown>>

\* The success of node n is handled: what its output completes is streamed
\* before its edges are decided.
Succeed(n, handle) ==
  /\ arrived[n] = flow.chunks[n]
  /\ n \in flow.assigners => n \in assigned
  /\ graph.kind[n] = "branch" \/ handle = Source
  /\ Traversal!End(n, handle)
  /\ pool' = pool \union {n}
  /\ UNCHANGED <<flow, arrived, assigned>>
  /\ Proceed(Flushed(todo, read, nodeState))

\* The failure of node n is absorbed by its strategy, which leaves a default
\* value or the output missing; only the edges stream something.
Except(n) ==
  /\ \/ graph.strategy[n] = "default-value" /\ graph.kind[n] # "branch"
        /\ Traversal!End(n, Source) /\ pool' = pool \union {n}
     \/ graph.strategy[n] = "fail-branch"
        /\ Traversal!End(n, FailBranch) /\ pool' = pool
  /\ UNCHANGED <<flow, arrived, assigned>>
  /\ Proceed([todo |-> todo, read |-> read, shown |-> <<>>])

Next ==
  \/ Start
  \/ \E n \in graph.nodes :
       \/ Chunk(n)
       \/ Assign(n)
       \/ \E handle \in HandlesOf(graph, n) : Succeed(n, handle)
       \/ Except(n)

Spec == Init /\ [][Next]_vars

----------------------------------------------------------------------------
(* Properties *)

\* The types of the state; a stream is read no further than it has arrived.
TypeOK ==
  /\ Traversal!TypeOK
  /\ flow.graph = graph
  /\ pending \subseteq Responses(flow)
  /\ todo \in Seq(UNION {ToSet(Session(r)) : r \in Responses(flow) \ pending})
  /\ \A n \in graph.nodes : arrived[n] \in 0..flow.chunks[n] /\ read[n] \in 0..arrived[n]
  /\ pool \subseteq graph.nodes /\ assigned \subseteq flow.assigners
  /\ shown \in Seq([by : Responses(flow) \ pending, seg : Nat, part : Nat, knows : SUBSET assigned])

\* Whatever the order in which nodes stream and end, the answers are streamed
\* one after the other, each in the order of its template and no chunk twice.
AnswersInOrder ==
  \A i, j \in DOMAIN shown : i < j =>
    LET a == shown[i]
        b == shown[j]
    IN  IF a.by = b.by
        THEN a.seg < b.seg \/ (a.seg = b.seg /\ a.part < b.part)
        ELSE \A k \in DOMAIN shown : k > j => shown[k].by # a.by

Ran(n)      == nodeState[n] = "taken" /\ outcome[n] # Traversal!NotEnded
Whole(n)    == flow.chunks[n] > 0 /\ arrived[n] = flow.chunks[n]
Sources     == {n \in graph.nodes : \E r \in Responses(flow) : Ran(r) /\ Uses(flow, r, n)}
UsedOnce(n) ==
  \A r, s \in Responses(flow) : Ran(r) /\ Ran(s) =>
    \A i \in DOMAIN flow.template[r], j \in DOMAIN flow.template[s] :
      flow.template[r][i] = Output(n) /\ flow.template[s][j] = Output(n) => r = s /\ i = j

\* The parts an answer is made of, as its template and the run say.
Answer(r) ==
  LET parts(s) == IF s.kind # "node" THEN <<0>>
                  ELSE IF nodeState[s.node] = "skipped" THEN <<>>
                  ELSE IF Whole(s.node) THEN [c \in 1..flow.chunks[s.node] |-> c]
                  ELSE <<flow.chunks[s.node] + 1>>
      marked(i) == LET p == parts(flow.template[r][i]) IN [c \in DOMAIN p |-> <<i, p[c]>>]
  IN  FlattenSeq([i \in DOMAIN flow.template[r] |-> marked(i)])

Streamed(r) ==
  FlattenSeq([i \in DOMAIN shown |->
                IF shown[i].by = r THEN <<<<shown[i].seg, shown[i].part>>>> ELSE <<>>])

\* When nothing is left to run, every answer the run went through has been
\* streamed whole, without the nodes that were skipped: no session waits for
\* ever. A source that failed half-way or without a value is excluded, its
\* answer waits; so is one that two segments name, the second finds it read.
StreamedIsAnswer ==
  /\ Traversal!Quiet /\ Traversal!Rooted
  /\ \A n \in Sources : UsedOnce(n) /\ (Ran(n) => Whole(n) \/ (n \in pool /\ arrived[n] = 0))
  => \A r \in Responses(flow) : Ran(r) => Streamed(r) = Answer(r)

\* An answer is begun before its node runs only when it is sure to run: at the
\* end no answer was begun on a path that was not taken.
BegunAnswersRun ==
  Traversal!Quiet /\ Traversal!Rooted =>
    \A r \in Responses(flow) \ pending : nodeState[r] = "taken"

OnEveryWay(m, n) == \A W \in Ways(graph, graph.root, n) : \E e \in W : e.tail = m

\* Of two answers of which one comes first on every way to the other, nothing
\* of the other is streamed before the first one's.
AnswersFollowGraph ==
  \A i, j \in DOMAIN shown :
    i < j /\ shown[i].by # shown[j].by => ~OnEveryWay(shown[j].by, shown[i].by)

\* An answer that names the variable, with an assigner on every way to it,
\* shows what was assigned and not the value from before: what has written is
\* among what the answer knew (an assigner whose failure was absorbed may have
\* written nothing). One beside the way the answer begins on does not hold it
\* back.
AssignedFirst ==
  \A i \in DOMAIN shown :
    Segment(shown[i]) = Variable =>
      {n \in assigned : OnEveryWay(n, shown[i].by)} \subseteq shown[i].knows
=============================================================================

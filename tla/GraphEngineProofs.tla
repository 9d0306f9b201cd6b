-------------------------- MODULE GraphEngineProofs --------------------------
(****************************************************************************)
(* The engine for every set of well-formed graphs and any number of worker  *)
(* threads and commands: one copy of a node at a time, its end told once,   *)
(* and a traversal that is the one GraphTraversal describes. Copies says    *)
(* where the one copy of a node may be, UnderWay what is known of a node    *)
(* that has one. The traversal's own invariant, proved in its own module,   *)
(* holds of the nodes as they are Seen from there; it gives that the nodes  *)
(* a step enqueues were not enqueued before.                                *)
(****************************************************************************)
EXTENDS GraphEngine, WorkflowGraphProofs, FiniteSetTheorems

Seen == [n \in graph.nodes |-> IF launched[n] > 0 THEN "taken" ELSE nodeState[n]]

Abs == INSTANCE GraphTraversalProofs WITH nodeState <- Seen

Reported == [type : Concluding \union {"started"}, node : graph.nodes, handle : Handles \union {None}]
Hands    == {Idle} \union {Got(n) : n \in graph.nodes} \union {Running(n) : n \in graph.nodes}

Typed ==
  /\ graph \in Graphs
  /\ nodeState \in [graph.nodes -> States]
  /\ launched \in [graph.nodes -> Nat]
  /\ outcome \in [graph.nodes -> Handles \union {NotEnded}]
  /\ ready \in [graph.nodes -> Nat]
  /\ executing \subseteq graph.nodes
  /\ retried \in [graph.nodes -> Nat]
  /\ concluded \in [graph.nodes -> Nat]
  /\ worker \in [Workers -> Hands]
  /\ events \in Seq(Reported)

\* The copy of a node is queued, with one worker, or in one event.
Copies ==
  \A n \in graph.nodes :
    /\ ready[n] <= 1
    /\ \A v, w \in Holders(n) : v = w
    /\ \A i, j \in Reports(n) : i = j
    /\ ready[n] > 0 => Holders(n) = {} /\ Reports(n) = {}
    /\ Holders(n) # {} => Reports(n) = {}

\* A node on its way was launched and has neither ended nor been told to have.
UnderWay ==
  \A n \in graph.nodes :
    /\ InFlight(n) => launched[n] > 0 /\ outcome[n] = NotEnded /\ concluded[n] = 0
    /\ concluded[n] <= 1
    /\ concluded[n] > 0 => launched[n] > 0
    /\ launched[n] > 0 => nodeState[n] # "skipped"

\* A node that succeeds names a handle it may end with.
Carried ==
  \A i \in DOMAIN events :
    events[i].type = "succeeded" => events[i].handle \in HandlesOf(graph, events[i].node)

Flights == Typed /\ Copies /\ UnderWay /\ Carried

Control ==
  /\ execution \in [started : BOOLEAN, completed : BOOLEAN, aborted : BOOLEAN,
                    paused : BOOLEAN, error : BOOLEAN, exceptions : BOOLEAN]
  /\ channel \in Seq(Commands)
  /\ sent \in 0..MaxCommands
  /\ dispatcher \in {"off", "start", "loop", "commands", "flush", "drain", "finish", "ended"}
  /\ runner \in {"created", "emitting", "stopping", "stopped"}
  /\ verdict \in Verdicts \union {None}

\* Before run() nothing happens.
Begun == runner = "created" => dispatcher = "off" /\ \A n \in graph.nodes : launched[n] = 0

Strayed == strays \subseteq graph.nodes

IInv == Flights /\ Control /\ Begun /\ Strayed /\ Abs!IInv /\ Abs!SInv

----------------------------------------------------------------------------
(* What the traversal's own proofs give. *)

\* The end of a node in the traversal, with the names of this module.
Ends(n, handle) ==
  LET skipped  == SkippedAfter(graph, edgeState, n, handle)
      enqueued == LateAfter(graph, edgeState, n, handle)
                    \union ReadyAfter(graph, edgeState, n, handle)
  IN  /\ launched[n] > 0 /\ outcome[n] = NotEnded
      /\ edgeState' = EdgesAfter(graph, edgeState, n, handle)
      /\ Seen' = [m \in graph.nodes |-> IF m \in enqueued THEN "taken"
                                        ELSE IF m \in skipped THEN "skipped"
                                        ELSE Seen[m]]
      /\ launched' = [m \in graph.nodes |-> launched[m] + IF m \in enqueued THEN 1 ELSE 0]
      /\ outcome' = [outcome EXCEPT ![n] = handle]
      /\ UNCHANGED graph

LEMMA EndsIsEnd ==
  ASSUME NEW n, NEW handle
  PROVE  Ends(n, handle) => Abs!End(n, handle) /\ Traversal!End(n, handle)
<1>1. Ends(n, handle) => Abs!End(n, handle)
    BY DEF Ends, Abs!End, Abs!InFlight, Abs!Launch, Abs!NotEnded, NotEnded,
       SkippedAfter, LateAfter, ReadyAfter, EdgesAfter, LateJoins, AfterSkip, SkippedNodes,
       SkippedEdges, ClosedUnderSkip, IsNodeReady, SelectedEdges, CutEdges, ExecutionType, In, Out,
       Abs!SkippedAfter, Abs!LateAfter, Abs!ReadyAfter, Abs!EdgesAfter, Abs!LateJoins,
       Abs!AfterSkip, Abs!SkippedNodes, Abs!SkippedEdges, Abs!ClosedUnderSkip, Abs!IsNodeReady,
       Abs!SelectedEdges, Abs!CutEdges, Abs!ExecutionType, Abs!In, Abs!Out
<1>2. Ends(n, handle) => Traversal!End(n, handle)
    BY DEF Ends, Traversal!End, Traversal!InFlight, Traversal!Launch, Traversal!NotEnded, NotEnded, Seen,
       SkippedAfter, LateAfter, ReadyAfter, EdgesAfter, LateJoins, AfterSkip, SkippedNodes,
       SkippedEdges, ClosedUnderSkip, IsNodeReady, SelectedEdges, CutEdges, ExecutionType, In, Out,
       Traversal!SkippedAfter, Traversal!LateAfter, Traversal!ReadyAfter, Traversal!EdgesAfter,
       Traversal!LateJoins, Traversal!AfterSkip, Traversal!SkippedNodes, Traversal!SkippedEdges,
       Traversal!ClosedUnderSkip, Traversal!IsNodeReady, Traversal!SelectedEdges,
       Traversal!CutEdges, Traversal!ExecutionType, Traversal!In, Traversal!Out
<1> QED
    BY <1>1, <1>2

LEMMA TraversalInit == Abs!Init => Abs!IInv
BY Abs!InitInv, DefaultHandles, NotEndedIsNoHandle, GraphsAreWellFormed
   DEF Source, FailBranch, NotEnded, IsWorkflowGraph, ExecutionType, In, Kinds, Strategies,
       Abs!Source, Abs!FailBranch, Abs!NotEnded, Abs!IsWorkflowGraph, Abs!ExecutionType, Abs!In,
       Abs!Kinds, Abs!Strategies

LEMMA TraversalNext == Abs!IInv /\ [Abs!Next]_(Abs!vars) => Abs!IInv'
BY Abs!NextInv, DefaultHandles, NotEndedIsNoHandle, GraphsAreWellFormed
   DEF Source, FailBranch, NotEnded, IsWorkflowGraph, ExecutionType, In, Kinds, Strategies,
       Abs!Source, Abs!FailBranch, Abs!NotEnded, Abs!IsWorkflowGraph, Abs!ExecutionType, Abs!In,
       Abs!Kinds, Abs!Strategies

LEMMA TraversalInitSettled == Abs!Init => Abs!SInv
BY Abs!InitSettled, DefaultHandles, NotEndedIsNoHandle, GraphsAreWellFormed
   DEF Source, FailBranch, NotEnded, IsWorkflowGraph, ExecutionType, In, Kinds, Strategies,
       Abs!Source, Abs!FailBranch, Abs!NotEnded, Abs!IsWorkflowGraph, Abs!ExecutionType, Abs!In,
       Abs!Kinds, Abs!Strategies

LEMMA TraversalNextSettled == Abs!IInv /\ Abs!SInv /\ [Abs!Next]_(Abs!vars) => Abs!SInv'
BY Abs!NextSettled, DefaultHandles, NotEndedIsNoHandle, GraphsAreWellFormed
   DEF Source, FailBranch, NotEnded, IsWorkflowGraph, ExecutionType, In, Kinds, Strategies,
       Abs!Source, Abs!FailBranch, Abs!NotEnded, Abs!IsWorkflowGraph, Abs!ExecutionType, Abs!In,
       Abs!Kinds, Abs!Strategies

\* What the end of node n decides, as the nodes are seen from the traversal.
LEMMA SettleDecides ==
  ASSUME Abs!IInv, NEW n \in graph.nodes, launched[n] > 0, outcome[n] = NotEnded, NEW handle
  PROVE  LET skipped == SkippedAfter(graph, edgeState, n, handle)
             late    == LateAfter(graph, edgeState, n, handle)
             found   == ReadyAfter(graph, edgeState, n, handle)
         IN  /\ \A m \in skipped \union late \union found : m \in graph.nodes /\ Seen[m] = "unknown"
             /\ (late \union found) \intersect skipped = {}
             /\ late \intersect found = {}
<1>1. edgeState \in [graph.edges -> States] /\ IsWorkflowGraph(graph)
    BY DEF Abs!IInv, Abs!TypeOK, Abs!States, States, IsWorkflowGraph, ExecutionType, In, Kinds,
       Strategies, Abs!IsWorkflowGraph, Abs!ExecutionType, Abs!In, Abs!Kinds, Abs!Strategies
<1>2. Seen[n] # "unknown"
    BY DEF Seen
<1>5. \A m \in graph.nodes : outcome[m] # NotEnded => launched[m] > 0
    BY DEF Abs!IInv, Abs!NodesAgree, Abs!NotEnded, NotEnded
<1>3. Coherent(graph, Seen, edgeState)
  <2>1. ASSUME NEW e \in graph.edges, Seen[e.tail] = "unknown" PROVE edgeState[e] = "unknown"
    <3>1. e.tail \in graph.nodes
        BY <1>1 DEF IsWorkflowGraph
    <3>2. ~(launched[e.tail] > 0)
        BY <2>1, <3>1 DEF Seen
    <3>3. outcome[e.tail] = NotEnded
        BY <1>5, <3>1, <3>2
    <3> QED
        BY <2>1, <3>3 DEF Abs!IInv, Abs!EdgesAgree, Abs!NotEnded, NotEnded
  <2> QED
      BY <2>1 DEF Coherent, Abs!IInv, Abs!NodesWait, Abs!In, In
<1>4. \A e \in Out(graph, n) : edgeState[e] = "unknown"
  <2> SUFFICES ASSUME NEW e \in graph.edges, e.tail = n PROVE edgeState[e] = "unknown"
      BY DEF Out
  <2>1. Seen[n] = "taken"
      BY DEF Seen
  <2> QED
      BY <2>1 DEF Abs!IInv, Abs!EdgesAgree, Abs!NotEnded, NotEnded
<1> QED
    BY <1>1, <1>2, <1>3, <1>4, EndDecides

----------------------------------------------------------------------------
(* The event queue. *)

LEMMA HeadTaken ==
  ASSUME Typed, Carried, events # <<>>, events' = Tail(events), UNCHANGED graph
  PROVE  /\ Head(events) = events[1] /\ 1 \in DOMAIN events
         /\ Head(events) \in Reported
         /\ events' \in Seq(Reported)
         /\ \A i \in DOMAIN events' : i + 1 \in DOMAIN events /\ events'[i] = events[i + 1]
         /\ \A i \in DOMAIN events : i # 1 => i - 1 \in DOMAIN events' /\ events'[i - 1] = events[i]
         /\ Carried'
<1>1. events \in Seq(Reported)
    BY DEF Typed
<1>2. /\ Head(events) = events[1] /\ 1 \in DOMAIN events
      /\ Head(events) \in Reported
      /\ events' \in Seq(Reported)
    BY <1>1
<1>3. \A i \in DOMAIN events' : i + 1 \in DOMAIN events /\ events'[i] = events[i + 1]
    BY <1>1
<1>4. Carried'
    BY <1>3 DEF Carried
<1>5. \A i \in DOMAIN events : i # 1 => i - 1 \in DOMAIN events' /\ events'[i - 1] = events[i]
  <2> SUFFICES ASSUME NEW i \in DOMAIN events, i # 1
               PROVE  i - 1 \in DOMAIN events' /\ events'[i - 1] = events[i]
      OBVIOUS
  <2>1. i \in 2..Len(events) /\ Len(events') = Len(events) - 1
      BY <1>1
  <2> QED
      BY <1>1, <2>1
<1> QED
    BY <1>2, <1>3, <1>4, <1>5

\* A concluding event of node n is handled, and the nodes in R are enqueued:
\* the copies that there are are those, and the other ones there were.
LEMMA Handled ==
  ASSUME Typed, Copies, Carried, NEW n \in graph.nodes, NEW R \in SUBSET graph.nodes,
         events # <<>>, events' = Tail(events), UNCHANGED <<graph, worker>>,
         Head(events).node = n, Head(events).type \in Concluding,
         ready' = [m \in graph.nodes |-> IF m \in R THEN ready[m] + 1 ELSE ready[m]],
         \A m \in R : m = n \/ ~InFlight(m)
  PROVE  /\ Copies'
         /\ \A m \in graph.nodes : InFlight(m)' <=> m \in R \/ (m # n /\ InFlight(m))
         /\ InFlight(n)
<1>1. \A m \in graph.nodes : ready[m] \in Nat
    BY DEF Typed
<1>2. /\ 1 \in Reports(n)
      /\ \A i \in DOMAIN events' : i + 1 \in DOMAIN events /\ events'[i] = events[i + 1]
      /\ \A i \in DOMAIN events' : i \in Nat /\ i >= 1
  <2>1. \A i \in DOMAIN events' : i \in Nat /\ i >= 1
      BY HeadTaken
  <2> QED
      BY <2>1, HeadTaken DEF Reports
<1>3. \A m \in graph.nodes : \A i \in Reports(m)' : i \in Nat /\ i >= 1 /\ i + 1 \in Reports(m)
    BY <1>2 DEF Reports
<1>4. ready[n] = 0 /\ Holders(n) = {} /\ \A i \in Reports(n) : i = 1
    BY <1>1, <1>2 DEF Copies
<1>5. Reports(n)' = {}
    BY <1>3, <1>4
<1>6. \A m \in graph.nodes : Holders(m)' = Holders(m)
    BY DEF Holders
<1>7. ASSUME NEW m \in graph.nodes, m # n, m \notin R
      PROVE  /\ ready'[m] = ready[m]
             /\ InFlight(m)' <=> InFlight(m)
  <2>1. ready'[m] = ready[m] /\ Holders(m)' = Holders(m)
      BY <1>6, <1>7
  <2>2. Reports(m)' # {} => Reports(m) # {}
      BY <1>3
  <2>3. Reports(m) # {} => Reports(m)' # {}
    <3> SUFFICES ASSUME NEW i \in Reports(m) PROVE i - 1 \in Reports(m)'
        OBVIOUS
    <3>1. i \in DOMAIN events /\ events[i].node = m /\ events[i].type \in Concluding
        BY DEF Reports
    <3>2. i # 1
        BY <1>7, <3>1, HeadTaken
    <3>3. i - 1 \in DOMAIN events' /\ events'[i - 1] = events[i]
        BY <3>1, <3>2, HeadTaken
    <3> QED
        BY <3>1, <3>3 DEF Reports
  <2> QED
      BY <2>1, <2>2, <2>3 DEF InFlight
<1>8. ASSUME NEW m \in graph.nodes, m \in R
      PROVE  ready'[m] = 1 /\ Holders(m)' = {} /\ Reports(m)' = {}
  <2>1. CASE m = n
      BY <1>4, <1>5, <1>6, <1>8, <2>1
  <2>2. CASE m # n
    <3>1. ready[m] = 0 /\ Holders(m) = {} /\ Reports(m) = {}
        BY <1>1, <1>8, <2>2 DEF InFlight
    <3> QED
        BY <1>3, <1>6, <1>8, <3>1
  <2> QED
      BY <2>1, <2>2
<1>9. Copies'
  <2> SUFFICES ASSUME NEW m \in graph.nodes
               PROVE  /\ ready'[m] <= 1
                      /\ \A v, w \in Holders(m)' : v = w
                      /\ \A i, j \in Reports(m)' : i = j
                      /\ ready'[m] > 0 => Holders(m)' = {} /\ Reports(m)' = {}
                      /\ Holders(m)' # {} => Reports(m)' = {}
      BY DEF Copies
  <2>1. CASE m \in R
    <3>1. ready'[m] = 1 /\ Holders(m)' = {} /\ Reports(m)' = {}
        BY <1>8, <2>1
    <3> QED
        BY <3>1
  <2>2. CASE m \notin R /\ m = n
    <3>1. ready'[m] = 0 /\ Holders(m)' = {} /\ Reports(m)' = {}
        BY <1>4, <1>5, <1>6, <2>2
    <3> QED
        BY <3>1
  <2>3. CASE m \notin R /\ m # n
    <3>1. ready'[m] = ready[m] /\ Holders(m)' = Holders(m)
        BY <1>6, <1>7, <2>3
    <3>2. \A i, j \in Reports(m)' : i = j
      <4> SUFFICES ASSUME NEW i \in Reports(m)', NEW j \in Reports(m)' PROVE i = j
          OBVIOUS
      <4>1. i \in Nat /\ j \in Nat /\ i + 1 \in Reports(m) /\ j + 1 \in Reports(m)
          BY <1>3
      <4>2. i + 1 = j + 1
          BY <4>1 DEF Copies
      <4> QED
          BY <4>1, <4>2
    <3>3. Reports(m) = {} => Reports(m)' = {}
        BY <1>3
    <3>4. /\ ready[m] <= 1
          /\ \A v, w \in Holders(m) : v = w
          /\ ready[m] > 0 => Holders(m) = {} /\ Reports(m) = {}
          /\ Holders(m) # {} => Reports(m) = {}
        BY DEF Copies
    <3> QED
        BY <3>1, <3>2, <3>3, <3>4
  <2> QED
      BY <2>1, <2>2, <2>3
<1>10. ~InFlight(n)' \/ n \in R
    BY <1>4, <1>5, <1>6 DEF InFlight
<1>11. \A m \in R : InFlight(m)'
  <2> SUFFICES ASSUME NEW m \in R PROVE InFlight(m)'
      OBVIOUS
  <2>1. ready'[m] = 1
      BY <1>8
  <2> QED
      BY <2>1 DEF InFlight
<1> QED
    BY <1>2, <1>7, <1>9, <1>10, <1>11 DEF InFlight

LEMMA Appended ==
  ASSUME Typed, Carried, NEW e \in Reported, events' = Append(events, e), UNCHANGED graph,
         e.type = "succeeded" => e.handle \in HandlesOf(graph, e.node)
  PROVE  /\ events' \in Seq(Reported)
         /\ Carried'
         /\ \A m \in graph.nodes :
              /\ Reports(m) \subseteq DOMAIN events /\ Len(events) + 1 \notin DOMAIN events
              /\ Reports(m)' = IF e.node = m /\ e.type \in Concluding
                              THEN Reports(m) \union {Len(events) + 1} ELSE Reports(m)
<1>1. events \in Seq(Reported)
    BY DEF Typed
<1>2. /\ events' \in Seq(Reported)
      /\ Len(events) + 1 \notin DOMAIN events
      /\ DOMAIN events' = DOMAIN events \union {Len(events) + 1}
      /\ events'[Len(events) + 1] = e
      /\ \A i \in DOMAIN events : events'[i] = events[i]
    BY <1>1
<1>3. Carried'
    BY <1>2 DEF Carried
<1> QED
    BY <1>2, <1>3 DEF Reports

----------------------------------------------------------------------------
(* The worker threads. *)

LEMMA HandsKnown ==
  ASSUME Typed, NEW w \in Workers
  PROVE  /\ NoNode \notin graph.nodes
         /\ \/ worker[w] = Idle /\ worker[w].node = NoNode /\ worker[w].at = "idle"
            \/ worker[w] # Idle /\ worker[w].node \in graph.nodes /\ worker[w].at \in {"got", "running"}
<1>1. worker[w] \in Hands /\ NoNode \notin graph.nodes
    BY NoNodeIsNoNode DEF Typed
<1> QED
    BY <1>1 DEF Hands, Idle, Got, Running

LEMMA TakeInv ==
  ASSUME Flights, NEW w \in Workers, NEW n \in graph.nodes, Take(w, n)
  PROVE  Flights' /\ \A m \in graph.nodes : InFlight(m)' <=> InFlight(m)
<1>1. /\ worker[w] = Idle /\ ready[n] > 0
      /\ ready' = [ready EXCEPT ![n] = @ - 1]
      /\ worker' = [worker EXCEPT ![w] = Got(n)]
      /\ UNCHANGED <<graph, nodeState, edgeState, launched, outcome, executing, retried, concluded, events>>
    BY DEF Take, traversal
<1>2. worker \in [Workers -> Hands] /\ ready \in [graph.nodes -> Nat]
    BY DEF Flights, Typed
<1>3. Got(n) \in Hands /\ Got(n).node = n
    BY DEF Hands, Got
<1>4. Typed'
  <2>1. worker' \in [Workers -> Hands] /\ Hands' = Hands
      BY <1>1, <1>2, <1>3 DEF Hands
  <2>2. ready' \in [graph.nodes -> Nat]
      BY <1>1, <1>2
  <2> QED
      BY <1>1, <2>1, <2>2 DEF Flights, Typed, Reported
<1>5. worker[w].node \notin graph.nodes
    BY <1>1, HandsKnown DEF Flights
<1>6. \A m \in graph.nodes : Reports(m)' = Reports(m)
    BY <1>1 DEF Reports
<1>7. \A m \in graph.nodes : Holders(m)' = IF m = n THEN Holders(m) \union {w} ELSE Holders(m)
    BY <1>1, <1>2, <1>3, <1>5 DEF Holders
<1>8. Holders(n) = {} /\ Reports(n) = {} /\ ready'[n] = 0
    BY <1>1, <1>2 DEF Flights, Copies
<1>9. \A m \in graph.nodes : m # n => ready'[m] = ready[m]
    BY <1>1, <1>2
<1>10. Copies'
    BY <1>1, <1>6, <1>7, <1>8, <1>9 DEF Flights, Copies
<1>11. \A m \in graph.nodes : InFlight(m)' <=> InFlight(m)
    BY <1>1, <1>6, <1>7, <1>8, <1>9 DEF InFlight
<1>12. UnderWay' /\ Carried'
    BY <1>1, <1>11 DEF Flights, UnderWay, Carried
<1> QED
    BY <1>4, <1>10, <1>11, <1>12 DEF Flights

LEMMA BeginInv ==
  ASSUME Flights, NEW w \in Workers, Begin(w)
  PROVE  Flights' /\ \A m \in graph.nodes : InFlight(m)' <=> InFlight(m)
<1> DEFINE n == worker[w].node
           e == Event("started", n, None)
<1>1. /\ worker[w].at = "got"
      /\ worker' = [worker EXCEPT ![w] = Running(n)]
      /\ events' = Append(events, e)
      /\ UNCHANGED <<graph, nodeState, edgeState, launched, outcome, ready, executing, retried, concluded>>
    BY DEF Begin, traversal, queues
<1>2. n \in graph.nodes
    BY <1>1, HandsKnown DEF Flights
<1>3. worker \in [Workers -> Hands] /\ Running(n) \in Hands /\ Running(n).node = n
    BY <1>2 DEF Flights, Typed, Hands, Running
<1>4. e \in Reported /\ e.type = "started"
    BY <1>2 DEF Reported, Event, Concluding
<1>5. /\ events' \in Seq(Reported) /\ Carried'
      /\ \A m \in graph.nodes : Reports(m)' = Reports(m)
    BY <1>1, <1>4, Appended DEF Flights, Concluding
<1> HIDE DEF e
<1>6. Typed'
  <2>1. worker' \in [Workers -> Hands] /\ Hands' = Hands /\ Reported' = Reported
      BY <1>1, <1>3 DEF Hands, Reported
  <2> QED
      BY <1>1, <1>5, <2>1 DEF Flights, Typed
<1>7. \A m \in graph.nodes : Holders(m)' = Holders(m)
    BY <1>1, <1>3 DEF Holders
<1>8. \A m \in graph.nodes : InFlight(m)' <=> InFlight(m)
    BY <1>1, <1>5, <1>7 DEF InFlight
<1>9. Copies'
    BY <1>1, <1>5, <1>7 DEF Flights, Copies
<1>10. UnderWay'
    BY <1>1, <1>8 DEF Flights, UnderWay
<1> QED
    BY <1>5, <1>6, <1>8, <1>9, <1>10 DEF Flights

LEMMA FinishInv ==
  ASSUME Flights, NEW w \in Workers, Finish(w)
  PROVE  Flights' /\ \A m \in graph.nodes : InFlight(m)' <=> InFlight(m)
<1>0. PICK n \in graph.nodes : worker[w].node = n /\ NoNode \notin graph.nodes
    BY HandsKnown DEF Flights, Finish
<1>1. /\ worker[w].at = "running"
      /\ worker' = [worker EXCEPT ![w] = Idle]
      /\ UNCHANGED <<graph, nodeState, edgeState, launched, outcome, ready, executing, retried, concluded>>
    BY DEF Finish, traversal, queues
<1>2. n \in graph.nodes /\ NoNode \notin graph.nodes
    BY <1>0
<1>3. HandlesOf(graph, n) \subseteq Handles
    BY DefaultHandles DEF HandlesOf
<1>4. PICK e \in Reported : /\ events' = Append(events, e)
                            /\ e.node = n /\ e.type \in Concluding
                            /\ e.type = "succeeded" => e.handle \in HandlesOf(graph, e.node)
  <2>1. CASE \E handle \in HandlesOf(graph, n) : events' = Append(events, Event("succeeded", n, handle))
    <3>1. PICK handle \in HandlesOf(graph, n) : events' = Append(events, Event("succeeded", n, handle))
        BY <2>1
    <3>2. /\ Event("succeeded", n, handle) \in Reported
          /\ Event("succeeded", n, handle).node = n
          /\ Event("succeeded", n, handle).type = "succeeded"
          /\ Event("succeeded", n, handle).handle = handle
        BY <1>2, <1>3 DEF Event, Reported, Concluding
    <3> QED
        BY <3>1, <3>2 DEF Concluding
  <2>2. CASE events' = Append(events, Event("failed", n, None))
    <3>1. /\ Event("failed", n, None) \in Reported
          /\ Event("failed", n, None).node = n
          /\ Event("failed", n, None).type = "failed"
        BY <1>2 DEF Event, Reported, Concluding
    <3> QED
        BY <2>2, <3>1 DEF Concluding
  <2>3. CASE events' = Append(events, Event("pause-requested", n, None))
    <3>1. /\ Event("pause-requested", n, None) \in Reported
          /\ Event("pause-requested", n, None).node = n
          /\ Event("pause-requested", n, None).type = "pause-requested"
        BY <1>2 DEF Event, Reported, Concluding
    <3> QED
        BY <2>3, <3>1 DEF Concluding
  <2> QED
      BY <1>0, <2>1, <2>2, <2>3 DEF Finish
<1>5. /\ events' \in Seq(Reported) /\ Carried'
      /\ \A m \in graph.nodes :
           /\ Reports(m) \subseteq DOMAIN events
           /\ Reports(m)' = IF m = n THEN Reports(m) \union {Len(events) + 1} ELSE Reports(m)
  <2>1. Typed /\ Carried /\ UNCHANGED graph
      BY <1>1 DEF Flights
  <2>2. e \in Reported /\ events' = Append(events, e) /\ e.node = n /\ e.type \in Concluding
      BY <1>4
  <2>3. e.type = "succeeded" => e.handle \in HandlesOf(graph, e.node)
      BY <1>4
  <2>4. events' \in Seq(Reported) /\ Carried'
      BY <2>1, <2>2, <2>3, Appended
  <2>5. ASSUME NEW m \in graph.nodes
        PROVE  /\ Reports(m) \subseteq DOMAIN events
               /\ Reports(m)' = IF m = n THEN Reports(m) \union {Len(events) + 1} ELSE Reports(m)
    <3>1. /\ Reports(m) \subseteq DOMAIN events
          /\ Reports(m)' = IF e.node = m /\ e.type \in Concluding
                          THEN Reports(m) \union {Len(events) + 1} ELSE Reports(m)
        BY <2>1, <2>2, <2>3, Appended
    <3> QED
        BY <2>2, <3>1
  <2> QED
      BY <2>4, <2>5
<1>6. worker \in [Workers -> Hands] /\ Idle \in Hands /\ Idle.node = NoNode
    BY DEF Flights, Typed, Hands, Idle
<1>7. Typed'
  <2>1. worker' \in [Workers -> Hands] /\ Hands' = Hands /\ Reported' = Reported
      BY <1>1, <1>6 DEF Hands, Reported
  <2> QED
      BY <1>1, <1>5, <2>1 DEF Flights, Typed
<1>8. \A m \in graph.nodes : Holders(m)' = Holders(m) \ {w}
    BY <1>1, <1>2, <1>6 DEF Holders
<1>9. w \in Holders(n)
    BY <1>0 DEF Holders
<1>10. Holders(n)' = {} /\ ready[n] = 0 /\ Reports(n) = {}
  <2>1. ready[n] \in Nat
      BY <1>2 DEF Flights, Typed
  <2>2. /\ \A v \in Holders(n) : v = w
        /\ ready[n] > 0 => Holders(n) = {}
        /\ Reports(n) = {}
      BY <1>2, <1>9 DEF Flights, Copies
  <2>3. Holders(n)' = Holders(n) \ {w}
      BY <1>2, <1>8
  <2> QED
      BY <1>9, <2>1, <2>2, <2>3
<1>11. \A m \in graph.nodes : m # n => Holders(m)' = Holders(m) /\ Reports(m)' = Reports(m)
  <2> SUFFICES ASSUME NEW m \in graph.nodes, m # n
               PROVE  Holders(m)' = Holders(m) /\ Reports(m)' = Reports(m)
      OBVIOUS
  <2>1. w \notin Holders(m)
      BY <1>0 DEF Holders
  <2>2. Holders(m)' = Holders(m) \ {w}
      BY <1>8
  <2>3. Reports(m)' = Reports(m)
      BY <1>5
  <2> QED
      BY <2>1, <2>2, <2>3
<1>12. Copies'
  <2> SUFFICES ASSUME NEW m \in graph.nodes
               PROVE  /\ ready[m] <= 1
                      /\ \A v, u \in Holders(m)' : v = u
                      /\ \A i, j \in Reports(m)' : i = j
                      /\ ready[m] > 0 => Holders(m)' = {} /\ Reports(m)' = {}
                      /\ Holders(m)' # {} => Reports(m)' = {}
      BY <1>1 DEF Copies
  <2>1. CASE m = n
    <3>1. Reports(m)' = {Len(events) + 1} /\ Holders(m)' = {} /\ ready[m] = 0
        BY <1>5, <1>10, <2>1
    <3> QED
        BY <3>1
  <2>2. CASE m # n
    <3>1. Holders(m)' = Holders(m) /\ Reports(m)' = Reports(m)
        BY <1>11, <2>2
    <3> QED
        BY <3>1 DEF Flights, Copies
  <2> QED
      BY <2>1, <2>2
<1>13. \A m \in graph.nodes : InFlight(m)' <=> InFlight(m)
  <2>1. Reports(n)' # {}
      BY <1>5
  <2> QED
      BY <1>1, <1>9, <1>11, <2>1 DEF InFlight
<1>14. UnderWay'
    BY <1>1, <1>13 DEF Flights, UnderWay
<1> QED
    BY <1>5, <1>7, <1>12, <1>13, <1>14 DEF Flights
----------------------------------------------------------------------------
(* The dispatcher: what is common to its handlers. *)

LEMMA PlusIs ==
  ASSUME NEW N, NEW f \in [N -> Nat], NEW S
  PROVE  /\ Plus(f, S) \in [N -> Nat]
         /\ Plus(f, S) = [m \in N |-> IF m \in S THEN f[m] + 1 ELSE f[m]]
<1>1. \A m \in N : f[m] + (IF m \in S THEN 1 ELSE 0) = IF m \in S THEN f[m] + 1 ELSE f[m]
    OBVIOUS
<1>2. Plus(f, S) = [m \in N |-> IF m \in S THEN f[m] + 1 ELSE f[m]]
    BY <1>1 DEF Plus
<1> QED
    BY <1>2

\* A step that enqueues no node for the first time and decides no edge is none
\* of the traversal.
LEMMA Unseen ==
  ASSUME Typed, UNCHANGED <<graph, edgeState, launched, outcome>>,
         \A m \in graph.nodes : launched[m] > 0 \/ nodeState'[m] = nodeState[m]
  PROVE  UNCHANGED (Abs!vars) /\ UNCHANGED (Traversal!vars)
<1>1. Seen' = Seen
    BY DEF Seen
<1>2. UNCHANGED (Abs!vars)
    BY <1>1 DEF Abs!vars
<1>3. UNCHANGED (Traversal!vars)
    BY <1>1 DEF Traversal!vars, Seen
<1> QED
    BY <1>2, <1>3

\* The event at the head, when it concludes a node.
LEMMA ConcludingHead ==
  ASSUME Flights, NEW e, Receives(e), e.type \in Concluding
  PROVE  /\ e.node \in graph.nodes
         /\ e = Head(events) /\ events # <<>> /\ events' = Tail(events)
         /\ UNCHANGED <<graph, worker>>
         /\ events' \in Seq(Reported) /\ Carried'
         /\ InFlight(e.node)
         /\ e.type = "succeeded" => e.handle \in HandlesOf(graph, e.node)
<1>1. e = Head(events) /\ events # <<>> /\ events' = Tail(events) /\ UNCHANGED <<graph, worker>>
    BY DEF Receives
<1>2. /\ Head(events) = events[1] /\ 1 \in DOMAIN events
      /\ Head(events) \in Reported
      /\ events' \in Seq(Reported) /\ Carried'
    BY <1>1, HeadTaken DEF Flights
<1>3. e.node \in graph.nodes
    BY <1>1, <1>2 DEF Reported
<1>4. InFlight(e.node)
    BY <1>1, <1>2 DEF InFlight, Reports
<1>5. e.type = "succeeded" => e.handle \in HandlesOf(graph, e.node)
    BY <1>1, <1>2 DEF Flights, Carried
<1> QED
    BY <1>1, <1>2, <1>3, <1>4, <1>5

\* A node is concluded without any other one being enqueued.
LEMMA QuietEnd ==
  ASSUME Flights, NEW e, Receives(e), e.type \in Concluding,
         UNCHANGED <<edgeState, launched, outcome, ready, retried>>,
         executing' \subseteq executing,
         nodeState' = nodeState \/ nodeState' = [nodeState EXCEPT ![e.node] = "unknown"],
         concluded' = concluded \/ concluded' = Plus(concluded, {e.node})
  PROVE  /\ Flights' /\ UNCHANGED (Abs!vars) /\ UNCHANGED (Traversal!vars)
         /\ \A m \in graph.nodes : InFlight(m)' <=> m # e.node /\ InFlight(m)
<1>1. PICK n \in graph.nodes : e.node = n
    BY ConcludingHead
<1>2. /\ e = Head(events) /\ events # <<>> /\ events' = Tail(events)
      /\ UNCHANGED <<graph, worker>>
      /\ events' \in Seq(Reported) /\ Carried'
      /\ InFlight(n)
    BY <1>1, ConcludingHead
<1>3. Typed /\ Copies /\ UnderWay /\ Carried
    BY DEF Flights
<1> PICK R \in SUBSET graph.nodes : R = {}
    OBVIOUS
<1>4. ready' = [m \in graph.nodes |-> IF m \in R THEN ready[m] + 1 ELSE ready[m]]
    BY <1>3 DEF Typed
<1>5. /\ Copies'
      /\ \A m \in graph.nodes : InFlight(m)' <=> m # n /\ InFlight(m)
  <2>1. \A m \in R : m = n \/ ~InFlight(m)
      OBVIOUS
  <2>2. Head(events).node = n /\ Head(events).type \in Concluding
      BY <1>1, <1>2
  <2>3. Copies' /\ \A m \in graph.nodes : InFlight(m)' <=> m \in R \/ (m # n /\ InFlight(m))
      BY <1>2, <1>3, <1>4, <2>1, <2>2, Handled
  <2> QED
      BY <2>3
<1>6. launched[n] > 0 /\ concluded[n] = 0
    BY <1>2, <1>3 DEF UnderWay
<1>7. /\ nodeState' \in [graph.nodes -> States]
      /\ \A m \in graph.nodes : nodeState'[m] = nodeState[m] \/ (m = n /\ nodeState'[m] = "unknown")
    BY <1>1, <1>3 DEF Typed, States
<1>8. /\ concluded' \in [graph.nodes -> Nat]
      /\ \A m \in graph.nodes : concluded'[m] = concluded[m] \/ (m = n /\ concluded'[m] = 1)
  <2>1. concluded \in [graph.nodes -> Nat]
      BY <1>3 DEF Typed
  <2>2. /\ Plus(concluded, {n}) \in [graph.nodes -> Nat]
        /\ Plus(concluded, {n}) = [m \in graph.nodes |-> IF m \in {n} THEN concluded[m] + 1 ELSE concluded[m]]
      BY <2>1, PlusIs
  <2> QED
      BY <1>1, <1>6, <2>1, <2>2
<1>9. Typed'
  <2>1. Hands' = Hands /\ Reported' = Reported
      BY <1>2 DEF Hands, Reported
  <2> QED
      BY <1>2, <1>3, <1>7, <1>8, <2>1 DEF Typed
<1>10. UnderWay'
  <2> SUFFICES ASSUME NEW m \in graph.nodes
               PROVE  /\ InFlight(m)' => launched[m] > 0 /\ outcome[m] = NotEnded /\ concluded'[m] = 0
                      /\ concluded'[m] <= 1
                      /\ concluded'[m] > 0 => launched[m] > 0
                      /\ launched[m] > 0 => nodeState'[m] # "skipped"
      BY <1>2 DEF UnderWay
  <2>1. /\ InFlight(m) => launched[m] > 0 /\ outcome[m] = NotEnded /\ concluded[m] = 0
        /\ concluded[m] <= 1
        /\ concluded[m] > 0 => launched[m] > 0
        /\ launched[m] > 0 => nodeState[m] # "skipped"
      BY <1>3 DEF UnderWay
  <2> QED
      BY <1>5, <1>6, <1>7, <1>8, <2>1
<1>11. \A m \in graph.nodes : launched[m] > 0 \/ nodeState'[m] = nodeState[m]
    BY <1>6, <1>7
<1> QED
    BY <1>1, <1>2, <1>3, <1>5, <1>9, <1>10, <1>11, Unseen DEF Flights

LEMMA StartedInv ==
  ASSUME Flights, HandleStarted
  PROVE  /\ Flights' /\ UNCHANGED (Abs!vars) /\ UNCHANGED (Traversal!vars)
         /\ \A m \in graph.nodes : InFlight(m)' <=> InFlight(m)
<1>1. /\ events # <<>> /\ events' = Tail(events) /\ Head(events).type = "started"
      /\ UNCHANGED <<graph, worker, nodeState, edgeState, launched, outcome, ready, executing,
                     retried, concluded>>
    BY DEF HandleStarted, Receives, queues
<1>2. Typed /\ Copies /\ UnderWay /\ Carried
    BY DEF Flights
<1>3. /\ events' \in Seq(Reported) /\ Carried'
      /\ \A i \in DOMAIN events' : i + 1 \in DOMAIN events /\ events'[i] = events[i + 1]
      /\ \A i \in DOMAIN events' : i \in Nat
  <2>1. events \in Seq(Reported)
      BY <1>2 DEF Typed
  <2> QED
      BY <1>1, <1>2, <2>1, HeadTaken
<1>4. \A m \in graph.nodes : \A i \in Reports(m)' : i \in Nat /\ i + 1 \in Reports(m)
    BY <1>3 DEF Reports
<1>5. \A m \in graph.nodes : Holders(m)' = Holders(m)
    BY <1>1 DEF Holders
<1>6. Typed'
  <2>1. Hands' = Hands /\ Reported' = Reported
      BY <1>1 DEF Hands, Reported
  <2> QED
      BY <1>1, <1>2, <1>3, <2>1 DEF Typed
<1>7. Copies'
  <2> SUFFICES ASSUME NEW m \in graph.nodes
               PROVE  /\ ready[m] <= 1
                      /\ \A v, w \in Holders(m)' : v = w
                      /\ \A i, j \in Reports(m)' : i = j
                      /\ ready[m] > 0 => Holders(m)' = {} /\ Reports(m)' = {}
                      /\ Holders(m)' # {} => Reports(m)' = {}
      BY <1>1 DEF Copies
  <2>1. \A i, j \in Reports(m)' : i = j
    <3> SUFFICES ASSUME NEW i \in Reports(m)', NEW j \in Reports(m)' PROVE i = j
        OBVIOUS
    <3>1. i \in Nat /\ j \in Nat /\ i + 1 \in Reports(m) /\ j + 1 \in Reports(m)
        BY <1>4
    <3>2. i + 1 = j + 1
        BY <1>2, <3>1 DEF Copies
    <3> QED
        BY <3>1, <3>2
  <2>2. Reports(m) = {} => Reports(m)' = {}
      BY <1>4
  <2>3. Holders(m)' = Holders(m)
      BY <1>5
  <2>4. /\ ready[m] <= 1
        /\ \A v, w \in Holders(m) : v = w
        /\ ready[m] > 0 => Holders(m) = {} /\ Reports(m) = {}
        /\ Holders(m) # {} => Reports(m) = {}
      BY <1>2 DEF Copies
  <2> QED
      BY <2>1, <2>2, <2>3, <2>4
<1>8. \A m \in graph.nodes : InFlight(m)' <=> InFlight(m)
  <2> SUFFICES ASSUME NEW m \in graph.nodes PROVE Reports(m) # {} => Reports(m)' # {}
      BY <1>1, <1>4, <1>5 DEF InFlight
  <2> SUFFICES ASSUME NEW i \in Reports(m) PROVE i - 1 \in Reports(m)'
      OBVIOUS
  <2>1. i \in DOMAIN events /\ events[i].node = m /\ events[i].type \in Concluding
      BY DEF Reports
  <2>2. i # 1
      BY <1>1, <1>2, <2>1, HeadTaken DEF Concluding
  <2>3. i - 1 \in DOMAIN events' /\ events'[i - 1] = events[i]
      BY <1>1, <1>2, <2>1, <2>2, HeadTaken
  <2> QED
      BY <2>1, <2>3 DEF Reports
<1>9. UnderWay'
    BY <1>1, <1>2, <1>8 DEF UnderWay
<1> QED
    BY <1>1, <1>2, <1>3, <1>6, <1>7, <1>8, <1>9, Unseen DEF Flights

LEMMA PauseInv ==
  ASSUME Flights, HandlePauseRequested
  PROVE  /\ Flights' /\ UNCHANGED (Abs!vars) /\ UNCHANGED (Traversal!vars)
         /\ \A m \in graph.nodes : InFlight(m)' <=> m # Head(events).node /\ InFlight(m)
<1> PICK e : e = Head(events)
    OBVIOUS
<1>1. /\ Receives(e) /\ e.type \in Concluding
      /\ UNCHANGED <<edgeState, launched, outcome, ready, retried>>
      /\ executing' \subseteq executing
      /\ nodeState' = nodeState \/ nodeState' = [nodeState EXCEPT ![e.node] = "unknown"]
      /\ concluded' = concluded \/ concluded' = Plus(concluded, {e.node})
    BY DEF HandlePauseRequested, Concluding
<1> QED
    BY <1>1, QuietEnd

LEMMA AbortInv ==
  ASSUME Flights, HandleFailedAbort
  PROVE  /\ Flights' /\ UNCHANGED (Abs!vars) /\ UNCHANGED (Traversal!vars)
         /\ \A m \in graph.nodes : InFlight(m)' <=> m # Head(events).node /\ InFlight(m)
<1> PICK e : e = Head(events)
    OBVIOUS
<1>1. /\ Receives(e) /\ e.type \in Concluding
      /\ UNCHANGED <<edgeState, launched, outcome, ready, retried>>
      /\ executing' \subseteq executing
      /\ nodeState' = nodeState
      /\ concluded' = Plus(concluded, {e.node})
    BY DEF HandleFailedAbort, Failing, Concluding
<1> QED
    BY <1>1, QuietEnd

\* A failed node that is retried is on its way once again, not twice.
LEMMA RetryInv ==
  ASSUME Flights, HandleFailedRetry
  PROVE  /\ Flights' /\ UNCHANGED (Abs!vars) /\ UNCHANGED (Traversal!vars)
         /\ \A m \in graph.nodes : InFlight(m)' <=> InFlight(m)
<1> PICK e : e = Head(events)
    OBVIOUS
<1>1. /\ Receives(e) /\ e.type \in Concluding
      /\ UNCHANGED <<edgeState, launched, outcome, concluded>>
      /\ retried' = Plus(retried, {e.node})
      /\ ready' = Plus(ready, {e.node})
      /\ executing' = executing \union {e.node}
      /\ nodeState' = [nodeState EXCEPT ![e.node] = "taken"]
    BY DEF HandleFailedRetry, Failing, Concluding
<1>2. PICK n \in graph.nodes : e.node = n
    BY <1>1, ConcludingHead
<1>3. /\ e = Head(events) /\ events # <<>> /\ events' = Tail(events)
      /\ UNCHANGED <<graph, worker>>
      /\ events' \in Seq(Reported) /\ Carried'
      /\ InFlight(n)
    BY <1>1, <1>2, ConcludingHead
<1>4. Typed /\ Copies /\ UnderWay /\ Carried
    BY DEF Flights
<1> PICK R \in SUBSET graph.nodes : R = {n}
    OBVIOUS
<1>5. /\ ready' \in [graph.nodes -> Nat] /\ retried' \in [graph.nodes -> Nat]
      /\ ready' = [m \in graph.nodes |-> IF m \in R THEN ready[m] + 1 ELSE ready[m]]
  <2>1. ready \in [graph.nodes -> Nat] /\ retried \in [graph.nodes -> Nat]
      BY <1>4 DEF Typed
  <2>2. /\ Plus(ready, R) \in [graph.nodes -> Nat] /\ Plus(retried, R) \in [graph.nodes -> Nat]
        /\ Plus(ready, R) = [m \in graph.nodes |-> IF m \in R THEN ready[m] + 1 ELSE ready[m]]
      BY <2>1, PlusIs
  <2>3. ready' = Plus(ready, R) /\ retried' = Plus(retried, R)
      BY <1>1, <1>2
  <2> QED
      BY <2>2, <2>3
<1>6. Copies' /\ \A m \in graph.nodes : InFlight(m)' <=> InFlight(m)
  <2>1. \A m \in R : m = n \/ ~InFlight(m)
      OBVIOUS
  <2>2. Head(events).node = n /\ Head(events).type \in Concluding
      BY <1>1, <1>2, <1>3
  <2>3. Copies' /\ \A m \in graph.nodes : InFlight(m)' <=> m \in R \/ (m # n /\ InFlight(m))
      BY <1>3, <1>4, <1>5, <2>1, <2>2, Handled
  <2> QED
      BY <1>3, <2>3
<1>7. launched[n] > 0
    BY <1>3, <1>4 DEF UnderWay
<1>8. /\ nodeState' \in [graph.nodes -> States]
      /\ \A m \in graph.nodes : nodeState'[m] = nodeState[m] \/ (m = n /\ nodeState'[m] = "taken")
    BY <1>1, <1>2, <1>4 DEF Typed, States
<1>9. Typed'
  <2>1. Hands' = Hands /\ Reported' = Reported
      BY <1>3 DEF Hands, Reported
  <2>2. executing' \subseteq graph.nodes
      BY <1>1, <1>2, <1>4 DEF Typed
  <2> QED
      BY <1>1, <1>3, <1>4, <1>5, <1>8, <2>1, <2>2 DEF Typed
<1>10. UnderWay'
  <2> SUFFICES ASSUME NEW m \in graph.nodes
               PROVE  /\ InFlight(m)' => launched[m] > 0 /\ outcome[m] = NotEnded /\ concluded[m] = 0
                      /\ concluded[m] <= 1
                      /\ concluded[m] > 0 => launched[m] > 0
                      /\ launched[m] > 0 => nodeState'[m] # "skipped"
      BY <1>1, <1>3 DEF UnderWay
  <2>1. /\ InFlight(m) => launched[m] > 0 /\ outcome[m] = NotEnded /\ concluded[m] = 0
        /\ concluded[m] <= 1
        /\ concluded[m] > 0 => launched[m] > 0
        /\ launched[m] > 0 => nodeState[m] # "skipped"
      BY <1>4 DEF UnderWay
  <2> QED
      BY <1>6, <1>8, <2>1
<1>11. \A m \in graph.nodes : launched[m] > 0 \/ nodeState'[m] = nodeState[m]
    BY <1>7, <1>8
<1> QED
    BY <1>1, <1>3, <1>4, <1>6, <1>9, <1>10, <1>11, Unseen DEF Flights

\* The end of a node with all it decides: what it enqueues was not on its way.
LEMMA SettleInv ==
  ASSUME Flights, Abs!IInv, NEW e, Receives(e), e.type \in Concluding,
         NEW handle \in HandlesOf(graph, e.node), Settle(e.node, handle), retried' = retried
  PROVE  /\ Flights' /\ Abs!Next /\ Traversal!Next
         /\ \A m \in graph.nodes : InFlight(m)' <=>
              \/ m # e.node /\ InFlight(m)
              \/ m \in LateAfter(graph, edgeState, e.node, handle)
              \/ m \in ReadyAfter(graph, edgeState, e.node, handle)
         /\ e.node \notin ReadyAfter(graph, edgeState, e.node, handle)
<1>1. PICK n \in graph.nodes : e.node = n
    BY ConcludingHead
<1>2. /\ e = Head(events) /\ events # <<>> /\ events' = Tail(events)
      /\ UNCHANGED <<graph, worker>>
      /\ events' \in Seq(Reported) /\ Carried'
      /\ InFlight(n)
    BY <1>1, ConcludingHead
<1>3. Typed /\ Copies /\ UnderWay /\ Carried
    BY DEF Flights
<1>4. launched[n] > 0 /\ outcome[n] = NotEnded /\ concluded[n] = 0
    BY <1>2, <1>3 DEF UnderWay
<1> PICK late, found, skipped :
         /\ late = LateAfter(graph, edgeState, n, handle)
         /\ found = ReadyAfter(graph, edgeState, n, handle)
         /\ skipped = SkippedAfter(graph, edgeState, n, handle)
    OBVIOUS
<1>5. /\ \A m \in skipped \union late \union found : m \in graph.nodes /\ Seen[m] = "unknown"
      /\ (late \union found) \intersect skipped = {}
      /\ late \intersect found = {}
    BY <1>4, SettleDecides
<1>6. /\ edgeState' = EdgesAfter(graph, edgeState, n, handle)
      /\ nodeState' = [m \in graph.nodes |-> IF m \in late \union found THEN "taken"
                                             ELSE IF m \in skipped THEN "skipped"
                                             ELSE nodeState[m]]
      /\ ready' = Plus(Plus(ready, late), found)
      /\ launched' = Plus(Plus(launched, late), found)
      /\ executing' = (executing \union found) \ {n}
      /\ outcome' = [outcome EXCEPT ![n] = handle]
      /\ concluded' = Plus(concluded, {n})
    BY <1>1 DEF Settle, Late, Tracked
<1> PICK R \in SUBSET graph.nodes : R = late \union found
    BY <1>5
<1>7. \A m \in R \union skipped : m \in graph.nodes /\ launched[m] = 0
  <2> SUFFICES ASSUME NEW m \in R \union skipped PROVE m \in graph.nodes /\ launched[m] = 0
      OBVIOUS
  <2>1. m \in graph.nodes /\ Seen[m] = "unknown"
      BY <1>5
  <2>2. launched[m] \in Nat
      BY <1>3, <2>1 DEF Typed
  <2> QED
      BY <2>1, <2>2 DEF Seen
<1>8. n \notin R /\ n \notin skipped
    BY <1>4, <1>7
<1>9. ASSUME NEW f \in [graph.nodes -> Nat]
      PROVE  /\ Plus(Plus(f, late), found) \in [graph.nodes -> Nat]
             /\ Plus(Plus(f, late), found) = [m \in graph.nodes |-> IF m \in R THEN f[m] + 1 ELSE f[m]]
  <2>1. /\ Plus(f, late) \in [graph.nodes -> Nat]
        /\ Plus(f, late) = [m \in graph.nodes |-> IF m \in late THEN f[m] + 1 ELSE f[m]]
      BY PlusIs
  <2>2. PICK h \in [graph.nodes -> Nat] : h = Plus(f, late)
      BY <2>1
  <2>3. /\ Plus(h, found) \in [graph.nodes -> Nat]
        /\ Plus(h, found) = [m \in graph.nodes |-> IF m \in found THEN h[m] + 1 ELSE h[m]]
      BY PlusIs
  <2>4. \A m \in graph.nodes : (IF m \in found THEN h[m] + 1 ELSE h[m]) = IF m \in R THEN f[m] + 1 ELSE f[m]
      BY <1>5, <2>1, <2>2
  <2>5. Plus(h, found) = [m \in graph.nodes |-> IF m \in R THEN f[m] + 1 ELSE f[m]]
      BY <2>3, <2>4
  <2> QED
      BY <2>2, <2>3, <2>5
<1>10. /\ ready' \in [graph.nodes -> Nat]
       /\ ready' = [m \in graph.nodes |-> IF m \in R THEN ready[m] + 1 ELSE ready[m]]
       /\ launched' \in [graph.nodes -> Nat]
       /\ launched' = [m \in graph.nodes |-> IF m \in R THEN launched[m] + 1 ELSE launched[m]]
  <2>1. ready \in [graph.nodes -> Nat] /\ launched \in [graph.nodes -> Nat]
      BY <1>3 DEF Typed
  <2> QED
      BY <1>6, <1>9, <2>1
<1>11. /\ concluded' \in [graph.nodes -> Nat]
       /\ \A m \in graph.nodes : concluded'[m] = IF m = n THEN 1 ELSE concluded[m]
  <2>1. concluded \in [graph.nodes -> Nat]
      BY <1>3 DEF Typed
  <2>2. /\ Plus(concluded, {n}) \in [graph.nodes -> Nat]
        /\ Plus(concluded, {n}) = [m \in graph.nodes |-> IF m \in {n} THEN concluded[m] + 1 ELSE concluded[m]]
      BY <2>1, PlusIs
  <2>3. concluded' = [m \in graph.nodes |-> IF m \in {n} THEN concluded[m] + 1 ELSE concluded[m]]
      BY <1>6, <2>2
  <2>4. \A m \in graph.nodes : concluded'[m] = IF m = n THEN 1 ELSE concluded[m]
      BY <1>4, <2>3
  <2> QED
      BY <1>6, <2>2, <2>4
<1>12. outcome' \in [graph.nodes -> Handles \union {NotEnded}]
  <2>1. handle \in Handles
      BY DefaultHandles DEF HandlesOf
  <2> QED
      BY <1>3, <1>6, <2>1 DEF Typed
<1>13. nodeState' \in [graph.nodes -> States]
    BY <1>3, <1>6 DEF Typed, States
<1>14. Copies' /\ \A m \in graph.nodes : InFlight(m)' <=> m \in R \/ (m # n /\ InFlight(m))
  <2>1. \A m \in R : m = n \/ ~InFlight(m)
    <3> SUFFICES ASSUME NEW m \in R PROVE ~InFlight(m)
        OBVIOUS
    <3>1. m \in graph.nodes /\ ~(launched[m] > 0)
        BY <1>7
    <3> QED
        BY <1>3, <3>1 DEF UnderWay
  <2>2. Head(events).node = n /\ Head(events).type \in Concluding
      BY <1>1, <1>2
  <2>3. ready' = [m \in graph.nodes |-> IF m \in R THEN ready[m] + 1 ELSE ready[m]]
      BY <1>10
  <2>4. Copies' /\ \A m \in graph.nodes : InFlight(m)' <=> m \in R \/ (m # n /\ InFlight(m))
      BY <1>2, <1>3, <2>1, <2>2, <2>3, Handled
  <2> QED
      BY <2>4
<1>15. Typed'
  <2>1. Hands' = Hands /\ Reported' = Reported
      BY <1>2 DEF Hands, Reported
  <2>2. executing' \subseteq graph.nodes
      BY <1>3, <1>5, <1>6 DEF Typed
  <2> QED
      BY <1>2, <1>3, <1>10, <1>11, <1>12, <1>13, <2>1, <2>2 DEF Typed
<1>16. \A m \in graph.nodes : outcome[m] # NotEnded => launched[m] > 0
    BY DEF Abs!IInv, Abs!NodesAgree, Abs!NotEnded, NotEnded
<1>17. UnderWay'
  <2> SUFFICES ASSUME NEW m \in graph.nodes
               PROVE  /\ InFlight(m)' => launched'[m] > 0 /\ outcome'[m] = NotEnded /\ concluded'[m] = 0
                      /\ concluded'[m] <= 1
                      /\ concluded'[m] > 0 => launched'[m] > 0
                      /\ launched'[m] > 0 => nodeState'[m] # "skipped"
      BY <1>2 DEF UnderWay
  <2>1. /\ InFlight(m) => launched[m] > 0 /\ outcome[m] = NotEnded /\ concluded[m] = 0
        /\ concluded[m] <= 1
        /\ concluded[m] > 0 => launched[m] > 0
        /\ launched[m] > 0 => nodeState[m] # "skipped"
        /\ concluded[m] \in Nat /\ launched[m] \in Nat
      BY <1>3 DEF UnderWay, Typed
  <2>2. CASE m \in R
    <3>1. launched[m] = 0 /\ outcome[m] = NotEnded /\ concluded[m] = 0 /\ m # n
        BY <1>7, <1>8, <1>16, <2>1, <2>2
    <3>2. launched'[m] = 1 /\ outcome'[m] = NotEnded /\ concluded'[m] = 0 /\ nodeState'[m] = "taken"
      <4>1. launched'[m] = 1
          BY <1>10, <2>2, <3>1
      <4>2. outcome'[m] = NotEnded
          BY <1>3, <1>6, <3>1 DEF Typed
      <4>3. concluded'[m] = 0
          BY <1>11, <3>1
      <4>4. nodeState'[m] = "taken"
          BY <1>6, <2>2
      <4> QED
          BY <4>1, <4>2, <4>3, <4>4
    <3> QED
        BY <3>2
  <2>3. CASE m = n
    <3>1. launched'[m] > 0 /\ concluded'[m] = 1 /\ nodeState'[m] = nodeState[m] /\ ~InFlight(m)'
        BY <1>4, <1>6, <1>8, <1>10, <1>11, <1>14, <2>3
    <3> QED
        BY <1>4, <2>1, <2>3, <3>1
  <2>4. CASE m \notin R /\ m # n
    <3>1. launched'[m] = launched[m] /\ outcome'[m] = outcome[m] /\ concluded'[m] = concluded[m]
        BY <1>3, <1>6, <1>10, <1>11, <2>4 DEF Typed
    <3>2. launched[m] > 0 => nodeState'[m] = nodeState[m]
        BY <1>6, <1>7, <2>4
    <3>3. InFlight(m)' => InFlight(m)
        BY <1>14, <2>4
    <3> QED
        BY <2>1, <3>1, <3>2, <3>3
  <2> QED
      BY <2>2, <2>3, <2>4
<1>18. Seen' = [m \in graph.nodes |-> IF m \in R THEN "taken"
                                      ELSE IF m \in skipped THEN "skipped" ELSE Seen[m]]
  <2>1. Seen' = [m \in graph.nodes |-> IF launched'[m] > 0 THEN "taken" ELSE nodeState'[m]]
      BY <1>2 DEF Seen
  <2>2. ASSUME NEW m \in graph.nodes
        PROVE  (IF launched'[m] > 0 THEN "taken" ELSE nodeState'[m])
                 = IF m \in R THEN "taken" ELSE IF m \in skipped THEN "skipped" ELSE Seen[m]
    <3>1. CASE m \in R
        BY <1>6, <3>1
    <3>2. CASE m \notin R /\ m \in skipped
      <4>1. launched'[m] = 0 /\ nodeState'[m] = "skipped"
          BY <1>6, <1>7, <1>10, <3>2
      <4> QED
          BY <3>2, <4>1
    <3>3. CASE m \notin R /\ m \notin skipped
        BY <1>6, <1>10, <3>3 DEF Seen
    <3> QED
        BY <3>1, <3>2, <3>3
  <2> QED
      BY <2>1, <2>2
<1>19. launched' = [m \in graph.nodes |-> launched[m] + IF m \in R THEN 1 ELSE 0]
  <2>1. \A m \in graph.nodes : launched[m] + (IF m \in R THEN 1 ELSE 0) = IF m \in R THEN launched[m] + 1 ELSE launched[m]
      BY <1>3 DEF Typed
  <2> QED
      BY <1>10, <2>1
<1>20. Ends(n, handle)
    BY <1>2, <1>4, <1>6, <1>18, <1>19 DEF Ends
<1>21. Abs!Next /\ Traversal!Next
  <2>1. Abs!End(n, handle) /\ Traversal!End(n, handle)
      BY <1>20, EndsIsEnd
  <2>2. handle \in HandlesOf(graph, n)
      BY <1>1
  <2>3. handle \in Abs!HandlesOf(graph, n) /\ handle \in Traversal!HandlesOf(graph, n)
      BY <2>2 DEF HandlesOf, Abs!HandlesOf, Traversal!HandlesOf, Source, Abs!Source, Traversal!Source,
         FailBranch, Abs!FailBranch, Traversal!FailBranch
  <2>4. Abs!Next
      BY <2>1, <2>3 DEF Abs!Next
  <2>5. Traversal!Next
      BY <2>1, <2>3 DEF Traversal!Next
  <2> QED
      BY <2>4, <2>5
<1>22. n \notin found /\ \A m \in graph.nodes : InFlight(m)' <=> m \in late \union found \/ (m # n /\ InFlight(m))
    BY <1>8, <1>14
<1> QED
    BY <1>1, <1>2, <1>14, <1>15, <1>17, <1>21, <1>22 DEF Flights

LEMMA SucceededInv ==
  ASSUME Flights, Abs!IInv, HandleSucceeded
  PROVE  Flights' /\ Abs!Next /\ Traversal!Next
<1> PICK e : e = Head(events)
    OBVIOUS
<1>1. Receives(e) /\ e.type = "succeeded" /\ Settle(e.node, e.handle) /\ retried' = retried
    BY DEF HandleSucceeded
<1>2. e.type \in Concluding
    BY <1>1 DEF Concluding
<1>3. e.handle \in HandlesOf(graph, e.node)
    BY <1>1, <1>2, ConcludingHead
<1> QED
    BY <1>1, <1>2, <1>3, SettleInv

LEMMA AbsorbedHandle ==
  ASSUME Flights, NEW e, Receives(e), e.type \in Concluding,
         graph.strategy[e.node] # "abort",
         ~(graph.strategy[e.node] = "default-value" /\ ExecutionType(graph, e.node) = "branch"),
         NEW handle, handle = IF graph.strategy[e.node] = "fail-branch" THEN FailBranch ELSE Source
  PROVE  handle \in HandlesOf(graph, e.node)
<1>1. e.node \in graph.nodes /\ IsWorkflowGraph(graph)
    BY ConcludingHead, GraphsAreWellFormed DEF Flights, Typed
<1>2. graph.strategy[e.node] \in {"fail-branch", "default-value"}
    BY <1>1 DEF IsWorkflowGraph, Strategies
<1> QED
    BY <1>2, DefaultHandles DEF HandlesOf, ExecutionType

\* A failure the strategy absorbs: the node ends with a handle it may end
\* with, unless no edge can be chosen.
LEMMA AbsorbedInv ==
  ASSUME Flights, Abs!IInv, HandleFailedAbsorbed
  PROVE  Flights' /\ [Abs!Next]_(Abs!vars) /\ [Traversal!Next]_(Traversal!vars)
<1> PICK e : e = Head(events)
    OBVIOUS
<1>1. Receives(e) /\ e.type \in Concluding /\ retried' = retried
    BY DEF HandleFailedAbsorbed, Failing, Concluding
<1>2. CASE graph.strategy[e.node] = "default-value" /\ ExecutionType(graph, e.node) = "branch"
  <2>1. UNCHANGED <<nodeState, edgeState, launched, outcome, ready, executing, concluded>>
      BY <1>2 DEF HandleFailedAbsorbed
  <2> QED
      BY <1>1, <2>1, QuietEnd
<1>3. CASE ~(graph.strategy[e.node] = "default-value" /\ ExecutionType(graph, e.node) = "branch")
  <2> PICK handle : handle = IF graph.strategy[e.node] = "fail-branch" THEN FailBranch ELSE Source
      OBVIOUS
  <2>1. Settle(e.node, handle) /\ graph.strategy[e.node] # "abort"
      BY <1>3 DEF HandleFailedAbsorbed
  <2>2. handle \in HandlesOf(graph, e.node)
      BY <1>1, <1>3, <2>1, AbsorbedHandle
  <2> QED
      BY <1>1, <2>1, <2>2, SettleInv
<1> QED
    BY <1>2, <1>3

----------------------------------------------------------------------------
(* The run: it begins with the root, which nobody had enqueued. *)

LEMMA RunInv ==
  ASSUME Flights, Begun, Abs!IInv, Run
  PROVE  /\ Flights' /\ Abs!Next /\ Traversal!Next
         /\ \A m \in graph.nodes : InFlight(m)' <=> m = graph.root
<1> PICK root : root = graph.root
    OBVIOUS
<1>1. /\ nodeState' = [nodeState EXCEPT ![root] = "taken"]
      /\ ready' = Plus(ready, {root})
      /\ launched' = Plus(launched, {root})
      /\ executing' = {root}
      /\ UNCHANGED <<graph, edgeState, outcome, retried, concluded, worker, events>>
      /\ \A m \in graph.nodes : launched[m] = 0
    BY DEF Run, Begun, threads
<1>2. Typed /\ Copies /\ UnderWay /\ Carried
    BY DEF Flights
<1>3. root \in graph.nodes
    BY <1>2, GraphsAreWellFormed DEF Typed, IsWorkflowGraph
<1>4. \A m \in graph.nodes : ready[m] = 0 /\ Holders(m) = {} /\ Reports(m) = {} /\ concluded[m] = 0
  <2> SUFFICES ASSUME NEW m \in graph.nodes
               PROVE  ready[m] = 0 /\ Holders(m) = {} /\ Reports(m) = {} /\ concluded[m] = 0
      OBVIOUS
  <2>1. ready[m] \in Nat /\ concluded[m] \in Nat
      BY <1>2 DEF Typed
  <2>2. ~InFlight(m) /\ ~(concluded[m] > 0)
      BY <1>1, <1>2 DEF UnderWay
  <2> QED
      BY <2>1, <2>2 DEF InFlight
<1>5. \A m \in graph.nodes : Holders(m)' = {} /\ Reports(m)' = {}
  <2>1. \A m \in graph.nodes : Holders(m)' = Holders(m) /\ Reports(m)' = Reports(m)
      BY <1>1 DEF Holders, Reports
  <2> QED
      BY <1>4, <2>1
<1>6. /\ ready' \in [graph.nodes -> Nat] /\ launched' \in [graph.nodes -> Nat]
      /\ ready' = [m \in graph.nodes |-> IF m \in {root} THEN ready[m] + 1 ELSE ready[m]]
      /\ launched' = [m \in graph.nodes |-> IF m \in {root} THEN launched[m] + 1 ELSE launched[m]]
  <2>1. ready \in [graph.nodes -> Nat] /\ launched \in [graph.nodes -> Nat]
      BY <1>2 DEF Typed
  <2>2. /\ Plus(ready, {root}) \in [graph.nodes -> Nat]
        /\ Plus(ready, {root}) = [m \in graph.nodes |-> IF m \in {root} THEN ready[m] + 1 ELSE ready[m]]
      BY <2>1, PlusIs
  <2>3. /\ Plus(launched, {root}) \in [graph.nodes -> Nat]
        /\ Plus(launched, {root}) = [m \in graph.nodes |-> IF m \in {root} THEN launched[m] + 1 ELSE launched[m]]
      BY <2>1, PlusIs
  <2> QED
      BY <1>1, <2>2, <2>3
<1>7. \A m \in graph.nodes : /\ ready'[m] = IF m = root THEN 1 ELSE 0
                            /\ launched'[m] = IF m = root THEN 1 ELSE 0
  <2> SUFFICES ASSUME NEW m \in graph.nodes
               PROVE  /\ ready'[m] = IF m = root THEN 1 ELSE 0
                      /\ launched'[m] = IF m = root THEN 1 ELSE 0
      OBVIOUS
  <2>1. ready[m] = 0 /\ launched[m] = 0
      BY <1>1, <1>4
  <2>2. ready'[m] = IF m \in {root} THEN ready[m] + 1 ELSE ready[m]
      BY <1>6
  <2>3. launched'[m] = IF m \in {root} THEN launched[m] + 1 ELSE launched[m]
      BY <1>6
  <2> QED
      BY <2>1, <2>2, <2>3
<1>8. nodeState' \in [graph.nodes -> States]
    BY <1>1, <1>2 DEF Typed, States
<1>9. Typed' /\ Carried'
  <2>1. Hands' = Hands /\ Reported' = Reported
      BY <1>1 DEF Hands, Reported
  <2>2. Typed'
      BY <1>1, <1>2, <1>3, <1>6, <1>8, <2>1 DEF Typed
  <2>3. Carried'
      BY <1>1, <1>2 DEF Carried
  <2> QED
      BY <2>2, <2>3
<1>10. Copies'
  <2> SUFFICES ASSUME NEW m \in graph.nodes
               PROVE  /\ ready'[m] <= 1
                      /\ \A v, w \in Holders(m)' : v = w
                      /\ \A i, j \in Reports(m)' : i = j
                      /\ ready'[m] > 0 => Holders(m)' = {} /\ Reports(m)' = {}
                      /\ Holders(m)' # {} => Reports(m)' = {}
      BY <1>1 DEF Copies
  <2>1. Holders(m)' = {} /\ Reports(m)' = {}
      BY <1>5
  <2>2. ready'[m] <= 1
      BY <1>7
  <2> QED
      BY <2>1, <2>2
<1>11. \A m \in graph.nodes : InFlight(m)' <=> m = root
    BY <1>5, <1>7 DEF InFlight
<1>12. \A m \in graph.nodes : outcome[m] = NotEnded
  <2>1. \A m \in graph.nodes : outcome[m] # NotEnded => launched[m] > 0
      BY DEF Abs!IInv, Abs!NodesAgree, Abs!NotEnded, NotEnded
  <2> QED
      BY <1>1, <2>1
<1>13. UnderWay'
  <2> SUFFICES ASSUME NEW m \in graph.nodes
               PROVE  /\ InFlight(m)' => launched'[m] > 0 /\ outcome[m] = NotEnded /\ concluded[m] = 0
                      /\ concluded[m] <= 1
                      /\ concluded[m] > 0 => launched'[m] > 0
                      /\ launched'[m] > 0 => nodeState'[m] # "skipped"
      BY <1>1 DEF UnderWay
  <2>1. concluded[m] = 0 /\ outcome[m] = NotEnded
      BY <1>4, <1>12
  <2>2. launched'[m] > 0 => m = root
      BY <1>7
  <2>3. nodeState'[root] = "taken"
      BY <1>1, <1>2, <1>3 DEF Typed
  <2>4. InFlight(m)' => launched'[m] > 0
      BY <1>7, <1>11
  <2> QED
      BY <2>1, <2>2, <2>3, <2>4
<1>14. Seen' = [Seen EXCEPT ![root] = "taken"]
  <2>1. Seen' = [m \in graph.nodes |-> IF launched'[m] > 0 THEN "taken" ELSE nodeState'[m]]
      BY <1>1 DEF Seen
  <2>2. Seen = [m \in graph.nodes |-> nodeState[m]]
      BY <1>1 DEF Seen
  <2>3. \A m \in graph.nodes : (IF launched'[m] > 0 THEN "taken" ELSE nodeState'[m])
                                = IF m = root THEN "taken" ELSE nodeState[m]
    <3>1. \A m \in graph.nodes : launched'[m] > 0 <=> m = root
        BY <1>7
    <3>2. \A m \in graph.nodes : m # root => nodeState'[m] = nodeState[m]
        BY <1>1, <1>2 DEF Typed
    <3> QED
        BY <3>1, <3>2
  <2> QED
      BY <2>1, <2>2, <2>3
<1>15. launched' = [m \in graph.nodes |-> launched[m] + IF m \in {root} THEN 1 ELSE 0]
  <2>1. \A m \in graph.nodes : launched[m] + (IF m \in {root} THEN 1 ELSE 0)
                                = IF m \in {root} THEN launched[m] + 1 ELSE launched[m]
      BY <1>1
  <2> QED
      BY <1>6, <2>1
<1>16. Abs!Start
    BY <1>1, <1>3, <1>14, <1>15 DEF Abs!Start, Abs!Launch
<1>17. Traversal!Start
    BY <1>1, <1>3, <1>14, <1>15 DEF Traversal!Start, Traversal!Launch, Seen
<1> QED
    BY <1>9, <1>10, <1>11, <1>13, <1>16, <1>17 DEF Flights, Abs!Next, Traversal!Next

\* The steps that move no node and touch no queue.
LEMMA QuietInv ==
  ASSUME Flights, UNCHANGED <<traversal, queues, threads>>
  PROVE  /\ Flights' /\ UNCHANGED (Abs!vars) /\ UNCHANGED (Traversal!vars)
         /\ \A m \in graph.nodes : InFlight(m)' <=> InFlight(m)
<1>1. UNCHANGED <<graph, nodeState, edgeState, launched, outcome, ready, executing, retried,
                  concluded, worker, events>>
    BY DEF traversal, queues, threads
<1>2. \A m \in graph.nodes : InFlight(m)' <=> InFlight(m)
    BY <1>1 DEF InFlight, Holders, Reports
<1>3. Typed' /\ Carried'
    BY <1>1 DEF Flights, Typed, Carried, Hands, Reported
<1>4. Copies'
    BY <1>1 DEF Flights, Copies, Holders, Reports
<1>5. UnderWay'
    BY <1>1, <1>2 DEF Flights, UnderWay
<1> QED
    BY <1>1, <1>2, <1>3, <1>4, <1>5, Unseen DEF Flights

\* What a worker does is no step of the traversal.
LEMMA WorkerUnseen ==
  ASSUME Flights, NEW w \in Workers, WorkerStep(w)
  PROVE  /\ Flights' /\ UNCHANGED (Abs!vars) /\ UNCHANGED (Traversal!vars)
         /\ \A m \in graph.nodes : InFlight(m)' <=> InFlight(m)
<1>1. UNCHANGED <<graph, nodeState, edgeState, launched, outcome>>
    BY DEF WorkerStep, Take, Begin, Finish, traversal
<1>2. Flights' /\ \A m \in graph.nodes : InFlight(m)' <=> InFlight(m)
    BY TakeInv, BeginInv, FinishInv DEF WorkerStep
<1> QED
    BY <1>1, <1>2, Unseen DEF Flights

----------------------------------------------------------------------------
(* The control of the threads. *)

LEMMA CommandsTyped ==
  ASSUME Control, ProcessCommands
  PROVE  execution' \in [started : BOOLEAN, completed : BOOLEAN, aborted : BOOLEAN,
                         paused : BOOLEAN, error : BOOLEAN, exceptions : BOOLEAN]
<1> DEFINE aborts == {i \in DOMAIN channel : channel[i] = "abort"}
           pauses == {i \in DOMAIN channel : /\ channel[i] = "pause"
                                             /\ ~execution.completed /\ ~execution.aborted
                                             /\ \A j \in aborts : i < j}
<1>1. execution' = [execution EXCEPT !.aborted = @ \/ aborts # {},
                                     !.error   = @ \/ aborts # {},
                                     !.paused  = @ \/ pauses # {}]
    BY DEF ProcessCommands, AfterCommands
<1>2. PICK a, p \in BOOLEAN : a = (aborts # {}) /\ p = (pauses # {})
    OBVIOUS
<1> HIDE DEF aborts, pauses
<1>3. execution' = [execution EXCEPT !.aborted = @ \/ a, !.error = @ \/ a, !.paused = @ \/ p]
    BY <1>1, <1>2
<1> QED
    BY <1>3 DEF Control

\* The control keeps its types and, before run(), stands still.
LEMMA ControlNext ==
  ASSUME Control, Begun, Next
  PROVE  Control' /\ (runner' = "created" => runner = "created" /\ dispatcher' = dispatcher
                                                    /\ UNCHANGED <<graph, launched>>)
<1> USE DEF Control
<1>1. CASE Run
    BY <1>1 DEF Run
<1>2. CASE Conclude
  <2>1. FinalEvent \in Verdicts
      BY DEF FinalEvent, Verdicts
  <2> QED
      BY <1>2, <2>1 DEF Conclude
<1>3. CASE Stop
    BY <1>3 DEF Stop
<1>4. ASSUME NEW command \in Commands, Send(command)
      PROVE  /\ Control'
             /\ runner' = "created" => runner = "created" /\ dispatcher' = dispatcher /\ UNCHANGED <<graph, launched>>
  <2>1. channel' \in Seq(Commands)
      BY <1>4 DEF Send
  <2>2. sent' \in 0..MaxCommands
      BY <1>4, MaxCommandsIsNat DEF Send
  <2> QED
      BY <1>4, <2>1, <2>2 DEF Send
<1>5. ASSUME NEW w \in Workers, WorkerStep(w)
      PROVE  /\ Control'
             /\ runner' = "created" => runner = "created" /\ dispatcher' = dispatcher /\ UNCHANGED <<graph, launched>>
  <2>1. UNCHANGED control /\ UNCHANGED traversal
      BY <1>5 DEF WorkerStep, Take, Begin, Finish
  <2> QED
      BY <2>1 DEF control, traversal
<1>6. CASE ProcessCommands
  <2>1. channel' \in Seq(Commands)
      BY <1>6 DEF ProcessCommands
  <2> QED
      BY <1>6, <2>1, CommandsTyped DEF ProcessCommands, Begun, traversal
<1>7. CASE LeaveLoop
    BY <1>7 DEF LeaveLoop, Begun, traversal
<1>8. CASE HandleEvent
  <2>1. PICK e : Receives(e)
      BY <1>8 DEF HandleEvent, HandleStarted, HandleSucceeded, HandlePauseRequested,
         HandleFailedRetry, HandleFailedAbort, HandleFailedAbsorbed, Failing
  <2>2. dispatcher \in {"drain", "loop"} /\ UNCHANGED <<channel, sent, runner, verdict>>
      BY <2>1 DEF Receives
  <2>3. dispatcher' \in {dispatcher, "commands", "finish"}
      BY <1>8 DEF HandleEvent, HandleStarted, HandleSucceeded, HandlePauseRequested,
         HandleFailedRetry, HandleFailedAbort, HandleFailedAbsorbed, Proceed, Crash
  <2>4. \/ execution' = execution
        \/ execution' = [execution EXCEPT !.error = TRUE, !.completed = TRUE]
        \/ execution' = [execution EXCEPT !.paused = TRUE]
        \/ execution' = [execution EXCEPT !.exceptions = TRUE]
        \/ execution' = [execution EXCEPT !.exceptions = TRUE, !.error = TRUE, !.completed = TRUE]
      BY <1>8 DEF HandleEvent, HandleStarted, HandleSucceeded, HandlePauseRequested,
         HandleFailedRetry, HandleFailedAbort, HandleFailedAbsorbed, Crash
  <2>5. execution' \in [started : BOOLEAN, completed : BOOLEAN, aborted : BOOLEAN,
                        paused : BOOLEAN, error : BOOLEAN, exceptions : BOOLEAN]
      BY <2>4
  <2> QED
      BY <2>2, <2>3, <2>5 DEF Begun
<1>9. CASE EndDrain
    BY <1>9 DEF EndDrain, Begun, traversal
<1>10. CASE MarkComplete
  <2>1. execution' \in [started : BOOLEAN, completed : BOOLEAN, aborted : BOOLEAN,
                        paused : BOOLEAN, error : BOOLEAN, exceptions : BOOLEAN]
      BY <1>10 DEF MarkComplete
  <2> QED
      BY <1>10, <2>1 DEF MarkComplete, Begun, traversal
<1> QED
    BY <1>1, <1>2, <1>3, <1>4, <1>5, <1>6, <1>7, <1>8, <1>9, <1>10 DEF Next, Dispatch

LEMMA StrayedNext ==
  ASSUME Strayed, Next
  PROVE  Strayed'
<1>1. graph' = graph
    BY DEF Next, Run, Conclude, Stop, Send, WorkerStep, Take, Begin, Finish, Dispatch,
       ProcessCommands, LeaveLoop, EndDrain, MarkComplete, HandleEvent, HandleStarted,
       HandleSucceeded, HandlePauseRequested, HandleFailedRetry, HandleFailedAbort,
       HandleFailedAbsorbed, Failing, Receives, traversal
<1>2. CASE HandleEvent
  <2>1. ASSUME NEW n, NEW handle, Settle(n, handle) PROVE strays' \subseteq graph.nodes
      BY <2>1 DEF Settle, Late, LateAfter, LateJoins, Strayed
  <2>2. CASE HandleSucceeded
      BY <2>1, <2>2, <1>1 DEF HandleSucceeded, Strayed
  <2>3. CASE HandleFailedAbsorbed
      BY <2>1, <2>3, <1>1 DEF HandleFailedAbsorbed, Strayed
  <2> QED
      BY <1>1, <1>2, <2>2, <2>3 DEF HandleEvent, HandleStarted, HandlePauseRequested,
         HandleFailedRetry, HandleFailedAbort, Strayed, queues
<1> QED
    BY <1>1, <1>2 DEF Next, Run, Conclude, Stop, Send, WorkerStep, Take, Begin, Finish, Dispatch,
       ProcessCommands, LeaveLoop, EndDrain, MarkComplete, Strayed, queues

----------------------------------------------------------------------------
(* The invariant. *)

LEMMA StepInv ==
  ASSUME IInv, [Next]_vars
  PROVE  IInv' /\ [Abs!Next]_(Abs!vars) /\ [Traversal!Next]_(Traversal!vars)
<1>1. Flights /\ Control /\ Begun /\ Strayed /\ Abs!IInv /\ Abs!SInv
    BY DEF IInv
<1>2. Flights' /\ [Abs!Next]_(Abs!vars) /\ [Traversal!Next]_(Traversal!vars)
  <2>1. CASE Run
      BY <1>1, <2>1, RunInv
  <2>2. CASE Conclude \/ Stop \/ \E command \in Commands : Send(command)
    <3>1. UNCHANGED <<traversal, queues, threads>>
        BY <2>2 DEF Conclude, Stop, Send
    <3> QED
        BY <1>1, <3>1, QuietInv
  <2>3. ASSUME NEW w \in Workers, WorkerStep(w)
        PROVE  Flights' /\ UNCHANGED (Abs!vars) /\ UNCHANGED (Traversal!vars)
      BY <1>1, <2>3, WorkerUnseen
  <2>4. CASE ProcessCommands \/ LeaveLoop \/ EndDrain \/ MarkComplete
    <3>1. UNCHANGED <<traversal, queues, threads>>
        BY <2>4 DEF ProcessCommands, LeaveLoop, EndDrain, MarkComplete
    <3> QED
        BY <1>1, <3>1, QuietInv
  <2>5. CASE HandleEvent
    <3>1. CASE HandleStarted
        BY <1>1, <3>1, StartedInv
    <3>2. CASE HandleSucceeded
        BY <1>1, <3>2, SucceededInv
    <3>3. CASE HandlePauseRequested
        BY <1>1, <3>3, PauseInv
    <3>4. CASE HandleFailedRetry
        BY <1>1, <3>4, RetryInv
    <3>5. CASE HandleFailedAbort
        BY <1>1, <3>5, AbortInv
    <3>6. CASE HandleFailedAbsorbed
        BY <1>1, <3>6, AbsorbedInv
    <3> QED
        BY <2>5, <3>1, <3>2, <3>3, <3>4, <3>5, <3>6 DEF HandleEvent
  <2>6. CASE UNCHANGED vars
    <3>1. UNCHANGED <<traversal, queues, threads>>
        BY <2>6 DEF vars
    <3> QED
        BY <1>1, <3>1, QuietInv
  <2> QED
      BY <2>1, <2>2, <2>3, <2>4, <2>5, <2>6 DEF Next, Dispatch
<1>3. Abs!IInv' /\ Abs!SInv'
    BY <1>1, <1>2, TraversalNext, TraversalNextSettled
<1>4. Control' /\ Begun'
  <2>1. CASE UNCHANGED vars
      BY <1>1, <2>1 DEF Control, Begun, vars, control, traversal
  <2>2. CASE Next
    <3>1. Control' /\ (runner' = "created" => runner = "created" /\ dispatcher' = dispatcher
                                                    /\ UNCHANGED <<graph, launched>>)
        BY <1>1, <2>2, ControlNext
    <3>2. Begun'
        BY <1>1, <3>1 DEF Begun
    <3> QED
        BY <3>1, <3>2
  <2> QED
      BY <2>1, <2>2
<1>5. Strayed'
  <2>1. CASE UNCHANGED vars
      BY <1>1, <2>1 DEF Strayed, vars, queues, traversal
  <2> QED
      BY <1>1, <2>1, StrayedNext
<1> QED
    BY <1>2, <1>3, <1>4, <1>5 DEF IInv

LEMMA InitIInv ==
  ASSUME Init
  PROVE  IInv /\ Traversal!Init
<1>1. Seen = nodeState
  <2>1. nodeState = [n \in graph.nodes |-> nodeState[n]]
      BY DEF Init, InitialNodes
  <2>2. \A n \in graph.nodes : launched[n] = 0
      BY DEF Init
  <2>3. Seen = [n \in graph.nodes |-> nodeState[n]]
      BY <2>2 DEF Seen
  <2> QED
      BY <2>1, <2>3
<1>2. Abs!Init
    BY <1>1 DEF Init, Abs!Init, Abs!NotEnded, NotEnded, InitialNodes, InitialEdges, InactiveRoots,
       InactiveCut, Roots, Unknown, AfterSkip, SkippedNodes, SkippedEdges, ClosedUnderSkip,
       ExecutionType, In, Abs!InitialNodes, Abs!InitialEdges, Abs!InactiveRoots, Abs!InactiveCut,
       Abs!Roots, Abs!Unknown, Abs!AfterSkip, Abs!SkippedNodes, Abs!SkippedEdges,
       Abs!ClosedUnderSkip, Abs!ExecutionType, Abs!In
<1>3. Traversal!Init
    BY <1>1 DEF Init, Seen, Traversal!Init, Traversal!NotEnded, NotEnded, InitialNodes, InitialEdges,
       InactiveRoots, InactiveCut, Roots, Unknown, AfterSkip, SkippedNodes, SkippedEdges,
       ClosedUnderSkip, ExecutionType, In, Traversal!InitialNodes, Traversal!InitialEdges,
       Traversal!InactiveRoots, Traversal!InactiveCut, Traversal!Roots, Traversal!Unknown,
       Traversal!AfterSkip, Traversal!SkippedNodes, Traversal!SkippedEdges,
       Traversal!ClosedUnderSkip, Traversal!ExecutionType, Traversal!In
<1>4. Abs!IInv /\ Abs!SInv
    BY <1>2, TraversalInit, TraversalInitSettled
<1>5. Typed
  <2>1. nodeState \in [graph.nodes -> States]
      BY DEF Init, InitialNodes, States
  <2>2. worker \in [Workers -> Hands]
      BY DEF Init, Hands
  <2> QED
      BY <2>1, <2>2 DEF Init, Typed
<1>6. \A n \in graph.nodes : ready[n] = 0 /\ Holders(n) = {} /\ Reports(n) = {} /\ concluded[n] = 0
  <2>1. \A g \in Graphs : NoNode \notin g.nodes
      BY NoNodeIsNoNode
  <2> QED
      BY <2>1 DEF Init, Holders, Reports, Idle
<1>7. Copies
    BY <1>6 DEF Copies
<1>8. UnderWay
  <2>1. \A n \in graph.nodes : launched[n] = 0
      BY DEF Init
  <2> QED
      BY <1>6, <2>1 DEF UnderWay, InFlight
<1>9. Carried /\ Begun /\ Strayed
    BY DEF Init, Carried, Begun, Strayed
<1>10. Control
    BY MaxCommandsIsNat DEF Init, Control
<1> QED
    BY <1>3, <1>4, <1>5, <1>7, <1>8, <1>9, <1>10 DEF IInv, Flights

LEMMA Invariance == Spec => []IInv
<1>1. Init => IInv
    BY InitIInv
<1>2. IInv /\ [Next]_vars => IInv'
    BY StepInv
<1> QED
    BY <1>1, <1>2, PTL DEF Spec

----------------------------------------------------------------------------
(* What the dispatcher tracks. *)

Waits(d) == d \in {"start", "loop", "commands"}

LEMMA SettleTracks ==
  ASSUME IInv, InFlightIsTracked, NEW e, Receives(e), e.type \in Concluding,
         NEW handle \in HandlesOf(graph, e.node), Settle(e.node, handle), retried' = retried,
         Waits(dispatcher)
  PROVE  \A m \in graph.nodes : /\ m \in executing' => InFlight(m)'
                                /\ InFlight(m)' => m \in executing' \union strays'
<1>1. PICK n \in graph.nodes : e.node = n /\ InFlight(n)
    BY ConcludingHead DEF IInv
<1>2. /\ \A m \in graph.nodes : InFlight(m)' <=> \/ m # n /\ InFlight(m)
                                               \/ m \in LateAfter(graph, edgeState, n, handle)
                                               \/ m \in ReadyAfter(graph, edgeState, n, handle)
      /\ n \notin ReadyAfter(graph, edgeState, n, handle)
    BY <1>1, SettleInv DEF IInv
<1>3. strays' = strays \union LateAfter(graph, edgeState, n, handle)
    BY <1>1 DEF Settle, Late
<1>4. executing' = (executing \union ReadyAfter(graph, edgeState, n, handle)) \ {n}
    BY <1>1 DEF Settle, Tracked
<1>5. \A m \in graph.nodes : /\ m \in executing => InFlight(m)
                             /\ InFlight(m) => m \in executing \union strays
    BY DEF InFlightIsTracked, Waits
<1> QED
    BY <1>2, <1>3, <1>4, <1>5

LEMMA TrackedNext ==
  ASSUME IInv, InFlightIsTracked, [Next]_vars
  PROVE  InFlightIsTracked'
<1> SUFFICES ASSUME Waits(dispatcher') PROVE \A m \in graph.nodes : /\ m \in executing' => InFlight(m)'
                                                                    /\ InFlight(m)' => m \in executing' \union strays'
  <2>1. graph' = graph
      BY StepInv DEF Abs!vars, Abs!Next, Abs!Start, Abs!End
  <2> QED
      BY <2>1 DEF InFlightIsTracked, Waits
<1>1. Flights /\ Control /\ Begun /\ Abs!IInv
    BY DEF IInv
<1>2. Waits(dispatcher) => \A m \in graph.nodes : /\ m \in executing => InFlight(m)
                                                  /\ InFlight(m) => m \in executing \union strays
    BY DEF InFlightIsTracked, Waits
<1>3. CASE UNCHANGED <<traversal, queues, threads>> /\ Waits(dispatcher)
  <2>1. \A m \in graph.nodes : InFlight(m)' <=> InFlight(m)
      BY <1>1, <1>3, QuietInv
  <2> QED
      BY <1>2, <1>3, <2>1 DEF queues
<1>4. CASE Run
    BY <1>1, <1>4, RunInv DEF Run
<1>5. ASSUME NEW w \in Workers, WorkerStep(w)
      PROVE  \A m \in graph.nodes : /\ m \in executing' => InFlight(m)'
                                    /\ InFlight(m)' => m \in executing' \union strays'
  <2>1. executing' = executing /\ strays' = strays /\ dispatcher' = dispatcher
      BY <1>5 DEF WorkerStep, Take, Begin, Finish, queues, control
  <2>2. \A m \in graph.nodes : InFlight(m)' <=> InFlight(m)
      BY <1>1, <1>5, WorkerUnseen
  <2> QED
      BY <1>2, <2>1, <2>2
<1>6. CASE HandleEvent
  <2> PICK e : e = Head(events)
      OBVIOUS
  <2>1. Receives(e)
      BY <1>6 DEF HandleEvent, HandleStarted, HandleSucceeded, HandlePauseRequested,
         HandleFailedRetry, HandleFailedAbort, HandleFailedAbsorbed, Failing
  <2>2. Waits(dispatcher)
    <3>1. dispatcher \in {"drain", "loop"}
        BY <2>1 DEF Receives
    <3>2. dispatcher = "drain" => dispatcher' \in {"drain", "finish"}
        BY <1>6 DEF HandleEvent, HandleStarted, HandleSucceeded, HandlePauseRequested,
           HandleFailedRetry, HandleFailedAbort, HandleFailedAbsorbed, Proceed, Crash
    <3> QED
        BY <3>1, <3>2 DEF Waits
  <2>3. \A m \in graph.nodes : /\ m \in executing => InFlight(m)
                               /\ InFlight(m) => m \in executing \union strays
      BY <1>2, <2>2
  <2>4. CASE HandleStarted
    <3>1. executing' = executing /\ strays' = strays
        BY <2>4 DEF HandleStarted, queues
    <3> QED
        BY <1>1, <2>3, <2>4, <3>1, StartedInv
  <2>5. CASE HandleSucceeded
    <3>1. e.type \in Concluding /\ e.type = "succeeded" /\ Settle(e.node, e.handle) /\ retried' = retried
        BY <2>5 DEF HandleSucceeded, Concluding
    <3>2. e.handle \in HandlesOf(graph, e.node)
        BY <1>1, <2>1, <3>1, ConcludingHead
    <3> QED
        BY <2>1, <2>2, <3>1, <3>2, SettleTracks
  <2>6. CASE HandlePauseRequested
    <3>1. executing' = executing \ {e.node} /\ strays' = strays
        BY <2>6 DEF HandlePauseRequested, Crash, Waits
    <3>2. \A m \in graph.nodes : InFlight(m)' <=> m # e.node /\ InFlight(m)
        BY <1>1, <2>6, PauseInv
    <3> QED
        BY <2>3, <3>1, <3>2
  <2>7. CASE HandleFailedRetry
    <3>1. executing' = executing \union {e.node} /\ strays' = strays /\ e.type \in Concluding
        BY <2>7 DEF HandleFailedRetry, Failing, Concluding
    <3>2. e.node \in graph.nodes /\ InFlight(e.node)
        BY <1>1, <2>1, <3>1, ConcludingHead
    <3>3. \A m \in graph.nodes : InFlight(m)' <=> InFlight(m)
        BY <1>1, <2>7, RetryInv
    <3> QED
        BY <2>3, <3>1, <3>2, <3>3
  <2>8. CASE HandleFailedAbort
    <3>1. executing' = executing \ {e.node} /\ strays' = strays
        BY <2>8 DEF HandleFailedAbort
    <3>2. \A m \in graph.nodes : InFlight(m)' <=> m # e.node /\ InFlight(m)
        BY <1>1, <2>8, AbortInv
    <3> QED
        BY <2>3, <3>1, <3>2
  <2>9. CASE HandleFailedAbsorbed
    <3>1. e.type \in Concluding /\ retried' = retried
        BY <2>9 DEF HandleFailedAbsorbed, Failing, Concluding
    <3>2. ~(graph.strategy[e.node] = "default-value" /\ ExecutionType(graph, e.node) = "branch")
        BY <2>9 DEF HandleFailedAbsorbed, Waits
    <3> PICK handle : handle = IF graph.strategy[e.node] = "fail-branch" THEN FailBranch ELSE Source
        OBVIOUS
    <3>3. Settle(e.node, handle) /\ graph.strategy[e.node] # "abort"
        BY <2>9, <3>2 DEF HandleFailedAbsorbed
    <3>4. handle \in HandlesOf(graph, e.node)
        BY <1>1, <2>1, <3>1, <3>2, <3>3, AbsorbedHandle
    <3> QED
        BY <2>1, <2>2, <3>1, <3>3, <3>4, SettleTracks
  <2> QED
      BY <1>6, <2>4, <2>5, <2>6, <2>7, <2>8, <2>9 DEF HandleEvent
<1>7. CASE ProcessCommands \/ Conclude \/ Stop \/ \E command \in Commands : Send(command)
    BY <1>3, <1>7 DEF ProcessCommands, Conclude, Stop, Send, Waits
<1>8. CASE LeaveLoop \/ EndDrain \/ MarkComplete
    BY <1>8 DEF LeaveLoop, EndDrain, MarkComplete, Waits
<1>9. CASE UNCHANGED vars
    BY <1>3, <1>9 DEF vars, control
<1> QED
    BY <1>4, <1>5, <1>6, <1>7, <1>8, <1>9 DEF Next, Dispatch

----------------------------------------------------------------------------
(* What a run that nothing halts has done with the nodes it launched. *)

\* Until the run is halted, a node that was launched is on its way or has ended
\* and been told to have.
Accounted ==
  ~Halted => \A n \in graph.nodes : launched[n] > 0 =>
    /\ nodeState[n] = "taken"
    /\ InFlight(n) \/ (outcome[n] # NotEnded /\ concluded[n] = 1)

\* Past its loop the dispatcher finds nothing on its way, if nothing halted it
\* and the skip propagation enqueued no node.
Emptied ==
  ~Halted /\ strays = {} /\ dispatcher \in {"flush", "drain", "finish", "ended"} =>
    \A n \in graph.nodes : ~InFlight(n)

\* The verdict comes last, and is a success only if nothing halted the run.
Judged ==
  /\ runner # "created" => launched[graph.root] > 0
  /\ verdict # None => dispatcher = "ended" /\ runner \in {"stopping", "stopped"}
  /\ verdict \in {"succeeded", "partial-succeeded"} => ~Halted

LEMMA HaltedStays ==
  ASSUME Control, [Next]_vars
  PROVE  Halted => Halted'
<1> DEFINE Flag(x, y) == /\ x.aborted => y.aborted
                         /\ x.error => y.error
                         /\ x.paused => y.paused
<1>1. execution \in [started : BOOLEAN, completed : BOOLEAN, aborted : BOOLEAN,
                     paused : BOOLEAN, error : BOOLEAN, exceptions : BOOLEAN]
    BY DEF Control
<1>2. \/ execution' = execution
      \/ execution' = [execution EXCEPT !.started = TRUE]
      \/ execution' = AfterCommands
      \/ execution' = [execution EXCEPT !.completed = @ \/ ~execution.paused]
      \/ execution' = [execution EXCEPT !.error = TRUE, !.completed = TRUE]
      \/ execution' = [execution EXCEPT !.paused = TRUE]
      \/ execution' = [execution EXCEPT !.exceptions = TRUE]
      \/ execution' = [execution EXCEPT !.exceptions = TRUE, !.error = TRUE, !.completed = TRUE]
    BY DEF Next, vars, Run, Conclude, Stop, Send, WorkerStep, Take, Begin, Finish, Dispatch,
       ProcessCommands, LeaveLoop, EndDrain, MarkComplete, HandleEvent, HandleStarted,
       HandleSucceeded, HandlePauseRequested, HandleFailedRetry, HandleFailedAbort,
       HandleFailedAbsorbed, Crash, control
<1>3. CASE execution' = AfterCommands
    BY <1>1, <1>3 DEF AfterCommands, Halted
<1>4. CASE execution' # AfterCommands
    BY <1>1, <1>2, <1>4 DEF Halted
<1> QED
    BY <1>3, <1>4

LEMMA SettleAccounts ==
  ASSUME IInv, Accounted, NEW e, Receives(e), e.type \in Concluding,
         NEW handle \in HandlesOf(graph, e.node), Settle(e.node, handle), retried' = retried,
         ~Halted
  PROVE  \A m \in graph.nodes : launched'[m] > 0 =>
           /\ nodeState'[m] = "taken"
           /\ InFlight(m)' \/ (outcome'[m] # NotEnded /\ concluded'[m] = 1)
<1> PICK n : n = e.node
    OBVIOUS
<1> DEFINE late    == LateAfter(graph, edgeState, n, handle)
           found   == ReadyAfter(graph, edgeState, n, handle)
           skipped == SkippedAfter(graph, edgeState, n, handle)
<1>1. n \in graph.nodes /\ InFlight(n)
    BY ConcludingHead DEF IInv
<1>2. launched[n] > 0 /\ outcome[n] = NotEnded /\ concluded[n] = 0
    BY <1>1 DEF IInv, Flights, UnderWay
<1>3. \A m \in graph.nodes : InFlight(m)' <=> (m # n /\ InFlight(m)) \/ m \in late \union found
    BY SettleInv DEF IInv
<1>4. /\ \A m \in graph.nodes :
           /\ nodeState[m] \in States
           /\ launched[m] \in Nat /\ concluded[m] \in Nat
      /\ nodeState \in [graph.nodes -> States] /\ DOMAIN launched = graph.nodes
      /\ DOMAIN concluded = graph.nodes /\ DOMAIN outcome = graph.nodes
    BY DEF IInv, Flights, Typed
<1>5. /\ nodeState' = [m \in graph.nodes |-> IF m \in late \union found THEN "taken"
                                             ELSE IF m \in skipped THEN "skipped"
                                             ELSE nodeState[m]]
      /\ launched' = Plus(Plus(launched, late), found)
      /\ outcome' = [outcome EXCEPT ![n] = handle]
      /\ concluded' = Plus(concluded, {n})
    BY DEF Settle, Late
<1>6. \A m \in graph.nodes :
        /\ launched'[m] > 0 => launched[m] > 0 \/ m \in late \union found
        /\ concluded'[m] = IF m = n THEN 1 ELSE concluded[m]
        /\ outcome'[m] = IF m = n THEN handle ELSE outcome[m]
    BY <1>1, <1>2, <1>4, <1>5 DEF Plus
<1>7. handle # NotEnded
    BY DefaultHandles, NotEndedIsNoHandle DEF HandlesOf
<1>8. \A m \in skipped : ~(launched[m] > 0)
  <2>1. \A m \in skipped : m \in graph.nodes /\ Seen[m] = "unknown"
      BY <1>1, <1>2, SettleDecides DEF IInv
  <2> QED
      BY <2>1 DEF Seen
<1> SUFFICES ASSUME NEW m \in graph.nodes, launched'[m] > 0
             PROVE  /\ nodeState'[m] = "taken"
                    /\ InFlight(m)' \/ (outcome'[m] # NotEnded /\ concluded'[m] = 1)
    OBVIOUS
<1>9. CASE m \in late \union found
    BY <1>3, <1>5, <1>9
<1>10. CASE m \notin late \union found
  <2>1. launched[m] > 0
      BY <1>6, <1>10
  <2>2. nodeState'[m] = "taken"
      BY <2>1, <1>5, <1>8, <1>10 DEF Accounted
  <2>3. m # n => InFlight(m) \/ (outcome[m] # NotEnded /\ concluded[m] = 1)
      BY <2>1 DEF Accounted
  <2> QED
      BY <2>2, <2>3, <1>3, <1>6, <1>7
<1> QED
    BY <1>9, <1>10

LEMMA AccountedNext ==
  ASSUME IInv, Accounted, [Next]_vars
  PROVE  Accounted'
<1>1. Flights /\ Control /\ Begun /\ Abs!IInv
    BY DEF IInv
<1>2. graph' = graph
    BY StepInv DEF Abs!vars, Abs!Next, Abs!Start, Abs!End
<1> SUFFICES ASSUME ~Halted'
             PROVE  \A m \in graph.nodes : launched'[m] > 0 =>
                      /\ nodeState'[m] = "taken"
                      /\ InFlight(m)' \/ (outcome'[m] # NotEnded /\ concluded'[m] = 1)
    BY <1>2 DEF Accounted
<1>3. ~Halted
    BY <1>1, HaltedStays
<1>4. \A m \in graph.nodes : launched[m] > 0 =>
        /\ nodeState[m] = "taken"
        /\ InFlight(m) \/ (outcome[m] # NotEnded /\ concluded[m] = 1)
    BY <1>3 DEF Accounted
<1>5. CASE UNCHANGED <<traversal, queues, threads>>
  <2>1. \A m \in graph.nodes : InFlight(m)' <=> InFlight(m)
      BY <1>1, <1>5, QuietInv
  <2> QED
      BY <1>4, <1>5, <2>1 DEF traversal, queues
<1>6. CASE Run
  <2>1. \A m \in graph.nodes : InFlight(m)' <=> m = graph.root
      BY <1>1, <1>6, RunInv
  <2>2. \A m \in graph.nodes : launched[m] = 0
      BY <1>1, <1>6 DEF Begun, Run
  <2>3. \A m \in graph.nodes : launched'[m] > 0 => m = graph.root
      BY <1>1, <1>6, <2>2 DEF Run, Plus, Flights, Typed
  <2>4. \A m \in graph.nodes : m = graph.root => nodeState'[m] = "taken"
      BY <1>1, <1>6 DEF Run, Flights, Typed
  <2> QED
      BY <2>1, <2>3, <2>4
<1>7. ASSUME NEW w \in Workers, WorkerStep(w)
      PROVE  \A m \in graph.nodes : launched'[m] > 0 =>
               /\ nodeState'[m] = "taken"
               /\ InFlight(m)' \/ (outcome'[m] # NotEnded /\ concluded'[m] = 1)
  <2>1. UNCHANGED <<nodeState, launched, outcome, concluded>>
      BY <1>7 DEF WorkerStep, Take, Begin, Finish, traversal, queues
  <2>2. \A m \in graph.nodes : InFlight(m)' <=> InFlight(m)
      BY <1>1, <1>7, WorkerUnseen
  <2> QED
      BY <1>4, <2>1, <2>2
<1>8. CASE HandleStarted
  <2>1. UNCHANGED <<nodeState, launched, outcome, concluded>>
      BY <1>8 DEF HandleStarted, queues
  <2> QED
      BY <1>1, <1>4, <1>8, <2>1, StartedInv
<1>9. CASE HandleSucceeded
  <2> PICK e : e = Head(events)
      OBVIOUS
  <2>1. /\ Receives(e) /\ e.type \in Concluding /\ e.type = "succeeded"
        /\ Settle(e.node, e.handle) /\ retried' = retried
      BY <1>9 DEF HandleSucceeded, Concluding
  <2>2. e.handle \in HandlesOf(graph, e.node)
      BY <1>1, <2>1, ConcludingHead
  <2> QED
      BY <1>3, <2>1, <2>2, SettleAccounts
<1>10. CASE HandlePauseRequested
  <2>1. execution' = [execution EXCEPT !.error = TRUE, !.completed = TRUE]
          \/ execution' = [execution EXCEPT !.paused = TRUE]
      BY <1>10 DEF HandlePauseRequested, Crash
  <2> QED
      BY <1>1, <2>1 DEF Control, Halted
<1>11. CASE HandleFailedRetry
  <2>1. \A m \in graph.nodes : InFlight(m)' <=> InFlight(m)
      BY <1>1, <1>11, RetryInv
  <2>2. UNCHANGED <<launched, outcome, concluded>>
      BY <1>11 DEF HandleFailedRetry
  <2>3. \A m \in graph.nodes : nodeState'[m] = "taken" \/ nodeState'[m] = nodeState[m]
      BY <1>1, <1>11 DEF HandleFailedRetry, Flights, Typed
  <2> QED
      BY <1>4, <2>1, <2>2, <2>3
<1>12. CASE HandleFailedAbort
  <2>1. execution' = [execution EXCEPT !.exceptions = TRUE, !.error = TRUE, !.completed = TRUE]
      BY <1>12 DEF HandleFailedAbort
  <2> QED
      BY <1>1, <2>1 DEF Control, Halted
<1>13. CASE HandleFailedAbsorbed
  <2> PICK e : e = Head(events)
      OBVIOUS
  <2>1. Receives(e) /\ e.type \in Concluding /\ retried' = retried
      BY <1>13 DEF HandleFailedAbsorbed, Failing, Concluding
  <2>2. CASE graph.strategy[e.node] = "default-value" /\ ExecutionType(graph, e.node) = "branch"
    <3>1. execution' = [execution EXCEPT !.exceptions = TRUE, !.error = TRUE, !.completed = TRUE]
        BY <1>13, <2>2 DEF HandleFailedAbsorbed
    <3> QED
        BY <1>1, <3>1 DEF Control, Halted
  <2>3. CASE ~(graph.strategy[e.node] = "default-value" /\ ExecutionType(graph, e.node) = "branch")
    <3> PICK handle : handle = IF graph.strategy[e.node] = "fail-branch" THEN FailBranch ELSE Source
        OBVIOUS
    <3>1. Settle(e.node, handle) /\ graph.strategy[e.node] # "abort"
        BY <1>13, <2>3 DEF HandleFailedAbsorbed
    <3>2. handle \in HandlesOf(graph, e.node)
        BY <1>1, <2>1, <2>3, <3>1, AbsorbedHandle
    <3> QED
        BY <1>3, <2>1, <3>1, <3>2, SettleAccounts
  <2> QED
      BY <2>2, <2>3
<1>14. CASE UNCHANGED vars \/ Conclude \/ Stop \/ (\E command \in Commands : Send(command))
            \/ ProcessCommands \/ LeaveLoop \/ EndDrain \/ MarkComplete
  <2>1. UNCHANGED <<traversal, queues, threads>>
      BY <1>14 DEF vars, Conclude, Stop, Send, ProcessCommands, LeaveLoop, EndDrain, MarkComplete
  <2> QED
      BY <1>5, <2>1
<1> QED
    BY <1>6, <1>7, <1>8, <1>9, <1>10, <1>11, <1>12, <1>13, <1>14 DEF Next, Dispatch, HandleEvent

LEMMA EmptiedNext ==
  ASSUME IInv, InFlightIsTracked, Emptied, [Next]_vars
  PROVE  Emptied'
<1>1. Flights /\ Control /\ Begun /\ Abs!IInv
    BY DEF IInv
<1>2. graph' = graph
    BY StepInv DEF Abs!vars, Abs!Next, Abs!Start, Abs!End
<1> DEFINE Past(d) == d \in {"flush", "drain", "finish", "ended"}
<1> SUFFICES ASSUME ~Halted', strays' = {}, Past(dispatcher')
             PROVE  \A m \in graph.nodes : ~InFlight(m)'
    BY <1>2 DEF Emptied
<1>3. ~Halted
    BY <1>1, HaltedStays
<1>4. strays = {}
    BY DEF Next, vars, Run, Conclude, Stop, Send, WorkerStep, Take, Begin, Finish, Dispatch,
       ProcessCommands, LeaveLoop, EndDrain, MarkComplete, HandleEvent, HandleStarted,
       HandleSucceeded, HandlePauseRequested, HandleFailedRetry, HandleFailedAbort,
       HandleFailedAbsorbed, Settle, queues
<1>5. Past(dispatcher) => \A m \in graph.nodes : ~InFlight(m)
    BY <1>3, <1>4 DEF Emptied
<1>6. CASE UNCHANGED <<traversal, queues, threads>> /\ Past(dispatcher)
    BY <1>1, <1>5, <1>6, QuietInv
<1>7. CASE LeaveLoop
  <2>1. UNCHANGED <<traversal, queues, threads>> /\ dispatcher = "loop" /\ executing = {}
      BY <1>3, <1>7 DEF LeaveLoop, ExecutionComplete
  <2>2. \A m \in graph.nodes : ~InFlight(m)
      BY <1>4, <2>1 DEF InFlightIsTracked
  <2> QED
      BY <1>1, <2>1, <2>2, QuietInv
<1>8. CASE Run
    BY <1>8 DEF Run
<1>9. ASSUME NEW w \in Workers, WorkerStep(w) PROVE \A m \in graph.nodes : ~InFlight(m)'
  <2>1. dispatcher' = dispatcher
      BY <1>9 DEF WorkerStep, Take, Begin, Finish, control
  <2> QED
      BY <1>1, <1>5, <1>9, <2>1, WorkerUnseen
<1>10. CASE HandleEvent
  <2> PICK e : e = Head(events)
      OBVIOUS
  <2>1. Receives(e)
      BY <1>10 DEF HandleEvent, HandleStarted, HandleSucceeded, HandlePauseRequested,
         HandleFailedRetry, HandleFailedAbort, HandleFailedAbsorbed, Failing
  <2>2. CASE HandleStarted
    <3>1. dispatcher' = dispatcher
        BY <2>2 DEF HandleStarted, Proceed
    <3> QED
        BY <1>1, <1>5, <2>2, <3>1, StartedInv
  <2>3. CASE ~HandleStarted
    <3>1. e.type \in Concluding
        BY <1>10, <2>3 DEF HandleEvent, HandleSucceeded, HandlePauseRequested,
           HandleFailedRetry, HandleFailedAbort, HandleFailedAbsorbed, Failing, Concluding
    <3>2. e.node \in graph.nodes /\ InFlight(e.node)
        BY <1>1, <2>1, <3>1, ConcludingHead
    <3>3. dispatcher = "loop"
        BY <1>5, <2>1, <3>2 DEF Receives
    <3>4. dispatcher' \in {"loop", "commands"} \/ execution' = [execution EXCEPT !.error = TRUE, !.completed = TRUE]
            \/ execution' = [execution EXCEPT !.exceptions = TRUE, !.error = TRUE, !.completed = TRUE]
        BY <1>10, <3>3 DEF HandleEvent, HandleStarted, HandleSucceeded, HandlePauseRequested,
           HandleFailedRetry, HandleFailedAbort, HandleFailedAbsorbed, Proceed, Crash
    <3>5. dispatcher' \in {"loop", "commands"}
        BY <1>1, <3>4 DEF Control, Halted
    <3> QED
        BY <3>5
  <2> QED
      BY <2>2, <2>3
<1>11. CASE ProcessCommands \/ EndDrain \/ MarkComplete \/ Conclude \/ Stop
            \/ (\E command \in Commands : Send(command)) \/ UNCHANGED vars
  <2>1. UNCHANGED <<traversal, queues, threads>> /\ Past(dispatcher)
      BY <1>11 DEF ProcessCommands, EndDrain, MarkComplete, Conclude, Stop, Send, vars, control
  <2> QED
      BY <1>6, <2>1
<1> QED
    BY <1>7, <1>8, <1>9, <1>10, <1>11 DEF Next, Dispatch

LEMMA JudgedNext ==
  ASSUME IInv, Judged, [Next]_vars
  PROVE  Judged'
<1>1. Flights /\ Control /\ Begun /\ Abs!IInv
    BY DEF IInv
<1>2. graph' = graph /\ graph.root \in graph.nodes
    BY <1>1, StepInv DEF Abs!vars, Abs!Next, Abs!Start, Abs!End, Abs!IInv, Abs!TypeOK, Abs!IsWorkflowGraph
<1>3. CASE Run
  <2>1. launched'[graph.root] > 0
      BY <1>1, <1>2, <1>3 DEF Run, Plus, Begun, Flights, Typed
  <2>2. verdict' = verdict /\ verdict = None
      BY <1>3 DEF Run, Judged
  <2> QED
      BY <1>2, <2>1, <2>2 DEF Judged, None
<1>4. runner # "created" => launched'[graph.root] > 0
  <2>1. \A m \in graph.nodes : launched[m] > 0 => launched'[m] > 0
    <3>1. \A m \in graph.nodes : launched[m] \in Nat
        BY <1>1 DEF Flights, Typed
    <3>2. CASE UNCHANGED Abs!vars
        BY <3>1, <3>2 DEF Abs!vars
    <3>3. CASE Abs!Next
      <4>1. PICK S : launched' = [m \in graph.nodes |-> launched[m] + IF m \in S THEN 1 ELSE 0]
          BY <3>3 DEF Abs!Next, Abs!Start, Abs!End, Abs!Launch
      <4> QED
          BY <3>1, <4>1
    <3> QED
        BY <3>2, <3>3, StepInv
  <2> QED
      BY <1>2, <2>1 DEF Judged
<1>5. CASE Conclude
  <2>1. execution' = execution /\ verdict' = FinalEvent /\ dispatcher' = "ended" /\ runner' = "stopping"
        /\ runner # "created"
      BY <1>5 DEF Conclude
  <2>2. verdict' \in {"succeeded", "partial-succeeded"} => ~Halted
      BY <2>1 DEF FinalEvent, Halted
  <2> QED
      BY <1>2, <1>4, <2>1, <2>2 DEF Judged, Halted
<1>6. CASE ~Run /\ ~Conclude
  <2>1. verdict' = verdict /\ (runner' = runner \/ (runner = "stopping" /\ runner' = "stopped"))
      BY <1>6 DEF Next, vars, Stop, Send, WorkerStep, Take, Begin, Finish, Dispatch,
         ProcessCommands, LeaveLoop, EndDrain, MarkComplete, HandleEvent, HandleStarted,
         HandleSucceeded, HandlePauseRequested, HandleFailedRetry, HandleFailedAbort,
         HandleFailedAbsorbed, Failing, Receives, control
  <2>2. dispatcher = "ended" => UNCHANGED <<dispatcher, execution>>
      BY <1>6 DEF Next, vars, Stop, Send, WorkerStep, Take, Begin, Finish, Dispatch,
         ProcessCommands, LeaveLoop, EndDrain, MarkComplete, HandleEvent, HandleStarted,
         HandleSucceeded, HandlePauseRequested, HandleFailedRetry, HandleFailedAbort,
         HandleFailedAbsorbed, Failing, Receives, control
  <2> QED
      BY <1>2, <1>4, <2>1, <2>2 DEF Judged, Halted, None
<1> QED
    BY <1>3, <1>5, <1>6

----------------------------------------------------------------------------
(* The theorems. *)

\* The engine's state keeps its types: no worker, event or command ever names
\* a node the graph does not have, nor an event a handle nobody can take.
THEOREM EngineIsTyped == Spec => []TypeOK
<1>1. IInv => TypeOK
  <2> SUFFICES ASSUME IInv PROVE TypeOK
      OBVIOUS
  <2>1. Typed /\ Control
      BY DEF IInv, Flights
  <2>2. IsWorkflowGraph(graph)
      BY <2>1, GraphsAreWellFormed DEF Typed
  <2>3. edgeState \in [graph.edges -> States]
      BY DEF IInv, Abs!IInv, Abs!TypeOK, Abs!States, States
  <2>4. \A i \in DOMAIN events : events[i] \in Reported
      BY <2>1 DEF Typed
  <2>5. \A i \in DOMAIN channel : channel[i] \in Commands
      BY <2>1 DEF Control
  <2> QED
      BY <2>1, <2>2, <2>3, <2>4, <2>5 DEF TypeOK, Typed, Control, Hands, Reported, IInv, Strayed
<1> QED
    BY <1>1, Invariance, PTL

\* However many workers take from the queue and however often nodes fail and
\* are retried, a node is queued, in the hands of one worker or in one event.
THEOREM OneCopyAtATime == Spec => []OneCopy
<1>1. ASSUME NEW S, \A x, y \in S : x = y
      PROVE  Cardinality(S) = IF S = {} THEN 0 ELSE 1
  <2>1. CASE S = {}
      BY <2>1, FS_EmptySet
  <2>2. CASE S # {}
    <3>1. PICK x : S = {x}
        BY <1>1, <2>2
    <3> QED
        BY <3>1, FS_Singleton
  <2> QED
      BY <2>1, <2>2
<1>2. IInv => OneCopy
  <2> SUFFICES ASSUME IInv, NEW n \in graph.nodes
               PROVE  ready[n] + Cardinality(Holders(n)) + Cardinality(Reports(n)) <= 1
      BY DEF OneCopy
  <2>1. ready[n] \in Nat
      BY DEF IInv, Flights, Typed
  <2>2. /\ ready[n] <= 1
        /\ \A v, w \in Holders(n) : v = w
        /\ \A i, j \in Reports(n) : i = j
        /\ ready[n] > 0 => Holders(n) = {} /\ Reports(n) = {}
        /\ Holders(n) # {} => Reports(n) = {}
      BY DEF IInv, Flights, Copies
  <2>3. /\ Cardinality(Holders(n)) = IF Holders(n) = {} THEN 0 ELSE 1
        /\ Cardinality(Reports(n)) = IF Reports(n) = {} THEN 0 ELSE 1
      BY <1>1, <2>2
  <2> QED
      BY <2>1, <2>2, <2>3
<1> QED
    BY <1>2, Invariance, PTL

\* The caller is told of the end of a node at most once, retries and absorbed
\* failures included, and never of a node that was skipped.
THEOREM EndToldOnce == Spec => []ConcludedOnce
<1>1. IInv => ConcludedOnce
  <2> SUFFICES ASSUME IInv, NEW n \in graph.nodes
               PROVE  /\ concluded[n] + (IF InFlight(n) THEN 1 ELSE 0) <= 1
                      /\ nodeState[n] = "skipped" => concluded[n] = 0 /\ ~InFlight(n)
      BY DEF ConcludedOnce
  <2>1. concluded[n] \in Nat /\ launched[n] \in Nat
      BY DEF IInv, Flights, Typed
  <2>2. /\ InFlight(n) => launched[n] > 0 /\ concluded[n] = 0
        /\ concluded[n] <= 1
        /\ concluded[n] > 0 => launched[n] > 0
        /\ launched[n] > 0 => nodeState[n] # "skipped"
      BY DEF IInv, Flights, UnderWay
  <2> QED
      BY <2>1, <2>2
<1> QED
    BY <1>1, Invariance, PTL

\* The threads, queues, commands, retries and failures of the engine change
\* nothing in how the graph is traversed: every run of the engine is a run of
\* GraphTraversal, whose theorems therefore hold of it.
THEOREM EngineImplementsTraversal == Spec => ImplementsTraversal
<1>1. Init => Traversal!Init
    BY InitIInv
<1>2. IInv /\ [Next]_vars => [Traversal!Next]_(Traversal!vars)
    BY StepInv
<1> QED
    BY <1>1, <1>2, Invariance, PTL DEF Spec, ImplementsTraversal, Traversal!Spec

\* The dispatcher tracks every node on its way and no other while it waits for
\* events, those aside that the skip propagation enqueued: the test that ends
\* the run means what it says, for every graph and number of workers.
THEOREM InFlightStaysTracked == Spec => []InFlightIsTracked
<1>1. Init => InFlightIsTracked
    BY DEF Init, InFlightIsTracked
<1>2. IInv /\ InFlightIsTracked /\ [Next]_vars => InFlightIsTracked'
    BY TrackedNext
<1> QED
    BY <1>1, <1>2, Invariance, PTL DEF Spec

LEMMA TraversalNoneLeft == Abs!IInv /\ Abs!SInv => Abs!NoNodeLeftBehind
BY Abs!SettledNoneLeft, DefaultHandles, NotEndedIsNoHandle, GraphsAreWellFormed
   DEF Source, FailBranch, NotEnded, IsWorkflowGraph, ExecutionType, In, Kinds, Strategies,
       Abs!Source, Abs!FailBranch, Abs!NotEnded, Abs!IsWorkflowGraph, Abs!ExecutionType, Abs!In,
       Abs!Kinds, Abs!Strategies

LEMMA SuccessIsWhole ==
  ASSUME IInv, Accounted, Emptied, Judged,
         verdict \in {"succeeded", "partial-succeeded"}, strays = {}
  PROVE  /\ \A n \in graph.nodes : ~InFlight(n) /\ concluded[n] = launched[n]
         /\ \A n \in Traversal!Grounded : nodeState[n] # "unknown"
<1>1. ~Halted /\ dispatcher = "ended" /\ runner # "created" /\ launched[graph.root] > 0
    BY DEF Judged, None
<1>2. \A n \in graph.nodes : ~InFlight(n)
    BY <1>1 DEF Emptied
<1>3. \A n \in graph.nodes : launched[n] > 0 =>
        nodeState[n] = "taken" /\ outcome[n] # NotEnded /\ concluded[n] = 1
    BY <1>1, <1>2 DEF Accounted
<1>4. \A n \in graph.nodes : concluded[n] = launched[n]
  <2>1. \A n \in graph.nodes : launched[n] \in Nat /\ launched[n] <= 1
      BY DEF IInv, Flights, Typed, Abs!IInv, Abs!LaunchedOnce
  <2>2. \A n \in graph.nodes : concluded[n] \in Nat /\ (concluded[n] > 0 => launched[n] > 0)
      BY DEF IInv, Flights, Typed, UnderWay
  <2> QED
      BY <1>3, <2>1, <2>2
<1>5. Abs!Quiet
    BY <1>1, <1>3 DEF Abs!Quiet, Abs!InFlight, Abs!NotEnded, NotEnded
<1>6. \A n \in Abs!Grounded : Seen[n] # "unknown"
    BY <1>5, TraversalNoneLeft DEF IInv, Abs!NoNodeLeftBehind
<1>7. Abs!Grounded = Traversal!Grounded /\ Abs!Grounded \subseteq graph.nodes
    BY DEF Abs!Grounded, Traversal!Grounded, Abs!InactiveRoots, Traversal!InactiveRoots,
       Abs!Roots, Traversal!Roots, Abs!ExecutionType, Traversal!ExecutionType, Abs!In, Traversal!In
<1>8. \A n \in graph.nodes : Seen[n] # "unknown" => nodeState[n] # "unknown"
    BY <1>3 DEF Seen
<1> QED
    BY <1>2, <1>4, <1>6, <1>7, <1>8

\* A run that ends in success has nothing left on its way, has told the caller
\* once of the end of every node it launched, and has decided every node that
\* hangs on the entry points, however its threads were scheduled: unless the
\* skip propagation enqueued a node, of which the dispatcher knows nothing.
THEOREM SuccessLosesNothing == Spec => []NothingLostOnSuccess
<1>1. Init => InFlightIsTracked /\ Accounted /\ Emptied /\ Judged
    BY DEF Init, InFlightIsTracked, Accounted, Emptied, Judged, None, Verdicts
<1>2. IInv /\ InFlightIsTracked /\ Accounted /\ Emptied /\ Judged /\ [Next]_vars
        => InFlightIsTracked' /\ Accounted' /\ Emptied' /\ Judged'
    BY TrackedNext, AccountedNext, EmptiedNext, JudgedNext
<1>3. IInv /\ Accounted /\ Emptied /\ Judged => NothingLostOnSuccess
    BY SuccessIsWhole DEF NothingLostOnSuccess
<1> QED
    BY <1>1, <1>2, <1>3, Invariance, PTL DEF Spec

=============================================================================

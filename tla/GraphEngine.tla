----------------------------- MODULE GraphEngine -----------------------------
(****************************************************************************)
(* One run of the queue-based graph engine (api/core/workflow/graph_engine):*)
(* the thread that calls GraphEngine.run, the dispatcher thread, a pool of  *)
(* worker threads, the ready queue and the event queue between them, and    *)
(* the command channel through which the outside aborts or pauses the run.  *)
(*                                                                          *)
(* A dispatcher step is the handling of one event, or of the commands at    *)
(* hand, with every call it makes: other threads see of it only the ready   *)
(* queue, and take from it later. The ready queue is a bag: which of the    *)
(* queued nodes a worker gets is left open. The number of workers is fixed: *)
(* the pool's scaling is not modelled.                                      *)
(****************************************************************************)
EXTENDS WorkflowGraph, Sequences, FiniteSets

CONSTANTS
  Graphs,       \* the graphs a run may be given
  Workers,      \* the worker threads
  Human,        \* the nodes that may ask for a pause (human input)
  NoNode,       \* what an idle worker has in hand
  MaxCommands   \* how many commands the outside sends at most (a bound)

ASSUME GraphsAreWellFormed == \A g \in Graphs : IsWorkflowGraph(g)
ASSUME NoNodeIsNoNode      == \A g \in Graphs : NoNode \notin g.nodes
ASSUME MaxCommandsIsNat    == MaxCommands \in Nat

VARIABLES
  graph,       \* the graph of this run
  nodeState,   \* Node.state
  edgeState,   \* Edge.state
  launched,    \* how often each node was enqueued, retries of it aside (history)
  outcome,     \* the handle each node ended with, NotEnded before (history)
  ready,       \* ready[n] is how many times node n is in the ready queue
  executing,   \* GraphStateManager._executing_nodes
  strays,      \* the nodes the skip propagation has enqueued (history)
  retried,     \* NodeExecution.retry_count
  concluded,   \* how often a concluding event of each node was collected
  worker,      \* what each worker thread is doing
  events,      \* the event queue
  execution,   \* the GraphExecution aggregate
  channel,     \* the commands sent and not yet fetched
  sent,        \* the number of commands sent
  dispatcher,  \* where the dispatcher thread is
  runner,      \* where the thread in GraphEngine.run is
  verdict      \* the event that ended run(), None before

traversal == <<graph, nodeState, edgeState, launched, outcome>>
queues    == <<ready, executing, strays, retried, concluded>>
threads   == <<worker, events>>
control   == <<execution, channel, sent, dispatcher, runner, verdict>>
vars      == <<traversal, queues, threads, control>>

None     == "none"
NotEnded == "not ended"

ASSUME NotEndedIsNoHandle == NotEnded \notin Handles

Commands == {"abort", "pause"}
Verdicts == {"paused", "aborted", "failed", "partial-succeeded", "succeeded"}

Idle          == [node |-> NoNode, at |-> "idle"]
Got(n)        == [node |-> n, at |-> "got"]       \* before node.run()
Running(n)    == [node |-> n, at |-> "running"]   \* its started event is out

Event(type, n, handle) == [type |-> type, node |-> n, handle |-> handle]
Concluding == {"succeeded", "failed", "pause-requested"}

Init ==
  /\ graph \in Graphs
  /\ nodeState = InitialNodes(graph)
  /\ edgeState = InitialEdges(graph)
  /\ launched = [n \in graph.nodes |-> 0]
  /\ outcome = [n \in graph.nodes |-> NotEnded]
  /\ ready = [n \in graph.nodes |-> 0]
  /\ executing = {}
  /\ strays = {}
  /\ retried = [n \in graph.nodes |-> 0]
  /\ concluded = [n \in graph.nodes |-> 0]
  /\ worker = [w \in Workers |-> Idle]
  /\ events = <<>>
  /\ execution = [started |-> FALSE, completed |-> FALSE, aborted |-> FALSE,
                  paused |-> FALSE, error |-> FALSE, exceptions |-> FALSE]
  /\ channel = <<>>
  /\ sent = 0
  /\ dispatcher = "off"
  /\ runner = "created"
  /\ verdict = None

\* f with one more for the members of S: enqueue_node for each of them.
Plus(f, S) == [n \in DOMAIN f |-> f[n] + IF n \in S THEN 1 ELSE 0]

----------------------------------------------------------------------------
(* The thread that iterates over GraphEngine.run *)

\* run() up to the first event: start the workers, enqueue and track the root,
\* start the dispatcher.
Run ==
  /\ runner = "created"
  /\ runner' = "emitting"
  /\ dispatcher' = "start"
  /\ execution' = [execution EXCEPT !.started = TRUE]
  /\ nodeState' = [nodeState EXCEPT ![graph.root] = "taken"]
  /\ ready' = Plus(ready, {graph.root})
  /\ launched' = Plus(launched, {graph.root})
  /\ executing' = {graph.root}
  /\ UNCHANGED <<graph, edgeState, outcome, strays, retried, concluded, threads,
                 channel, sent, verdict>>

\* A pause hides an abort and an error, an abort hides an error.
FinalEvent ==
  IF execution.paused THEN "paused"
  ELSE IF execution.aborted THEN "aborted"
  ELSE IF execution.error THEN "failed"
  ELSE IF execution.exceptions THEN "partial-succeeded" ELSE "succeeded"

\* emit_events has ended, because the dispatcher has: the last event of run()
\* and the notification of the layers come before anything is stopped.
Conclude ==
  /\ runner = "emitting"
  /\ dispatcher = "ended"
  /\ verdict' = FinalEvent
  /\ runner' = "stopping"
  /\ UNCHANGED <<traversal, queues, threads, execution, channel, sent, dispatcher>>

\* _stop_execution: the workers are told to stop and waited for; a wait may
\* time out, so a node may still be running afterwards.
Stop ==
  /\ runner = "stopping"
  /\ runner' = "stopped"
  /\ UNCHANGED <<traversal, queues, threads, execution, channel, sent, dispatcher, verdict>>

\* GraphEngineManager, or the layer that enforces the execution limits.
Send(command) ==
  /\ runner \in {"emitting", "stopping"}
  /\ sent < MaxCommands
  /\ channel' = Append(channel, command)
  /\ sent' = sent + 1
  /\ UNCHANGED <<traversal, queues, threads, execution, dispatcher, runner, verdict>>

----------------------------------------------------------------------------
(* The worker threads *)

Take(w, n) ==
  /\ runner \in {"emitting", "stopping"}
  /\ worker[w] = Idle
  /\ ready[n] > 0
  /\ ready' = [ready EXCEPT ![n] = @ - 1]
  /\ worker' = [worker EXCEPT ![w] = Got(n)]
  /\ UNCHANGED <<traversal, executing, strays, retried, concluded, events, control>>

\* Node.run yields its started event first.
Begin(w) ==
  /\ worker[w].at = "got"
  /\ worker' = [worker EXCEPT ![w] = Running(worker[w].node)]
  /\ events' = Append(events, Event("started", worker[w].node, None))
  /\ UNCHANGED <<traversal, queues, control>>

\* The last event of Node.run: the node succeeds with a handle, asks for a
\* pause, or fails; an exception that escapes it becomes a failed event too.
Finish(w) ==
  LET n == worker[w].node
  IN  /\ worker[w].at = "running"
      /\ worker' = [worker EXCEPT ![w] = Idle]
      /\ \/ \E handle \in HandlesOf(graph, n) : events' = Append(events, Event("succeeded", n, handle))
         \/ events' = Append(events, Event("failed", n, None))
         \/ /\ n \in Human
            /\ events' = Append(events, Event("pause-requested", n, None))
      /\ UNCHANGED <<traversal, queues, control>>

----------------------------------------------------------------------------
(* The dispatcher thread *)

\* fetch_commands empties the channel; an abort always counts, a pause only
\* when the run has neither completed nor been aborted before it.
AfterCommands ==
  LET aborts == {i \in DOMAIN channel : channel[i] = "abort"}
      pauses == {i \in DOMAIN channel : /\ channel[i] = "pause"
                                        /\ ~execution.completed /\ ~execution.aborted
                                        /\ \A j \in aborts : i < j}
  IN  [execution EXCEPT !.aborted = @ \/ aborts # {},
                        !.error   = @ \/ aborts # {},
                        !.paused  = @ \/ pauses # {}]

ProcessCommands ==
  /\ dispatcher \in {"start", "commands", "flush"}
  /\ dispatcher' = IF dispatcher = "flush" THEN "drain" ELSE "loop"
  /\ execution' = AfterCommands
  /\ channel' = <<>>
  /\ UNCHANGED <<traversal, queues, threads, sent, runner, verdict>>

\* Mutant: nodes in the hands of workers are not looked at.
QueueEmpty == \A n \in graph.nodes : ready[n] = 0

\* is_execution_complete
ExecutionComplete == executing = {} /\ \A n \in graph.nodes : ready[n] = 0

Halted == execution.aborted \/ execution.error \/ execution.paused

LeaveLoop ==
  /\ dispatcher = "loop"
  /\ Halted \/ ExecutionComplete
  /\ dispatcher' = "flush"
  /\ UNCHANGED <<traversal, queues, threads, execution, channel, sent, runner, verdict>>

\* The dispatcher takes event e from the queue: in the loop, when nothing ends
\* it, or while it drains what the workers left. After a success or a failure
\* in the loop it looks at the commands.
Receives(e) ==
  /\ events # <<>>
  /\ e = Head(events)
  /\ events' = Tail(events)
  /\ \/ dispatcher = "drain"
     \/ dispatcher = "loop" /\ ~Halted /\ ~ExecutionComplete
  /\ UNCHANGED <<graph, worker, channel, sent, runner, verdict>>

Proceed(e) ==
  dispatcher' = IF dispatcher = "loop" /\ e.type \in {"succeeded", "failed"}
                THEN "commands" ELSE dispatcher

\* An exception that escapes the handler ends the thread's work and fails the run.
Crash ==
  /\ dispatcher' = "finish"
  /\ execution' = [execution EXCEPT !.error = TRUE, !.completed = TRUE]

\* Mutant: the node that ended stays tracked.
NeverFinished(found, n) == executing \union found

\* Mutant: successors are enqueued and not tracked.
NeverStarted(found, n) == executing \ {n}

\* finish_execution of n, after start_execution of the nodes found ready.
Tracked(found, n) == (executing \union found) \ {n}

\* Mutant: the skip propagation leaves the joins it decides alone.
NothingLate(n, handle) == {}

\* The joins enqueued by the skip propagation.
Late(n, handle) == LateAfter(graph, edgeState, n, handle)

\* The node is done: its edges are decided, the nodes this makes ready are
\* enqueued and tracked as executing, and those the skip propagation finds are
\* enqueued only.
Settle(n, handle) ==
  LET found   == ReadyAfter(graph, edgeState, n, handle)
      late    == Late(n, handle)
      skipped == SkippedAfter(graph, edgeState, n, handle)
  IN  /\ edgeState' = EdgesAfter(graph, edgeState, n, handle)
      /\ nodeState' = [m \in graph.nodes |-> IF m \in late \union found THEN "taken"
                                             ELSE IF m \in skipped THEN "skipped"
                                             ELSE nodeState[m]]
      /\ ready' = Plus(Plus(ready, late), found)
      /\ launched' = Plus(Plus(launched, late), found)
      /\ executing' = Tracked(found, n)
      /\ strays' = strays \union late
      /\ outcome' = [outcome EXCEPT ![n] = handle]
      /\ concluded' = Plus(concluded, {n})

HandleStarted ==
  LET e == Head(events)
  IN  /\ Receives(e)
      /\ e.type = "started"
      /\ Proceed(e)
      /\ UNCHANGED <<nodeState, edgeState, launched, outcome, queues, execution>>

HandleSucceeded ==
  LET e == Head(events)
  IN  /\ Receives(e)
      /\ e.type = "succeeded"
      /\ Settle(e.node, e.handle)
      /\ Proceed(e)
      /\ UNCHANGED <<retried, execution>>

\* Pausing a run that has completed or been aborted raises.
HandlePauseRequested ==
  LET e == Head(events)
  IN  /\ Receives(e)
      /\ e.type = "pause-requested"
      /\ UNCHANGED <<edgeState, launched, outcome, ready, strays, retried>>
      /\ IF execution.completed \/ execution.aborted
         THEN Crash /\ UNCHANGED <<nodeState, executing, concluded>>
         ELSE /\ execution' = [execution EXCEPT !.paused = TRUE]
              /\ executing' = executing \ {e.node}
              /\ nodeState' = [nodeState EXCEPT ![e.node] = "unknown"]
              /\ concluded' = Plus(concluded, {e.node})
              /\ Proceed(e)

Exhausted(n) == retried[n] >= graph.retries[n]

\* Every failed attempt counts as an exception of the run, a retried one too.
Failing(e) ==
  /\ Receives(e)
  /\ e.type = "failed"

\* Mutant: a failure that is retried is reported as the end of the node.
RetryReports ==
  LET e == Head(events)
  IN  /\ Failing(e)
      /\ ~Exhausted(e.node)
      /\ retried' = Plus(retried, {e.node})
      /\ ready' = Plus(ready, {e.node})
      /\ executing' = executing \union {e.node}
      /\ nodeState' = [nodeState EXCEPT ![e.node] = "taken"]
      /\ execution' = [execution EXCEPT !.exceptions = TRUE]
      /\ Proceed(e)
      /\ concluded' = Plus(concluded, {e.node})
      /\ UNCHANGED <<edgeState, launched, outcome, strays>>

HandleFailedRetry ==
  LET e == Head(events)
  IN  /\ Failing(e)
      /\ ~Exhausted(e.node)
      /\ retried' = Plus(retried, {e.node})
      /\ ready' = Plus(ready, {e.node})
      /\ executing' = executing \union {e.node}
      /\ nodeState' = [nodeState EXCEPT ![e.node] = "taken"]
      /\ execution' = [execution EXCEPT !.exceptions = TRUE]
      /\ Proceed(e)
      /\ UNCHANGED <<edgeState, launched, outcome, strays, concluded>>

HandleFailedAbort ==
  LET e == Head(events)
  IN  /\ Failing(e)
      /\ Exhausted(e.node) /\ graph.strategy[e.node] = "abort"
      /\ execution' = [execution EXCEPT !.exceptions = TRUE, !.error = TRUE, !.completed = TRUE]
      /\ executing' = executing \ {e.node}
      /\ concluded' = Plus(concluded, {e.node})
      /\ Proceed(e)
      /\ UNCHANGED <<nodeState, edgeState, launched, outcome, ready, strays, retried>>

\* The failure becomes an exception event, handled at once: the fail branch is
\* taken, or the node goes on with its default values. The latter names no
\* handle, so that a branch node cannot go on from it: the handler raises.
HandleFailedAbsorbed ==
  LET e == Head(events)
  IN  /\ Failing(e)
      /\ Exhausted(e.node) /\ graph.strategy[e.node] # "abort"
      /\ UNCHANGED retried
      /\ IF graph.strategy[e.node] = "default-value" /\ ExecutionType(graph, e.node) = "branch"
         THEN /\ dispatcher' = "finish"
              /\ execution' = [execution EXCEPT !.exceptions = TRUE, !.error = TRUE, !.completed = TRUE]
              /\ UNCHANGED <<nodeState, edgeState, launched, outcome, ready, executing, strays, concluded>>
         ELSE /\ Settle(e.node, IF graph.strategy[e.node] = "fail-branch" THEN FailBranch ELSE Source)
              /\ execution' = [execution EXCEPT !.exceptions = TRUE]
              /\ Proceed(e)

\* Nothing is left in the event queue.
EndDrain ==
  /\ dispatcher = "drain"
  /\ events = <<>>
  /\ dispatcher' = "finish"
  /\ UNCHANGED <<traversal, queues, threads, execution, channel, sent, runner, verdict>>

\* A paused run is not marked complete; then the event emitter is released.
MarkComplete ==
  /\ dispatcher = "finish"
  /\ dispatcher' = "ended"
  /\ execution' = [execution EXCEPT !.completed = @ \/ ~execution.paused]
  /\ UNCHANGED <<traversal, queues, threads, channel, sent, runner, verdict>>

HandleEvent ==
  \/ HandleStarted
  \/ HandleSucceeded
  \/ HandlePauseRequested
  \/ HandleFailedRetry
  \/ HandleFailedAbort
  \/ HandleFailedAbsorbed

Dispatch == ProcessCommands \/ LeaveLoop \/ HandleEvent \/ EndDrain \/ MarkComplete

WorkerStep(w) ==
  \/ \E n \in graph.nodes : Take(w, n)
  \/ Begin(w)
  \/ Finish(w)

Next ==
  \/ Run
  \/ Conclude
  \/ Stop
  \/ \E command \in Commands : Send(command)
  \/ \E w \in Workers : WorkerStep(w)
  \/ Dispatch

Spec == Init /\ [][Next]_vars

\* The threads of the engine keep running, and every node's run comes to an
\* end; nobody has to send a command.
FairSpec ==
  /\ Spec
  /\ WF_vars(Run) /\ WF_vars(Conclude) /\ WF_vars(Stop)
  /\ WF_vars(Dispatch)
  /\ \A w \in Workers : WF_vars(WorkerStep(w))

----------------------------------------------------------------------------
(* Properties *)

\* The types of the state.
TypeOK ==
  /\ IsWorkflowGraph(graph)
  /\ nodeState \in [graph.nodes -> States]
  /\ edgeState \in [graph.edges -> States]
  /\ launched \in [graph.nodes -> Nat]
  /\ outcome \in [graph.nodes -> Handles \union {NotEnded}]
  /\ ready \in [graph.nodes -> Nat]
  /\ executing \subseteq graph.nodes
  /\ strays \subseteq graph.nodes
  /\ retried \in [graph.nodes -> Nat]
  /\ concluded \in [graph.nodes -> Nat]
  /\ worker \in [Workers -> {Idle} \union {Got(n) : n \in graph.nodes}
                                   \union {Running(n) : n \in graph.nodes}]
  /\ \A i \in DOMAIN events :
       events[i] \in [type : Concluding \union {"started"}, node : graph.nodes,
                      handle : Handles \union {None}]
  /\ execution \in [started : BOOLEAN, completed : BOOLEAN, aborted : BOOLEAN,
                    paused : BOOLEAN, error : BOOLEAN, exceptions : BOOLEAN]
  /\ \A i \in DOMAIN channel : channel[i] \in Commands
  /\ sent \in 0..MaxCommands
  /\ dispatcher \in {"off", "start", "loop", "commands", "flush", "drain", "finish", "ended"}
  /\ runner \in {"created", "emitting", "stopping", "stopped"}
  /\ verdict \in Verdicts \union {None}

\* Where copies of node n are on their way: queued, in the hands of a worker,
\* or ended with the event not handled yet.
Holders(n)  == {w \in Workers : worker[w].node = n}
Reports(n)  == {i \in DOMAIN events : events[i].node = n /\ events[i].type \in Concluding}
InFlight(n) == ready[n] > 0 \/ Holders(n) # {} \/ Reports(n) # {}

\* At most one copy of a node is on its way at any time: no two workers run
\* the same node, a retry starts after the failed attempt was handled, and a
\* join that two branches reach is run for one of them.
OneCopy == \A n \in graph.nodes : ready[n] + Cardinality(Holders(n)) + Cardinality(Reports(n)) <= 1

\* A node reaches the caller as ended at most once, retries and the
\* conversion of failures into exceptions included, and a skipped one never.
ConcludedOnce ==
  \A n \in graph.nodes :
    /\ concluded[n] + (IF InFlight(n) THEN 1 ELSE 0) <= 1
    /\ nodeState[n] = "skipped" => concluded[n] = 0 /\ ~InFlight(n)

\* While the dispatcher waits for events every node on its way is tracked as
\* executing, and no other node is, so that is_execution_complete means what it
\* says. Only a node that the skip propagation enqueued may escape it.
InFlightIsTracked ==
  dispatcher \in {"start", "loop", "commands"} =>
    \A n \in graph.nodes :
      /\ n \in executing => InFlight(n)
      /\ InFlight(n) => n \in executing \union strays

\* The traversal of the graph is the one GraphTraversal describes. A node that
\* asked for a pause is reset to unknown, and counts as taken there.
Traversal == INSTANCE GraphTraversal WITH
  nodeState <- [n \in graph.nodes |-> IF launched[n] > 0 THEN "taken" ELSE nodeState[n]]

ImplementsTraversal == Traversal!Spec

\* A run that ends in success, with no node enqueued by the skip propagation,
\* leaves none on its way, has told the caller about the end of every node it
\* launched, and has decided every node whose fate hangs on the entry points.
NothingLostOnSuccess ==
  verdict \in {"succeeded", "partial-succeeded"} /\ strays = {} =>
    /\ \A n \in graph.nodes : ~InFlight(n) /\ concluded[n] = launched[n]
    /\ \A n \in Traversal!Grounded : nodeState[n] # "unknown"

\* Every run that is started ends.
EventuallyConcludes == (runner = "emitting") ~> (verdict # None)

\* graph_state_manager.py: the execution is complete when the ready queue is
\* empty and no nodes are executing.
CompleteMeansNothingRuns ==
  dispatcher = "flush" /\ ~Halted => \A w \in Workers : worker[w] = Idle

=============================================================================

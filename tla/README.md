# Verification of aigc-workflow

This directory holds TLA+ models of the parts of the repository in which
several actors share state:

- the queue-based workflow engine of the Dify API (`src/api/core/workflow`) and
  the coordinator that streams its answers;
- the draft of a workflow, edited in several browser tabs and saved through the
  Dify API (`src/web/app/components/workflow*`, `src/api/services/workflow_service.py`);
- canvas-studio (`src/canvas-studio`): its run pipeline, its store, and the
  canvas with its history in the browser.

TLC checks all of them on small instances. The TLA+ proof system checks theorems
about the traversal of a graph, the engine, the streamed answers, the draft, the
run pipeline, the store and the canvas editor, for every value of their
constants.

## 1. The system

### Workflow engine (`src/api/core/workflow`)

| Part | State | Operations | Talks to |
|---|---|---|---|
| `graph/` | nodes, edges, root; the state of each node and edge | `Graph.init`: parse, choose the root, promote fail-branch nodes, skip inactive roots | built once per run |
| `graph_engine/graph_traversal`, `graph_state_manager.py` | node and edge states, executing set | decide the edges of a node that ended, propagate skips, find ready nodes, enqueue and track them | called by the event handlers |
| `graph_engine/graph_engine.py` | – | `run()`: start, emit events, last event, stop | generator in the caller's thread |
| `orchestration/dispatcher.py`, `execution_coordinator.py` | the loop's position | take an event, handle it, look at commands, drain, mark complete | one thread, reads the event queue |
| `event_management/event_handlers.py`, `error_handler.py` | retry counts, exceptions | started, succeeded, failed (retry, abort, fail branch, default value), pause requested | state manager, edge processor, event manager |
| `worker.py`, `worker_management/` | threads | take a node from the ready queue, run it, put its events into the event queue; scaling | ready queue, event queue |
| `command_channels/`, `command_processing/`, `manager.py` | pending commands | abort, pause; in memory or in Redis | sent by other threads or processes, fetched by the dispatcher |
| `domain/` | `GraphExecution` flags, `NodeExecution` | start, complete, abort, pause, fail | dispatcher and `run()` |
| `event_manager.py` | collected events, reader-writer lock | collect, emit | dispatcher writes, `run()` reads |
| `response_coordinator/` | sessions, stream buffers and read positions, paths still to be taken | register, track node and edge, intercept an event: begin, queue, flush and end a session | event handlers |
| `layers/` | counters, persistence | observe events, send commands | called from the dispatcher |
| `runtime/` | variable pool, snapshot | save on pause, load on resume | `run()` |

What is hard: one thread decides while others run nodes; completion is derived
from two containers that other threads change; a join may be reached by a taken
or by a skipped edge, in any order; failures are retried, absorbed or fatal;
aborts and pauses arrive at any time; a drain follows the end of the loop; an
answer is begun before it is known which nodes will run.

### Draft of a workflow (`src/web`, `src/api/services`)

| Part | State | Operations | Talks to |
|---|---|---|---|
| tab (`use-nodes-sync-draft.ts`, `use-workflow-refresh-draft.ts`, `workflow/index.tsx`) | the copy of graph, features and variables; the hash of the draft it came from; a debounce timer; a serial queue of syncs; a layer over the editor while a draft is loaded | edit, save a secret, sync, refresh, save as the page is hidden | API |
| API (`workflow_service.py`, `models/workflow.py`) | the draft: graph, features, variables with secrets | compare the hash, write the copy, answer hash and draft | database |

What is hard: several tabs and several requests of one tab; a copy goes on
changing while it is saved; the hash covers only a part of what is written;
secrets travel as placeholders; requests and answers are lost.

### canvas-studio

| Part | State | Operations | Talks to |
|---|---|---|---|
| API (`apps/api/src/routes`) | open event streams | create, read and update a canvas; start a run, stream its events | store, BullMQ queue |
| worker (`apps/worker/src/index.ts`) | the job in hand | execute a run: progress, asset, success | queue, store |
| store (`*/src/store`) | runs, events, assets, canvases under a version | SQLite, or one JSON file that is rewritten whole | shared by API and worker processes |
| task node (`TaskNode.tsx`) | status and progress shown, an EventSource | follow a run | the stream |
| canvas editing (`useWorkflowStore`, `useHistoryStore`, `WorkflowCanvas`, `HistoryPanel`, nodes) | nodes and edges; snapshots before and after the present one; timers | gestures, undo, redo, jump, clear, start a run | API |
| providers | registry of configurations | register, select | – |

What is hard: three processes share rows without transactions, or one file that
is truncated before it is written; the queue repeats a job whose worker died; a stream is resumed by a timestamp; the browser
reconnects by itself; snapshots are taken by timers after the gestures, and not
of every change.

The rest of the repository (RAG and datasets, plugins, model runtime, tools,
HTTP controllers and services, the rest of the Dify web frontend, SDKs) is listed
in `PROJECT.json` as not modelled: it is mostly I/O with other services, CRUD, or
user interface.

What makes the parts correct:

- traversal: a node runs once, only when all its incoming edges are decided and
  one was taken; a decision is final; the nodes that ran are those on the chosen
  paths, in whatever order nodes ended;
- engine: one copy of a node at a time, one report of its end; a run always ends;
  a run that ends in success has lost nothing; completion means that nothing runs;
- answers: whole, in order, once; none is begun that does not run;
- draft: no edit is overwritten by a copy without it, no edit stays unsaved, no
  secret is lost or replaced by its placeholder, the editor opens again;
- canvas run: what is shown is stored; a run goes forward only; every accepted
  job settles; success and failure become visible;
- canvas store: what was acknowledged stays and versions are used once, unless
  operations overlap on the JSON file or a crash cuts off its rewrite;
- canvas editing: edges connect nodes, success is shown only for a run that has
  succeeded, what is shown is the present snapshot.

## 2. Modules

| Module | Models |
|---|---|
| `WorkflowGraph` | pure operators: a graph, skip propagation, readiness, what the end of a node decides, the initial states |
| `GraphTraversal` | the abstract specification of a run: nodes are launched and end in any order |
| `GraphEngine` | the threads, queues, retries, failures and commands; implements `GraphTraversal` |
| `AnswerStream` | the response coordinator, composed with `GraphTraversal` |
| `DraftSync` | tabs, requests and the API that edit and save one draft |
| `CanvasRun` | API, queue, worker, event stream and task node of canvas-studio |
| `CanvasStore` | the store of canvas-studio under the API and the worker process |
| `CanvasEditor` | the canvas in the browser, its history, timers, answers and events |
| `MCTraversal`, `MCEngine`, `MCAnswers`, `MCDraft`, `MCCanvas`, `MCStore`, `MCEditor` | graphs, tabs, workers, clients and users for TLC |
| `WorkflowGraphProofs`, `GraphTraversalProofs`, `GraphEngineProofs`, `AnswerStreamProofs`, `DraftSyncProofs`, `CanvasRunProofs`, `CanvasStoreProofs`, `CanvasEditorProofs` | lemmas and theorems |

Definitions that begin with the comment `Mutant:` are deliberate mistakes. No
specification uses them; each takes the place of the definition that follows it
when one asks whether a property would notice.

Several specifications begin with a choice of the instance: `graph` in
`GraphTraversal` and `GraphEngine`, `flow` in `AnswerStream`, `setup` in
`CanvasStore` and `DraftSync`, `user` in `CanvasEditor`. These variables never change; they let one
run go over a family of instances.

**WorkflowGraph.** A graph is a record of nodes, edges with handles, root,
execution types, error strategies and retry limits. Skip propagation recurses in
the code from edge to node; here it is the least set of nodes closed under its
rule, an intersection. That is the same set whatever the order of the recursion,
needs no recursion, and can be reasoned about. `LateJoins` are the nodes that
`propagate_skip_from_edge` enqueues by itself, `ReadyAfter` those that
`process_node_success` returns. Parallel edges that agree in both ends and in
the handle are one. Response and container nodes are executable ones: the
traversal does not tell them apart.

**GraphTraversal.** `Start` enqueues the root, `End(n, handle)` is the end of a
node with the handle it chose. The history variables `launched` and `outcome`
count the launches and keep the handles. `Grounded` are the nodes whose fate hangs
on the entry points alone: the least set that holds the root and the inactive
roots, and every node whose incoming edges all come from it. Nodes on a cycle or
behind an orphan are outside, and nothing decides them.

**GraphEngine.** A dispatcher step is the handling of one event or of the
commands at hand, with every call it makes. This is faithful because the other
threads see of it only what is in the ready queue, and may take from it later;
the caller's thread reads collected events in order and decides nothing from
them. `LeaveLoop`, `ProcessCommands`, `EndDrain` and `MarkComplete` are the
other points of `_dispatcher_loop`. A worker has three steps: take a node, put
its started event, put its last event. Stream chunks and variable updates are
left out, and so are a node that raises before its started event and a stream
that goes on after its last event; the ready queue is a bag, so every order of execution is explored.
`is_execution_complete` looks at the queue and then at the executing set; both
are read in one step, since a worker only moves a node out of the queue and
the executing set is written by the dispatcher alone. `strays` is a history
variable: the nodes that `propagate_skip_from_edge` has enqueued without tracking
them. An exception that escapes
a handler is `Crash`. Workers may still be running a node when `run()` returns.

**AnswerStream.** One action per event the dispatcher handles for the
coordinator: a chunk, a success, an absorbed failure; and `Assign`, the write of a
conversation variable by a node that runs. The traversal of the graph is
`GraphTraversal` itself, conjoined to these actions. The active session and the
waiting ones are one list of places (`todo`), each an answer and the number of a
segment in its template. `Flushed` is `try_flush` with the
loops of the session behind it: segments that are complete are streamed and
left behind, of the next one what has arrived. The read position is kept per
stream, as in the code, and not per session. Sessions that become certain at
once begin in any order, because the code collects them in a set. A flow has no
cycle and an answer names only nodes before it: the editor draws no other edge
(`use-workflow.ts:384`) and offers no other variable. `Blocks` leaves out nodes of execution type
`CONTAINER` (`coordinator.py:216-219`), which the code lets block an answer as branches
do: it begins some answers later than the model must. `shown` is a history
of what was streamed, with the assigners that had written by then.

**DraftSync.** A graph is the set of the edits made to it and is its own hash.
The variables, which the hash does not cover, are one secret. A call is a sync,
a beacon (the save of a page that is hidden) or a fetch; the API handles
it in `Check` (read the draft, compare the hash), `Store` and `Answer` (read back,
compute the hash). `Hear` is the tab's continuation, `Lose` the loss of a request
or of its answer. The tab's serial queue and its timer are as in the
hooks. A refusal leaves a refresh `due`, whose turn comes when the body of the
refusal is read, and so does the page when it is shown again: several fetches can be under
way, and their answers come in any order. `layer` is `isSyncingWorkflowDraft`, the
layer over the editor that takes the gestures while a draft is loaded, `loaded` is
`isWorkflowDataLoaded`, without which no copy is sent; the first answer to any
fetch brings both back, a lost one only what its own fetch had found. `crossed`
is a history variable: an answer has put a hash beside a graph it does not cover. `overlap`
says whether the API may serve two requests at a time. A tab has one beacon under way at a time.
Leaving the page, the creation of a draft that does not exist yet
(`workflow_service.py:221-233`; the draft is there from the start), restoring a version
and publishing are left out.

**CanvasRun.** One action per statement on the store, because the processes
interleave there. `created_at` is reduced to what is compared: two events of a
run in sequence carry the same millisecond or the second a later one; a progress
event, which follows a wait of 300 ms, always a later one. Clocks do not run
backwards. `updateRun` reads a row and writes it back; one worker at a time
holds a run, so the pair is one step. Points (progress reports of a run) are
five in the code and fewer in the runs; progress 100 is `Points + 1`. The task
node's effect closes its EventSource when the status changes, and
the next connection starts from the first event. BullMQ is external: it gives a
job to one worker, gives it out again when its worker died (`MaxStalls`, one by
default), and does not retry a job whose handler threw (no `attempts` is set).
`CreateRun` leaves out the lookup of the canvas, which answers 404 when there is none
(`run.ts:18-19`): the model starts every run the code does, and more.
A crash between the two statements of the POST handler, and a BullMQ lock that
expires while its worker lives, are left out.

**CanvasStore.** An operation is `Load` (a process reads what the operation
needs: the row, or the file whole), then `Refuse` or `Write` and `Return`. A setup
says whether the store is the file and which processes run: SQLite or the file
under both (`openStore` falls back to the file in each process by itself), or the
file under the API alone. A process dies in one of three ways. `Unwritten`:
nothing has reached the store. `Untold`: the write was complete, but the caller
never hears of it. `CutOff`: the rewrite truncates the file first
(`file.ts:30`), and the file is the only copy, so a death before the text is
whole leaves nothing of what it held, and a file that does not parse. `overlapped` is
a history variable: two operations have been under way on the file at once. From then on
a rewrite leaves either text, or a mixture that does not parse. `Refresh` is a
client that reads the canvas; a client's update carries the version it has
seen, and its answer may be lost. `acked` is a history of what the callers were
told.

**CanvasEditor.** One action per gesture of the user, per timer and per answer
or event from the server. `history` is the temporal store of zundo: `past` and
`future` with the nearest snapshot last. Ids of nodes come from the clock, so a
gesture takes a millisecond and a loop that creates two nodes one or two.
`ById` is what React Flow does with nodes of one id; `Kept` are the members of a
list at given places, in their order. The effect that captures
the first nodes keeps them until its timer. A patient user makes no gesture
while a snapshot is still to be taken, a hasty one whenever they like; `drifted` is a history
variable: the graph has changed since the last snapshot by an operation that
takes none. A node may be joined to itself, as React Flow allows. Deleting a node takes its
edges along; an edge is deleted alone too. A node that is generating
has its button off, but `isExecuting` is a state of its component, lost when the node is
deleted and brought back by undo; so `Execute` may start another run of the same
node at any time, which is more than the code allows. `Deliver` brings a task node the
progress and the success of its run, and nothing obliges it to: the stream may skip
the success (section 4, 2). `TaskNode.tsx` would also read a failure, but no
process emits one, so a run that fails stays as it is.

## 3. Runs

| Run | Checks | Bounds |
|---|---|---|
| `traversal` | types, `LaunchedOnce`, `LaunchedWhenDecided`, `NoNodeLeftBehind`, `DecisionsAreFinal` | all forward graphs of 4 nodes with a branch and a fail-over, graphs with an inactive root, graphs of 5 nodes with parallel branch, fail-over and double join: 2624 in all |
| `engine` | types, `OneCopy`, `ConcludedOnce`, `InFlightIsTracked`, `NothingLostOnSuccess`, `ImplementsTraversal` | 4 graphs of 4 or 5 nodes, 2 workers, 1 retry, 1 node that asks for a pause, 1 command |
| `engine_live` | `EventuallyConcludes` | 2 graphs of 3 and 4 nodes with retry, fail branch, a join decided by a skip, and a failure no handler can absorb; 1 command |
| `engine_late` (violated) | `CompleteMeansNothingRuns` | the graph with a join decided by a skip |
| `answers` | types, `AnswersInOrder`, `StreamedIsAnswer`, `BegunAnswersRun`, `AnswersFollowGraph`, `AssignedFirst` | every way to connect a root, a branch, a node that streams two chunks, falls back, fails over or assigns (and then aborts or falls back when it fails), and two answers |
| `draft` | types, `OneTabKeepsEdits`, `SecretIsReal`, `EditsSurviveInTurn`, `SecretSurvives`, `EditsAreSaved`, `EditorOpens` | one tab with overlapping requests (3 edits, 1 secret, 1 loss), two tabs served in turn (3 edits, 1 secret), one tab that is hidden and shown (2 edits, 1 loss) |
| `draft_overlap` (violated) | `EditsSurvive` | two tabs, requests served at the same time, nothing lost |
| `canvas` | types, `ShownIsStored`, `AttemptsAreBounded`, `JobsSettle`, `RunsGoForward`, `RunsSucceed` | 1 run, 2 workers, 1 progress report, 1 repetition, 2 faults |
| `canvas_lost_event` (violated) | `SuccessIsShown` | no fault |
| `canvas_failure` (violated) | `FailureIsVisible` | 1 fault |
| `store` | types, `AcknowledgedIsKept`, `AcceptedEditsAreKept`, `VersionsOnlyGrow` | SQLite under both processes, the JSON file under the API alone, the JSON file under both; 2 clients, 2 edits, 2 items, 1 crash |
| `editor` | types, `EdgesConnect`, `SuccessIsReal`, `PresentIsShown` | a patient user with 4 milliseconds, a hasty one with 3; 2 runs, 2 snapshots |

Why these bounds are enough to be interesting. *Engine:* the situations the
hazards name need two parallel branches and a join (four nodes), a join behind a
branch (five), two workers and one retry. `InFlightIsTracked` is about all graphs
and sets aside the nodes the skip propagation enqueued (`strays`; section 4, 1);
`NothingLostOnSuccess` is about the runs in which there are none.
*Answers:* two answers are what it takes for one to wait behind the other, and
two chunks for one to arrive before and one after a session begins. *Draft:* an
edit saved, one under way and one made meanwhile are three. *Canvas:* two faults are
a crash in a first attempt and one in the repeated one, which is where the
queue gives up; runs share nothing but the queue and the workers.
*Store:* one edit that is accepted and one made from an older copy; both are
proved for any number (section 5). *Editor:* the time is spent on gestures; four fill a
history of two and drop its oldest snapshot, or make a node, start its run, see it answered
and ended, and undo or jump back behind that. Two runs answered in one millisecond are what it
takes for two task nodes to share an id. Its four invariants are proved for any
time, number of runs and limit (section 5).

Deadlock is not checked: a run that has ended, an API without requests and a
user who does nothing more stop. Symmetry is used in `store` alone, which has no
liveness property.

**Fairness.** All of it is weak.
`GraphEngine!FairSpec`: the caller's thread, the dispatcher and each worker;
operating-system threads are scheduled, and a node's run is assumed to end.
Commands are never required.
`CanvasRun!FairSpec`: each worker's handler, the queue
(handing out, and noticing stalled jobs), the API's second half of a request and
each browser. Users and faults are free, so that a property of the kind "unless
something fails" names the faults itself.
`DraftSync!FairSpec`: in each tab the timer, the queue and the refresh; the API
and its answers. Edits, hiding, showing and losses are free.

## 4. What the violated runs show

1. `engine_late`. `skip_propagator.py:62` enqueues a join without
   `start_execution`. Once a worker has taken it, the ready queue is empty and
   nobody is executing, so the dispatcher ends the run. If the join's event
   arrives during the drain nothing is lost; if not, the run
   succeeds without the join's result.
2. `canvas_lost_event`. `asset.created` and `run.succeeded` are stored in one
   turn of the worker, often in the same millisecond. A poll between the two
   moves the cursor to that millisecond, and `created_at > ?` never returns the
   second. No fault is needed; the task node shows `running` for ever.
3. `canvas_failure`. When the handler throws, the job is failed and the run is not.
4. `draft_overlap`. `sync_draft_workflow` reads the draft, compares the hash and
   writes, without a lock and without a condition on the write. Two requests
   served at once both pass, and the second overwrites what the first has written.

## 5. What is proved

All proofs are for any graphs, workers, runs, tabs, clients, users and bounds,
infinite sets included; graphs may have cycles, except under the answers. What
is assumed is what the modules assume of their constants: the graphs given are
well-formed (`GraphsAreWellFormed`), flows have no cycle and answers name nodes
before them (`FlowsAreWellFormed`), an answer has no error strategy
(`AnswersHaveNoStrategy`: the editor offers one for nodes of four other types only,
`utils/workflow.ts:185`), the default handles are handles
(`DefaultHandles`), "not ended", "no node" and "no run" are none of the things
they stand beside (`NotEndedIsNoHandle`, `NoNodeIsNoNode`, `NoRunIsNoRun`), bounds
are natural numbers (`MaxCommandsIsNat`, `BoundsAreNat`, `CrashesAreBounded`,
`DraftAssumption`, `EditorAssumption`), a store is set up in one of the known
ways (`SetupsAreKnown`).

Induction over data is out of the prover's reach. Where an argument goes along a
graph or a list it is made in one of two other ways: a set is the least one
closed under a rule, and the proof gives a closed set; or of the numbers, or the
nodes of a graph without a cycle, at which a claim fails one takes a least and
refutes it.

**`WorkflowGraphProofs`.** The intersection that defines `SkippedNodes` is itself
closed under the rule (`SkippedNodesClosed`) and contained in every closed set
(`SkippedNodesLeast`); every node in it has an incoming edge, and all of those
are skipped (`SkippedNodesSound`); in a *coherent* state nothing that was decided
is touched (`SkippedNodesUnknown`, `SkippedEdgesUnknown`). `EndDecides` sums up what
the end of one node does, `EndSettles` that a node whose last open edge it decides
is decided with it.

**`GraphTraversalProofs`** (`TypeCorrect`, `NeverLaunchedTwice`,
`JoinsWaitAndSkipsHold`, `DecisionsNeverRevised`, `NoneLeftBehind`).
The properties are not inductive as they stand. `IInv` adds: a node's state and
its launch count say the same (`NodesAgree`); an edge is decided only if
its tail ended or was skipped (`EdgesAgree`), so that the edges of a node in
flight are still open; an undecided node other than the root is not ready
(`NodesWait`), which is what makes a node ready at exactly one decision; the root
is never skipped (`RootNotSkipped`). Every step then follows from `EndDecides`.
`NoneLeftBehind` adds `SInv`: the edges of an ended node are as its outcome says
(`Propagated`), a node with all incoming edges decided is decided (`Settled`),
inactive roots are skipped, and what runs is on the chosen paths
(`OnChosenPaths`). When nothing is in flight the decided nodes are closed under
the rule of `Grounded`, and the nodes that ran under that of `ChosenPaths`.

**`GraphEngineProofs`** (`EngineIsTyped`, `OneCopyAtATime`, `EndToldOnce`,
`EngineImplementsTraversal`, `InFlightStaysTracked`, `SuccessLosesNothing`). The
engine marks a node
that the propagation enqueues as taken only when its event is handled, the
traversal at once; so the engine is seen through `Seen`, in which every
launched node is taken, and `GraphTraversalProofs` is instantiated with it. The
inductive invariant is the traversal's own, of what is seen, together with:
a node is in one place at most, the queue, one pair of hands or one event
(`Copies`); a node on its way was launched and has neither ended nor been told
to have (`UnderWay`); an event names a handle its node may end with
(`Carried`). Handling an event that ends a node is then an `End` step of the
traversal, and every other step leaves what is seen unchanged.
`InFlightStaysTracked` holds on every graph: the strays are the only nodes that
escape. `SuccessLosesNothing` adds that a launched node is on its way or has been
told to have ended until something halts the run (`Accounted`), that the
dispatcher leaves its loop only with nothing on its way (`Emptied`), and that a
success is the verdict on a run nothing has halted (`Judged`); what is decided
then follows from `SettledNoneLeft` of the traversal.

**`AnswerStreamProofs`** (`AnswersAreTyped`, `AnswersKeepTheirOrder`,
`AnswersKeepToTheGraph`, `BegunAnswersDoRun`, `AnswersSeeTheAssigned`,
`AnswersAreWhole`, `AnswersTraverse`), for any flows: any number of answers,
segments and chunks. Every step of the coordinator
is one of the traversal or leaves it alone (`AnswersTraverse`), so that the
invariants of `GraphTraversalProofs` come with it. `Ways` is a recursive
function; that its equation has a solution is shown from the least family of sets
of edges closed under adding an edge in front (`WaysUnfold`), that a way leads
where it should from the missing cycle (`WaysLead`), and that edges which lead
somewhere hold a way from the nodes without one (`LeadsHoldsWay`). `FlattenJoins`
says what the library's `FlattenSeq` returns. The invariant `Streams` has three
parts. An answer has begun only when what can lead elsewhere on one of its ways
is taken (`BegunAreCertain`), and at the latest when its node is launched
(`LaunchedHaveBegun`, because the taken edges that lead to a launched node hold a
way). All that was streamed and all that is waiting stands in one line
(`InLine`): the answers have ranks in which they began, everything is in the order
of rank and segment, and only of the first place still to be streamed something
may have been, as far as its stream was read (`Lined`); of two answers the
earlier in rank does not need the other on every way. And what was streamed knows the
assigners it has to (`Told`). `FlushLines` and `ProceedLines` show that a flush and
the begin of answers keep the line; the rest is bookkeeping of the events.

`AnswersAreWhole` (`StreamedIsAnswer`) says that at the end an answer is what its
template and the run make of it. It needs a second invariant, `Pours`, over the
first. `Filled`: of every place of an answer that has begun, what was streamed is
the chunks read of its source while the place waits, and all its segment says once
it is left behind, provided that no other place begun names that source.
`FirstRuns`: the answer at the front of the line has not ended, unless its first
place waits for a node that ended without a value or half-way (`Stuck`). It
is kept because the sources of an answer that runs are decided (`SourcesSettled`, from
the rule that an answer names nodes before it) and because no answer's failure is
absorbed. `Fed`: only a node that runs has streamed, only one that ended has its value
in the pool, so nothing comes of a skipped one. `FlushFills`
and `ProceedFills` show that a flush and the begin of answers keep the places filled
(`PiecesHold`, `FlushedHolds`: which parts a flush adds to which place). When
nothing is left to run all answers begun have ended, so no place waits;
then both sides of the equation are lists of pairs that rise (`StreamedRises`,
`AnswerRises`, from `FlattenJoins`) with the same members, and two such lists
are equal (`RisingAlike`), by the first number at which they would differ.

**`DraftSyncProofs`** (`DraftIsTyped`, `EditsStayInTurn`, `EditsStayInTheTab`,
`SecretStaysReal`, `SecretStays`), for any tabs, edits, secrets, losses and
hidings. `EditsStayInTurn` rests on `Honest`: until an answer has crossed a
load, the hash beside a graph covers only edits of that graph, in a tab and in a
request, and a request that has passed the comparison still finds the draft it
was compared with, because it is the only one served (`InTurn`). The theorems about a tab
that is left alone rest on `Serial` (one sync of a tab under way, the first of its
queue), `Unrefused` (its hash is the draft's, so that nothing is refused and
nothing loaded; the request under way is the only one), and `Kept`, which follows
a secret from the moment it is entered to the sync that saves it and the
placeholder after it: a placeholder stands only for a secret that is stored.
That an editor is closed only while a fetch can open it (`Opening`) is a
part of `DraftIsTyped`.

**`CanvasRunProofs`** (`StateIsTyped`, `AttemptsStayBounded`, `ShownStaysStored`,
`FaultlessRunsGoForward`).
`Tracked` relates queue and workers: a run has a worker only while its job is active
(`Held`), attempts are counted by the queue's repetitions (`Counted`) and each
attempt is credited with one asset (`Credit`). `Backed` relates the data:
rows, events in the log or under way to a browser, and the step a
worker is at, each name only assets that are stored. `FaultlessRunsGoForward`
needs that without a fault no job is without its worker, so that none is given
out again, and that a row is where its only worker has brought it (`Steady`).

**`CanvasStoreProofs`** (`StoreIsTyped`, `AcknowledgedStays`, `EditsAreNotLost`,
`VersionsAreFresh`), for any setups, the shared file included. `IInv` has three
parts. `Typed`. `Damage`: only a file is ever harmed, and when a crash alone has
cut it off no operation is under way on it. And `Intact => Good`: while
the store is not harmed, an operation on the file is the only one (`Alone`);
what callers know is what is stored (`Agreed`); a client that has the current
version has the current graph (`Current`); an operation under way builds on a copy
that is not out of date in the part it will write (`UnderWay`).

**`CanvasEditorProofs`** (`EditorIsTyped`, `EdgesAlwaysConnect`,
`SuccessAlwaysReal`, `PresentAlwaysShown`), for any users, any number of runs and
any length of the history. Every canvas the state holds, shown, captured or in the
history, is in one set (`Sound`): its nodes are well formed, the runs they show
were started, those shown as succeeded have succeeded, its edges connect nodes of
its own. Each gesture and answer is shown once to stay in it (`Held`). An event
is shown by one node, the one whose run it is about, because React Flow keeps a single
node of each id (`ByIdUnique`); and a success stays one, so that snapshots taken before do
not become wrong (`Onward`). A history is a tape with a cursor, and a jump
moves the cursor: it brings no new canvas in and keeps the length. That the
history does not outgrow its bound rests on a count of the snapshots still to be
taken, which grows with the clock only (`Load`). `PresentAlwaysShown` rests on
`Calm`: nothing is recorded before the first node is shown, and until the
snapshot of the first nodes is taken a patient user finds the canvas that was
captured.

Every invariant and every action property of the passing runs has a theorem.
Only model-checked: all liveness (`EventuallyConcludes`, `EditsAreSaved`,
`EditorOpens`, `JobsSettle`, `RunsSucceed`: properties under fairness
are out of the prover's reach).

## 6. Not modelled, and what does not hold

### What the properties leave out, because it does not hold

- *Engine.* After a fatal failure, successes that wait in the event queue are
  drained through the ordinary handlers and launch their successors, which
  workers take. A node without incoming edges that is no root stays unknown, and
  what waits for it is never run.
- *Answers.* A source that fails half-way leaves its session, and all behind it,
  waiting. Two segments that name one stream share its position: the second
  finds it read. An assigner on a way parallel to the one an answer
  begins on does not hold it back.
- *Draft.* The hash an answer brings may be set beside a graph loaded since
  (`crossed`), and edits are then overwritten. It takes a tab that is hidden and
  shown while a sync is under way, or two refusals of one stale hash, where the
  second refresh crosses a sync of the copy that the first has loaded. With two
  tabs a secret is removed by the one that has not loaded it, and after a lost
  answer even by the only one. A lost request leaves the placeholder of a
  secret in its place, and the next sync stores that; a refresh after it may take
  edits away. Properties about one tab are therefore stated for one that is left
  alone (`Calm`).
- *Store.* Two processes on one JSON file overwrite each other: what was acknowledged
  to one is lost in the rewrite of the other. A process that dies in a rewrite, even
  the only one, loses everything the file held, and leaves a file nobody can read.
- *Editor.* A task node may show queued or running for ever: nobody is told of a failure,
  and the stream may skip the success. Undo may bring back a status older than
  the one shown before, for as long as no event arrives. To a hasty user the canvas and the
  present snapshot come apart, the first snapshot most of all. A task node is put on the canvas
  without a snapshot, and one undo takes it away with the gesture after it. Nodes made in one
  millisecond (images pasted, runs answered) share an id, and React Flow keeps one.

Nothing in the repository says that these hold, so they are hazards
(`PROJECT.json`) and not findings.

### What is not modelled

- *Pause and resume, snapshots.* The resumed run depends on a JSON text that holds neither
  node nor edge states, and on which process loads it; no text of the
  repository says what it must restore.
- *Scaling of the worker pool, rate limiting.* They go by seconds; an untimed
  model could only leave every choice free.
- *The Redis command channel.* It has the interface of the channel in memory,
  which is modelled; its hazard is a delay.
- *Iteration and loop nodes.* To the engine they are executable nodes; each round
  inside is an engine of its own on a sub-graph.
- *Variable pool, node types, providers, model runtime, RAG, datasets, plugins,
  tools.* Data, or I/O with other services.
- *App queue and task pipeline.* A queue between a run and its response, with a
  stop flag that is polled with a time limit.
- *Controllers, services, database models, the rest of the web frontend, SDKs.*
  CRUD and user interface.

What is left out of the parts that are modelled is said with each module above
and in the notes of `PROJECT.json`.

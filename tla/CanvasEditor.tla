---------------------------- MODULE CanvasEditor ----------------------------
(***************************************************************************)
(* The canvas of canvas-studio in the browser: the graph shown, the        *)
(* separate history of snapshots behind undo, redo and the history panel,  *)
(* and what arrives from elsewhere between two gestures: timers, answers   *)
(* of the API and the events of runs.                                      *)
(*                                                                         *)
(* A snapshot is taken by a timer after the gesture, not by the gesture,   *)
(* and not every change is followed by one.  Ids of nodes are read from    *)
(* the clock, so two nodes made in one millisecond share theirs.  Of a     *)
(* node the graph keeps its id, its look (place and parameters, two of     *)
(* each node), the run it shows and the status it shows for it.            *)
(***************************************************************************)
EXTENDS Integers, Sequences, FiniteSets, SequencesExt

CONSTANTS Users,     \* records: patient, TRUE for one who makes no gesture before
                     \* the canvas is created and while a snapshot is still to be
                     \* taken, and time, a bound: the milliseconds in which
                     \* something is created or done
          Runs,      \* bound: runs that can be started, 1..n
          Limit      \* snapshots the history keeps

ASSUME EditorAssumption == /\ Users \subseteq [patient : BOOLEAN, time : Nat]
                           /\ Limit \in Nat \ {0}
                           /\ IsFiniteSet(Runs) /\ Runs = 1 .. Cardinality(Runs)

VARIABLES user,     \* who works on the canvas
          graph,    \* useWorkflowStore: nodes and edges shown
          history,  \* useHistoryStore and its temporal store
          first,    \* the snapshot of the first nodes: captured, not yet saved
          saves,    \* pending timers that will take a snapshot
          opening,  \* the creation of the canvas is not yet answered
          asked,    \* starts of runs not yet answered
          runs,     \* the status of each run at the server
          now,      \* the clock
          drifted   \* (history variable) changed since, without a snapshot

others == <<user, opening, asked, runs>>
vars == <<user, graph, history, first, saves, opening, asked, runs, now, drifted>>

MaxTime == user.time
Patient == user.patient
None == 0
Node(id, run, look) ==
    [id |-> id, look |-> look, run |-> run, shows |-> IF run = None THEN "idle" ELSE "queued"]
Blank == [nodes |-> <<>>, edges |-> {}]
Ids(g) == {n.id : n \in ToSet(g.nodes)}
Final == {"succeeded", "failed", "canceled"}

(* zundo: the snapshots before and after the present one; the last of each *)
(* is the nearest.  A snapshot equal to the present one is not kept.       *)
SaveSnapshot(h, g) ==
    IF g = h.present THEN h
    ELSE LET p == Append(h.past, h.present)
         IN [present |-> g, future |-> <<>>,
             past |-> IF Len(p) > Limit THEN Tail(p) ELSE p]
UndoSteps(h, k) ==
    LET n == Len(h.past)
    IN [past |-> SubSeq(h.past, 1, n - k), present |-> h.past[n - k + 1],
        future |-> Append(h.future, h.present) \o Reverse(SubSeq(h.past, n - k + 2, n))]
RedoSteps(h, k) ==
    LET n == Len(h.future)
    IN [future |-> SubSeq(h.future, 1, n - k), present |-> h.future[n - k + 1],
        past |-> Append(h.past, h.present) \o Reverse(SubSeq(h.future, n - k + 2, n))]

Init == /\ user \in Users
        /\ graph = Blank
        /\ history = [past |-> <<>>, present |-> Blank, future |-> <<>>]
        /\ first = [timer |-> "unset", graph |-> Blank] /\ saves = 0
        /\ opening = TRUE
        /\ asked = {} /\ runs = [r \in Runs |-> "none"]
        /\ now = 0 /\ drifted = FALSE

Quiet == saves = 0 /\ first.timer # "set"
(* A gesture of the user happens in a millisecond of its own.              *)
Gesture(time) == /\ Patient => Quiet /\ ~opening
                 /\ now + time <= MaxTime /\ now' = now + time

(* The effect that runs when nodes are first shown captures them for a     *)
(* snapshot 100 ms later.                                                  *)
Shows(g) == /\ graph' = g
            /\ first' = IF first.timer = "unset" /\ g.nodes # <<>>
                        THEN [timer |-> "set", graph |-> g] ELSE first
Later == saves' = saves + 1 /\ UNCHANGED <<user, history, opening, asked, runs, drifted>>
Unrecorded == drifted' = TRUE /\ UNCHANGED <<history, saves>>
Changed(g, id, new) ==
    [g EXCEPT !.nodes = [i \in DOMAIN @ |-> IF @[i].id = id THEN new[@[i]] ELSE @[i]]]
\* What is left of list s when only the places in I are kept.
Kept(s, I) == LET Place(i) == Cardinality({j \in I : j <= i})
              IN IF I = DOMAIN s THEN s
                 ELSE [k \in 1 .. Cardinality(I) |-> s[CHOOSE i \in I : Place(i) = k]]
(* React Flow keeps its nodes by id, the last of several; what it sets is  *)
(* computed from those.                                                    *)
Newest(s) == {i \in DOMAIN s : \A j \in DOMAIN s : j > i => s[j].id # s[i].id}
ById(g) == [g EXCEPT !.nodes = Kept(@, Newest(@))]
Turned(g) == [n \in ToSet(g.nodes) |-> [n EXCEPT !.look = 1 - @]]

(* A node dropped on the canvas or chosen in the toolbar.                  *)
Add == /\ Gesture(1)
       /\ Shows([graph EXCEPT !.nodes = Append(@, Node(<<"node", now'>>, None, 0))])
       /\ Later

(* Two images pasted at once: one node each, created in one loop.          *)
Paste(time) ==
    /\ Gesture(time)
    /\ Shows([graph EXCEPT !.nodes = @ \o <<Node(<<"node", now + 1>>, None, 0),
                                           Node(<<"node", now'>>, None, 1)>>])
    /\ Later

\* React Flow lets a node be joined to itself.
Connect(a, b) ==
    /\ Gesture(1)
    /\ <<a, b>> \notin graph.edges
    /\ Shows([graph EXCEPT !.edges = @ \cup {<<a, b>>}])
    /\ Later

OrganizeLayout ==
    /\ Gesture(1) /\ graph.nodes # <<>>
    /\ Shows([graph EXCEPT !.nodes = [i \in DOMAIN @ |-> [@[i] EXCEPT !.look = 0]]])
    /\ Later

(* The end of a drag takes its snapshot at once.                           *)
Drag(id) ==
    /\ Gesture(1)
    /\ Shows(Changed(graph, id, Turned(graph)))
    /\ history' = SaveSnapshot(history, graph') /\ drifted' = FALSE
    /\ UNCHANGED <<user, saves, opening, asked, runs>>

(* The parameters of a node are saved: by its panel, or an image is put    *)
(* into it.  No snapshot is taken.                                         *)
Configure(id) ==
    /\ Gesture(1)
    /\ \E g \in {graph, ById(graph)} : Shows(Changed(g, id, Turned(g)))
    /\ Unrecorded /\ UNCHANGED others

(* The delete key removes a node with its edges, and takes no snapshot.    *)
Others(s, id) == {i \in DOMAIN s : s[i].id # id}
Without(g, id) == [nodes |-> Kept(g.nodes, Others(g.nodes, id)),
                   edges |-> {e \in g.edges : id \notin {e[1], e[2]}}]
Delete(id) == /\ Gesture(1)
              /\ Shows(Without(graph, id))
              /\ Unrecorded /\ UNCHANGED others

(* So it does an edge that is selected.                                    *)
DeleteEdge(e) == /\ Gesture(1)
                 /\ Shows([graph EXCEPT !.edges = @ \ {e}])
                 /\ Unrecorded /\ UNCHANGED others

(* Undo, redo and a jump in the history panel: the snapshot reached is     *)
(* copied to the canvas.                                                   *)
\* Mutant: only the nodes are copied.
ShownNodes(h) == [nodes |-> h.present.nodes, edges |-> graph.edges]
Shown(h) == h.present
Restore(h) == /\ Gesture(1)
              /\ history' = h /\ Shows(Shown(h)) /\ drifted' = FALSE
              /\ UNCHANGED <<user, saves, opening, asked, runs>>
Undo(k) == Restore(UndoSteps(history, k))
Redo(k) == Restore(RedoSteps(history, k))
Clear == /\ Gesture(1)
         /\ history' = [history EXCEPT !.past = <<>>, !.future = <<>>]
         /\ UNCHANGED <<user, graph, first, saves, opening, asked, runs, drifted>>

(* A generation node starts a run.  Its button is off until the answer, if *)
(* the node is neither deleted nor brought back in between: a state of its *)
(* component the canvas does not keep, so that it may start another.       *)
Execute(id, r) ==
    /\ Gesture(1)
    /\ runs[r] = "none" /\ (r - 1 \in Runs => runs[r - 1] # "none")
    /\ \E n \in ToSet(graph.nodes) : n.id = id /\ n.run = None
    /\ runs' = [runs EXCEPT ![r] = "queued"]
    /\ asked' = asked \cup {[run |-> r, from |-> id]}
    /\ UNCHANGED <<user, graph, history, first, saves, opening, drifted>>

(* The answer adds a task node beside the node that asked, if that is      *)
(* still on the canvas.  No snapshot is taken.                             *)
\* Mutant: the node that asked is not looked up again after the answer.
AlwaysPlaces(id) == TRUE
CanPlace(id) == id \in Ids(graph)
TaskId == <<"task", now'>>
\* Mutant: the task node is created as a node that has no run.
AnswersPlain(a, time) ==
    /\ now + time <= MaxTime /\ now' = now + time
    /\ asked' = asked \ {a}
    /\ Shows([graph EXCEPT !.nodes = Append(@, Node(TaskId, None, 0))])
    /\ Unrecorded /\ UNCHANGED <<user, opening, runs>>
Answer(a, time) ==
    /\ now + time <= MaxTime /\ now' = now + time
    /\ asked' = asked \ {a}
    /\ IF CanPlace(a.from)
       THEN /\ Shows([nodes |-> <<Node(TaskId, a.run, 0)>> \o graph.nodes,
                      edges |-> graph.edges \cup {<<a.from, TaskId>>}])
            /\ Unrecorded
       ELSE UNCHANGED <<graph, first, history, saves, drifted>>
    /\ UNCHANGED <<user, opening, runs>>
Refused(a) == /\ asked' = asked \ {a}
              /\ UNCHANGED <<user, graph, history, first, saves, opening, runs, now, drifted>>

(* A run succeeds at the worker.  One that fails tells nobody, and stays   *)
(* as it is.                                                               *)
Finish(r) == /\ runs[r] = "queued" /\ runs' = [runs EXCEPT ![r] = "succeeded"]
             /\ UNCHANGED <<user, graph, history, first, saves, opening, asked, now, drifted>>

(* A task node that shows no final status listens: each connection is sent *)
(* the events of its run from the first on, its progress and its success   *)
(* (which the stream may skip).  No event tells of a failure.              *)
Listens(n) == n.run # None /\ n.shows \notin Final
Events(r) == {"running"} \cup ({runs[r]} \cap {"succeeded"})
\* Mutant: the task node is updated as the panels update a node, in the store
\* of the canvas and not through React Flow: all nodes of its id are.
DeliverToStore(n) ==
    /\ Listens(n)
    /\ \E s \in Events(n.run) :
         Shows(Changed(graph, n.id, [m \in ToSet(graph.nodes) |-> [m EXCEPT !.shows = s]]))
    /\ Unrecorded /\ UNCHANGED <<user, opening, asked, runs, now>>
Deliver(n) ==
    /\ Listens(n)
    /\ \E s \in Events(n.run) :
         LET kept == ById(graph)
         IN Shows(Changed(kept, n.id, [m \in ToSet(kept.nodes) |-> [m EXCEPT !.shows = s]]))
    /\ Unrecorded /\ UNCHANGED <<user, opening, asked, runs, now>>

(* The timers.                                                             *)
Save == /\ saves > 0 /\ saves' = saves - 1
        /\ history' = SaveSnapshot(history, graph) /\ drifted' = FALSE
        /\ UNCHANGED <<user, graph, first, opening, asked, runs, now>>
SaveFirst == /\ first.timer = "set"
             /\ history' = SaveSnapshot(history, first.graph)
             /\ first' = [timer |-> "fired", graph |-> Blank]
             /\ UNCHANGED <<user, graph, saves, opening, asked, runs, now, drifted>>

(* The canvas has been created: the graph is emptied.                      *)
Opened == /\ opening /\ opening' = FALSE
          /\ Shows(Blank) /\ Unrecorded
          /\ UNCHANGED <<user, asked, runs, now>>

User == \/ Add \/ OrganizeLayout \/ Clear
        \/ \E time \in 1 .. 2 : Paste(time)
        \/ \E a, b \in Ids(graph) : Connect(a, b)
        \/ \E e \in graph.edges : DeleteEdge(e)
        \/ \E id \in Ids(graph) : Drag(id) \/ Configure(id) \/ Delete(id) \/ \E r \in Runs : Execute(id, r)
        \/ \E k \in 1 .. Len(history.past) : Undo(k)
        \/ \E k \in 1 .. Len(history.future) : Redo(k)
Next == \/ User \/ Save \/ SaveFirst \/ Opened
        \/ \E a \in asked : Refused(a) \/ \E time \in 0 .. 1 : Answer(a, time)
        \/ \E r \in Runs : Finish(r)
        \/ \E n \in ToSet(ById(graph).nodes) : Deliver(n)

Spec == Init /\ [][Next]_vars
-----------------------------------------------------------------------------
Snapshots == ToSet(history.past) \cup ToSet(history.future) \cup {history.present}

TypeOK ==
    /\ \A g \in Snapshots \cup {graph} :
         \A n \in ToSet(g.nodes) :
            /\ n.id \in {"node", "task"} \X (1 .. MaxTime) /\ n.look \in 0 .. 1
            /\ n.run \in Runs \cup {None}
            /\ n.shows \in {"idle", "queued", "running"} \cup Final
            /\ (n.run = None) = (n.id[1] = "node")
    /\ Len(history.past) <= MaxTime + 1 /\ saves \in 0 .. MaxTime
    /\ asked \subseteq [run : Runs, from : {"node"} \X (1 .. MaxTime)]

(* An edge never hangs in the air, neither on the canvas nor in any        *)
(* snapshot that undo, redo or the panel can bring back.                   *)
EdgesConnect == \A g \in Snapshots \cup {graph} :
                   \A e \in g.edges : {e[1], e[2]} \subseteq Ids(g)

(* Success is only shown for a run that has succeeded, on the canvas and   *)
(* in all snapshots: no event of one run ever reaches the node of another, *)
(* though events come late, to nodes undone and redone in between, and     *)
(* task nodes made in one millisecond share their id.                      *)
SuccessIsReal == \A g \in Snapshots \cup {graph} :
    \A n \in ToSet(g.nodes) : n.shows = "succeeded" => n.run # None /\ runs[n.run] = "succeeded"

(* To a user who waits for the snapshots what is shown is the present one, *)
(* unless an operation without a snapshot came since.                      *)
PresentIsShown == Patient /\ Quiet /\ ~drifted => graph = history.present

=============================================================================

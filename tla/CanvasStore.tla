------------------------------ MODULE CanvasStore ------------------------------
(****************************************************************************)
(* The store that the API process and the worker process of canvas-studio   *)
(* share. openStore picks SQLite, whose statements touch one row, or, when  *)
(* that is not to be had, one JSON file that every operation reads whole,   *)
(* changes and rewrites whole. An operation runs to its end within its      *)
(* process (the calls are synchronous) but not within the other one.        *)
(* One canvas and one run stand for all; the assets and events that are     *)
(* inserted once and never changed are items. Clients edit the canvas under *)
(* an optimistic version.                                                   *)
(****************************************************************************)
EXTENDS Integers, FiniteSets

CONSTANTS
  Setups,     \* records: wholeFile, TRUE for the JSON file and FALSE for SQLite,
              \* and processes, those of "api" and "worker" that run
  Clients,    \* the clients that edit the canvas
  Edits,      \* what they add to it
  Items,      \* assets and events
  MaxCrashes  \* process deaths (a bound)

ASSUME SetupsAreKnown    == Setups \subseteq [wholeFile : BOOLEAN, processes : SUBSET {"api", "worker"}]
ASSUME CrashesAreBounded == MaxCrashes \in Nat

VARIABLES
  setup,    \* what openStore has found, and who has called it
  db,       \* what is stored
  broken,   \* the JSON file cannot be parsed: nothing is left of what it held
  proc,     \* the operation each process is in
  client,   \* the copy of the canvas each client works on
  acked,      \* what the callers of the store have been told (history)
  overlapped, \* two operations have been under way on the JSON file (history)
  crashes

vars == <<setup, db, broken, proc, client, acked, overlapped, crashes>>

NoCanvas == [version |-> 0, graph |-> {}]
Empty    == [canvas |-> NoCanvas, run |-> "absent", items |-> {}]
None     == [kind |-> "none"]
Waiting  == [at |-> "idle", op |-> None, copy |-> Empty]

WholeFile == setup.wholeFile
Processes == setup.processes

Init ==
  /\ setup \in Setups
  /\ db = Empty
  /\ broken = FALSE
  /\ proc = [p \in Processes |-> Waiting]
  /\ client = [c \in Clients |-> NoCanvas]
  /\ acked = Empty
  /\ overlapped = FALSE
  /\ crashes = 0

----------------------------------------------------------------------------
(* The operations of the store, by the process that calls them. *)

Creates == {[kind |-> "createCanvas"]}
Updates == {[kind |-> "updateCanvas", by |-> c, version |-> client[c].version,
             graph |-> client[c].graph \cup {e}] : c \in Clients, e \in Edits \ UNION {client[d].graph : d \in Clients}}
Runs    == {[kind |-> "insertRun"]}
Marks   == {[kind |-> "updateRun", status |-> s] : s \in {"running", "succeeded"}}
Inserts == {[kind |-> "insertItem", item |-> i] : i \in Items \ acked.items}

\* The API creates canvas and run once, under an id of their own (a second
\* attempt would be another canvas); the worker has the run's job only then.
Calls(p) ==
  CASE p = "api" ->
         {c \in Creates : acked.canvas.version = 0 /\ db.canvas.version = 0}
           \cup {u \in Updates : u.version > 0}
           \cup {r \in Runs : acked.run = "absent" /\ db.run = "absent"} \cup Inserts
    [] p = "worker" -> IF acked.run = "absent" THEN {} ELSE Marks \cup Inserts

\* The part of the store an operation is about.
Part(op) ==
  CASE op.kind \in {"createCanvas", "updateCanvas"} -> "canvas"
    [] op.kind \in {"insertRun", "updateRun"} -> "run"
    [] op.kind = "insertItem" -> "items"

\* Mutant: the version a client sends is not looked at.
AcceptsAny(op, copy) ==
  CASE op.kind = "updateCanvas" -> copy.canvas.version > 0
    [] op.kind = "updateRun" -> copy.run # "absent"
    [] OTHER -> TRUE

\* An update needs its row, and a canvas in the version the client has seen.
Accepts(op, copy) ==
  CASE op.kind = "updateCanvas" -> copy.canvas.version > 0 /\ copy.canvas.version = op.version
    [] op.kind = "updateRun" -> copy.run # "absent"
    [] OTHER -> TRUE

\* Mutant: a new run gets the name of its first event for a status.
StatusOfEvent(op, part) ==
  CASE op.kind = "createCanvas" -> [version |-> 1, graph |-> {}]
    [] op.kind = "updateCanvas" -> [version |-> part.version + 1, graph |-> op.graph]
    [] op.kind = "insertRun" -> "created"
    [] op.kind = "updateRun" -> op.status
    [] op.kind = "insertItem" -> part \cup {op.item}

Changed(op, part) ==
  CASE op.kind = "createCanvas" -> [version |-> 1, graph |-> {}]
    [] op.kind = "updateCanvas" -> [version |-> part.version + 1, graph |-> op.graph]
    [] op.kind = "insertRun" -> "queued"
    [] op.kind = "updateRun" -> op.status
    [] op.kind = "insertItem" -> part \cup {op.item}

\* What the callers know after it, new being what was written: an edit that
\* was accepted stays one.
Told(op, part, new) ==
  IF op.kind = "updateCanvas"
  THEN [version |-> new.canvas.version, graph |-> part.graph \cup op.graph]
  ELSE Changed(op, part)

\* Mutant: statements, too, write back everything that was read.
WritesBackAll(op, copy) == [copy EXCEPT ![Part(op)] = Changed(op, @)]

\* The file is rewritten from the copy; a statement writes one row, and an
\* inserted row stands beside whatever else has come in.
Written(op, copy) ==
  IF WholeFile
  THEN [copy EXCEPT ![Part(op)] = Changed(op, @)]
  ELSE [db EXCEPT ![Part(op)] = Changed(op, IF op.kind = "insertItem" THEN @ ELSE copy[Part(op)])]

----------------------------------------------------------------------------
(* One operation of one process *)

Writers == {p \in Processes : proc[p].at = "writing"}

\* A file that is being rewritten, or was left half written, does not parse:
\* then load throws, the caller gets an error and nothing happens.
Readable == ~WholeFile \/ (~broken /\ Writers = {})

Load(p, op) ==
  /\ proc[p].at = "idle"
  /\ Readable
  /\ proc' = [proc EXCEPT ![p] = [at |-> "loaded", op |-> op, copy |-> db]]
  /\ overlapped' = (overlapped \/ (WholeFile /\ \E q \in Processes : proc[q].at # "idle"))
  /\ UNCHANGED <<setup, db, broken, client, acked, crashes>>

\* "not_found", "conflict", or a run that does not exist: nothing is written.
Refuse(p) ==
  /\ proc[p].at = "loaded"
  /\ ~Accepts(proc[p].op, proc[p].copy)
  /\ proc' = [proc EXCEPT ![p] = Waiting]
  /\ UNCHANGED <<setup, db, broken, client, acked, overlapped, crashes>>

\* writeFileSync truncates the file; for SQLite nothing is to be seen of it.
Write(p) ==
  /\ proc[p].at = "loaded"
  /\ Accepts(proc[p].op, proc[p].copy)
  /\ proc' = [proc EXCEPT ![p].at = "writing"]
  /\ UNCHANGED <<setup, db, broken, client, acked, overlapped, crashes>>

\* The caller goes on; a client whose update was accepted has its new version,
\* unless the answer is lost. Of operations that have overlapped on the file
\* either text may remain, or a mixture that cannot be parsed.
Return(p) ==
  LET op  == proc[p].op
      new == Written(op, proc[p].copy)
  IN  /\ proc[p].at = "writing"
      /\ proc' = [proc EXCEPT ![p] = Waiting]
      /\ broken' \in {FALSE, WholeFile /\ overlapped}
      /\ db' = IF broken' THEN Empty ELSE new
      /\ client' \in {client} \cup
           (IF op.kind = "updateCanvas" THEN {[client EXCEPT ![op.by] = new.canvas]} ELSE {})
      /\ acked' = [acked EXCEPT ![Part(op)] = Told(op, @, new)]
      /\ UNCHANGED <<setup, overlapped, crashes>>

\* A process dies and is started again. Before the write nothing has happened.
Unwritten(p) ==
  /\ (proc[p].at = "loaded" \/ ~WholeFile)
  /\ UNCHANGED <<db, broken, acked>>

\* The write was complete, but the caller is not told. A status that is written
\* so takes the place of the one told before.
Untold(p) ==
  LET op == proc[p].op
  IN  /\ proc[p].at = "writing"
      /\ db' = Written(op, proc[p].copy) /\ broken' = FALSE
      /\ acked' = IF op.kind = "updateRun" THEN [acked EXCEPT !.run = op.status] ELSE acked

\* The file, truncated before it is written, is the only copy: whatever it
\* held is gone, and a part of its text does not parse.
CutOff(p) ==
  /\ proc[p].at = "writing" /\ WholeFile
  /\ db' = Empty /\ broken' = TRUE
  /\ UNCHANGED acked

Crash(p) ==
  /\ crashes < MaxCrashes
  /\ proc[p].at # "idle"
  /\ (Unwritten(p) \/ Untold(p) \/ CutOff(p))
  /\ crashes' = crashes + 1
  /\ proc' = [proc EXCEPT ![p] = Waiting]
  /\ UNCHANGED <<setup, client, overlapped>>

\* GET /api/canvases/:id, before the first edit and after a conflict.
Refresh(c) ==
  /\ Readable
  /\ acked.canvas.version > 0 /\ db.canvas.version > 0 /\ client[c] # db.canvas
  /\ \A p \in Processes : proc[p].op.kind = "updateCanvas" => proc[p].op.by # c
  /\ client' = [client EXCEPT ![c] = db.canvas]
  /\ UNCHANGED <<setup, db, broken, proc, acked, overlapped, crashes>>

Next ==
  \/ \E p \in Processes : \E op \in Calls(p) : Load(p, op)
  \/ \E p \in Processes : Refuse(p) \/ Write(p) \/ Return(p) \/ Crash(p)
  \/ \E c \in Clients : Refresh(c)

Spec == Init /\ [][Next]_vars

----------------------------------------------------------------------------
(* Properties *)

\* The types of the state.
TypeOK ==
  /\ db.run \in {"absent", "queued", "running", "succeeded"}
  /\ db.canvas.version \in Nat /\ db.canvas.graph \subseteq Edits
  /\ db.items \subseteq Items
  /\ broken \in BOOLEAN
  /\ \A p \in Processes : proc[p].at \in {"idle", "loaded", "writing"}
  /\ \A c \in Clients : client[c].graph \subseteq Edits

\* The two ways in which the JSON file loses what it held: operations of both
\* processes overlapped on it, or a crash has cut off a write.
Harmed == WholeFile /\ (overlapped \/ (broken /\ crashes > 0))

\* Only so is anything lost. With SQLite, and with a file that has not been
\* harmed, what a process was told is stored stays stored, whatever the other
\* one has read before and writes after, and whichever of them dies: rows,
\* items and the status of the run.
AcknowledgedIsKept ==
  ~Harmed => /\ ~broken
             /\ acked.items \subseteq db.items
             /\ acked.run # "absent" => acked.run = db.run
             /\ acked.canvas.version <= db.canvas.version

\* The version a client sends protects the edits it has not seen: an edit that
\* was accepted remains in the canvas, whoever saves next, and a version stands
\* for one graph. A harmed file aside.
AcceptedEditsAreKept ==
  ~Harmed =>
    /\ acked.canvas.graph \subseteq db.canvas.graph
    /\ \A c \in Clients : client[c].version = db.canvas.version => client[c] = db.canvas

\* Until the file is harmed the canvas keeps its version or gets the next one:
\* versions are never used again for another graph.
VersionsOnlyGrow ==
  [][Harmed' \/ db'.canvas = db.canvas \/ db'.canvas.version = db.canvas.version + 1]_vars

=============================================================================

--------------------------- MODULE CanvasStoreProofs ---------------------------
(****************************************************************************)
(* What the store keeps of what it acknowledged, for any clients, edits,    *)
(* items and crashes, and for SQLite, the JSON file of one process and the  *)
(* JSON file of both. As long as no operations have overlapped on the file  *)
(* and no write to it was cut off, the store is Good: an operation under    *)
(* way relies on only the API touching the canvas, so that the canvas it    *)
(* has read is the one it writes over, on having the whole file to itself,  *)
(* and on a client whose version is current having seen all that is there.  *)
(* Of a harmed file only the types are left.                                *)
(****************************************************************************)
EXTENDS CanvasStore, TLAPS

Canvases == [version : Nat, graph : SUBSET Edits]
Statuses == {"absent", "queued", "running", "succeeded"}
Copies   == [canvas : Canvases, run : Statuses, items : SUBSET Items]
Ops      == [kind : {"none", "createCanvas", "insertRun"}]
              \union [kind : {"updateCanvas"}, by : Clients, version : Nat, graph : SUBSET Edits]
              \union [kind : {"updateRun"}, status : {"running", "succeeded"}]
              \union [kind : {"insertItem"}, item : Items]
Places   == [at : {"idle", "loaded", "writing"}, op : Ops, copy : Copies]

Typed ==
  /\ setup \in Setups
  /\ db \in Copies /\ acked \in Copies
  /\ broken \in BOOLEAN /\ overlapped \in BOOLEAN /\ crashes \in Nat
  /\ client \in [Clients -> Canvases]
  /\ proc \in [Processes -> Places]
  /\ \A p \in Processes : proc[p].at # "idle" => proc[p].op.kind # "none"

Intact == ~overlapped /\ ~broken

\* One operation at a time has the whole file.
Alone ==
  WholeFile => \A p, q \in Processes : proc[p].at # "idle" /\ proc[q].at # "idle" => p = q

\* What callers know is what is stored, edits that were undone and answers
\* that did not come aside.
Agreed ==
  /\ acked.items \subseteq db.items
  /\ acked.run # "absent" => acked.run = db.run
  /\ acked.canvas.version <= db.canvas.version
  /\ acked.canvas.graph \subseteq db.canvas.graph
  /\ acked.canvas.version = 0 => acked.canvas.graph = {}

\* A client with the current version has the current graph.
Current ==
  \A c \in Clients : /\ client[c].version <= db.canvas.version
                     /\ client[c].version = db.canvas.version => client[c] = db.canvas

\* The API alone changes the canvas and inserts the run, and builds on what it
\* has read.
UnderWay ==
  \A p \in Processes : proc[p].at # "idle" =>
    LET op == proc[p].op
    IN  /\ p # "api" => op.kind \in {"updateRun", "insertItem"}
        /\ p = "api" => proc[p].copy.canvas = db.canvas
        /\ WholeFile => proc[p].copy = db
        /\ op.kind = "createCanvas" => db.canvas.version = 0
        /\ op.kind = "insertRun" => acked.run = "absent"
        /\ op.kind = "updateRun" => acked.run # "absent"
        /\ op.kind = "updateCanvas" =>
             /\ op.version = db.canvas.version => db.canvas.graph \subseteq op.graph
             /\ proc[p].at = "writing" => op.version = db.canvas.version

Good == Intact /\ Alone /\ Agreed /\ Current /\ UnderWay

\* The file alone is ever harmed, and nothing can touch it after a crash.
Damage ==
  /\ overlapped => WholeFile
  /\ broken => /\ WholeFile
               /\ (overlapped \/ (crashes > 0 /\ \A p \in Processes : proc[p].at = "idle"))

IInv == Typed /\ Damage /\ (Intact => Good)

----------------------------------------------------------------------------

LEMMA WaitingTyped ==
  /\ Waiting \in Places /\ Waiting.at = "idle"
  /\ Empty \in Copies /\ NoCanvas \in Canvases
BY DEF Waiting, None, Empty, NoCanvas, Ops, Places, Copies, Canvases, Statuses

LEMMA InitInv == Init => IInv
<1> SUFFICES ASSUME Init PROVE IInv
    OBVIOUS
<1>1. /\ setup \in Setups /\ db = Empty /\ acked = Empty
      /\ ~broken /\ ~overlapped /\ broken \in BOOLEAN /\ overlapped \in BOOLEAN /\ crashes = 0
      /\ client = [c \in Clients |-> NoCanvas] /\ proc = [p \in Processes |-> Waiting]
    BY DEF Init
<1>2. Typed
    BY <1>1, WaitingTyped DEF Typed
<1>3. \A p \in Processes : proc[p].at = "idle"
    BY <1>1, WaitingTyped
<1>4. Agreed /\ Current
    BY <1>1 DEF Agreed, Current, Empty, NoCanvas
<1>5. Alone /\ UnderWay
    BY <1>3 DEF Alone, UnderWay
<1> QED
    BY <1>1, <1>2, <1>4, <1>5 DEF IInv, Good, Intact, Damage

LEMMA ProcessesKnown == ASSUME Typed, NEW p \in Processes PROVE p \in {"api", "worker"}
BY SetupsAreKnown DEF Typed, Processes

\* The calls of a process are operations of its kind.
LEMMA CallsTyped ==
  ASSUME Typed, NEW p \in Processes, NEW op \in Calls(p)
  PROVE  /\ op \in Ops /\ op.kind # "none"
         /\ p # "api" => op.kind \in {"updateRun", "insertItem"}
         /\ op.kind = "createCanvas" => db.canvas.version = 0
         /\ op.kind = "insertRun" => acked.run = "absent"
         /\ op.kind = "updateRun" => acked.run # "absent"
         /\ op.kind = "updateCanvas" =>
              \E c \in Clients, e \in Edits :
                op.version = client[c].version /\ op.graph = client[c].graph \cup {e}
<1>0. p \in {"api", "worker"}
    BY ProcessesKnown
<1>1. /\ \A u \in Creates : u = [kind |-> "createCanvas"]
      /\ \A u \in Runs : u = [kind |-> "insertRun"]
      /\ \A u \in Inserts : u.kind = "insertItem" /\ u \in Ops
      /\ \A u \in Marks : u.kind = "updateRun" /\ u \in Ops
    BY DEF Creates, Runs, Inserts, Marks, Ops
<1>2. \A u \in Updates :
        /\ u \in Ops /\ u.kind = "updateCanvas"
        /\ \E c \in Clients, e \in Edits :
             u.version = client[c].version /\ u.graph = client[c].graph \cup {e}
  <2> TAKE u \in Updates
  <2>1. PICK c \in Clients, e \in Edits :
          u = [kind |-> "updateCanvas", by |-> c, version |-> client[c].version,
               graph |-> client[c].graph \cup {e}]
      BY DEF Updates
  <2>2. client[c] \in Canvases
      BY DEF Typed
  <2> QED
      BY <2>1, <2>2 DEF Ops, Canvases
<1>3. CASE p = "api"
  <2>1. \/ (op \in Creates /\ db.canvas.version = 0)
        \/ op \in Updates
        \/ (op \in Runs /\ acked.run = "absent")
        \/ op \in Inserts
      BY <1>3 DEF Calls
  <2>2. CASE op \in Creates /\ db.canvas.version = 0
      BY <1>1, <1>3, <2>2 DEF Ops
  <2>3. CASE op \in Updates
    <3>1. /\ op \in Ops /\ op.kind = "updateCanvas"
          /\ \E c \in Clients, e \in Edits :
               op.version = client[c].version /\ op.graph = client[c].graph \cup {e}
        BY <1>2, <2>3
    <3> QED
        BY <1>3, <3>1
  <2>4. CASE op \in Runs /\ acked.run = "absent"
      BY <1>1, <1>3, <2>4 DEF Ops
  <2>5. CASE op \in Inserts
      BY <1>1, <1>3, <2>5
  <2> QED
      BY <2>1, <2>2, <2>3, <2>4, <2>5
<1>4. CASE p = "worker"
  <2>1. acked.run # "absent" /\ op \in Marks \cup Inserts
      BY <1>4 DEF Calls
  <2> QED
      BY <1>1, <1>4, <2>1
<1> QED
    BY <1>0, <1>3, <1>4

LEMMA RecordParts ==
  ASSUME NEW d \in Copies, NEW x
  PROVE  /\ [d EXCEPT !["canvas"] = x] = [canvas |-> x, run |-> d.run, items |-> d.items]
         /\ [d EXCEPT !["run"] = x] = [canvas |-> d.canvas, run |-> x, items |-> d.items]
         /\ [d EXCEPT !["items"] = x] = [canvas |-> d.canvas, run |-> d.run, items |-> x]
         /\ d["canvas"] = d.canvas /\ d["run"] = d.run /\ d["items"] = d.items
<1>1. /\ [d EXCEPT !["canvas"] = x] = [d EXCEPT !.canvas = x]
      /\ [d EXCEPT !["run"] = x] = [d EXCEPT !.run = x]
      /\ [d EXCEPT !["items"] = x] = [d EXCEPT !.items = x]
    BY Zenon
<1>2. /\ [d EXCEPT !.canvas = x] = [canvas |-> x, run |-> d.run, items |-> d.items]
      /\ [d EXCEPT !.run = x] = [canvas |-> d.canvas, run |-> x, items |-> d.items]
      /\ [d EXCEPT !.items = x] = [canvas |-> d.canvas, run |-> d.run, items |-> x]
    BY DEF Copies
<1>3. d["canvas"] = d.canvas /\ d["run"] = d.run /\ d["items"] = d.items
    BY Zenon
<1> QED
    BY <1>1, <1>2, <1>3, Zenon

\* What an operation makes of the part it is about has the type of that part.
LEMMA ChangedTyped ==
  ASSUME NEW op \in Ops, op.kind # "none", NEW d \in Copies
  PROVE  /\ op.kind \in {"createCanvas", "updateCanvas"} => Part(op) = "canvas" /\ Changed(op, d.canvas) \in Canvases
         /\ op.kind \in {"insertRun", "updateRun"} => Part(op) = "run" /\ Changed(op, d.run) \in Statuses
         /\ op.kind = "insertItem" => Part(op) = "items" /\ Changed(op, d.items) \in SUBSET Items
<1>1. d.canvas \in Canvases /\ d.items \subseteq Items
    BY DEF Copies
<1>2. CASE op.kind = "createCanvas"
    BY <1>2 DEF Part, Changed, Canvases
<1>3. CASE op.kind = "updateCanvas"
  <2>1. Part(op) = "canvas" /\ Changed(op, d.canvas) = [version |-> d.canvas.version + 1, graph |-> op.graph]
      BY <1>3 DEF Part, Changed
  <2>2. op.graph \subseteq Edits /\ d.canvas.version \in Nat
      BY <1>1, <1>3 DEF Ops, Canvases
  <2> QED
      BY <1>3, <2>1, <2>2 DEF Canvases
<1>4. CASE op.kind = "insertRun"
    BY <1>4 DEF Part, Changed, Statuses
<1>5. CASE op.kind = "updateRun"
  <2>1. Part(op) = "run" /\ Changed(op, d.run) = op.status
      BY <1>5 DEF Part, Changed
  <2>2. op.status \in Statuses
      BY <1>5 DEF Ops, Statuses
  <2> QED
      BY <1>5, <2>1, <2>2
<1>6. CASE op.kind = "insertItem"
  <2>1. Part(op) = "items" /\ Changed(op, d.items) = d.items \cup {op.item}
      BY <1>6 DEF Part, Changed
  <2>2. op.item \in Items
      BY <1>6 DEF Ops
  <2> QED
      BY <1>1, <1>6, <2>1, <2>2
<1> QED
    BY <1>2, <1>3, <1>4, <1>5, <1>6 DEF Ops

\* So has the whole, put together from any two texts of the store.
LEMMA PutTyped ==
  ASSUME NEW op \in Ops, op.kind # "none", NEW d \in Copies, NEW e \in Copies
  PROVE  [d EXCEPT ![Part(op)] = Changed(op, e[Part(op)])] \in Copies
<1>1. /\ e["canvas"] = e.canvas /\ e["run"] = e.run /\ e["items"] = e.items
      /\ d.canvas \in Canvases /\ d.run \in Statuses /\ d.items \in SUBSET Items
    BY RecordParts DEF Copies
<1>2. CASE op.kind \in {"createCanvas", "updateCanvas"}
  <2>1. PICK x \in Canvases : x = Changed(op, e.canvas)
      BY <1>2, ChangedTyped
  <2>2. [d EXCEPT ![Part(op)] = Changed(op, e[Part(op)])] = [d EXCEPT !["canvas"] = x]
      BY <1>1, <1>2, <2>1, ChangedTyped
  <2> QED
      BY <1>1, <2>2, RecordParts DEF Copies
<1>3. CASE op.kind \in {"insertRun", "updateRun"}
  <2>1. PICK x \in Statuses : x = Changed(op, e.run)
      BY <1>3, ChangedTyped
  <2>2. [d EXCEPT ![Part(op)] = Changed(op, e[Part(op)])] = [d EXCEPT !["run"] = x]
      BY <1>1, <1>3, <2>1, ChangedTyped
  <2> QED
      BY <1>1, <2>2, RecordParts DEF Copies
<1>4. CASE op.kind = "insertItem"
  <2>1. PICK x \in SUBSET Items : x = Changed(op, e.items)
      BY <1>4, ChangedTyped
  <2>2. [d EXCEPT ![Part(op)] = Changed(op, e[Part(op)])] = [d EXCEPT !["items"] = x]
      BY <1>1, <1>4, <2>1, ChangedTyped
  <2> QED
      BY <1>1, <2>2, RecordParts DEF Copies
<1> QED
    BY <1>2, <1>3, <1>4 DEF Ops

LEMMA WrittenTyped ==
  ASSUME Typed, NEW p \in Processes, proc[p].at # "idle"
  PROVE  Written(proc[p].op, proc[p].copy) \in Copies
<1> DEFINE op == proc[p].op
           copy == proc[p].copy
<1>1. op \in Ops /\ op.kind # "none" /\ copy \in Copies /\ db \in Copies
    BY DEF Typed, Places
<1> HIDE DEF op, copy
<1>2. CASE WholeFile
  <2>1. Written(op, copy) = [copy EXCEPT ![Part(op)] = Changed(op, copy[Part(op)])]
      BY <1>2 DEF Written
  <2> QED
      BY <1>1, <2>1, PutTyped DEF op, copy
<1>3. CASE ~WholeFile /\ op.kind = "insertItem"
  <2>1. Written(op, copy) = [db EXCEPT ![Part(op)] = Changed(op, db[Part(op)])]
      BY <1>3 DEF Written
  <2> QED
      BY <1>1, <2>1, PutTyped DEF op, copy
<1>4. CASE ~WholeFile /\ op.kind # "insertItem"
  <2>1. Written(op, copy) = [db EXCEPT ![Part(op)] = Changed(op, copy[Part(op)])]
      BY <1>4 DEF Written
  <2> QED
      BY <1>1, <2>1, PutTyped DEF op, copy
<1> QED
    BY <1>2, <1>3, <1>4

LEMMA ToldTyped ==
  ASSUME Typed, NEW p \in Processes, proc[p].at # "idle", NEW new \in Copies
  PROVE  [acked EXCEPT ![Part(proc[p].op)] = Told(proc[p].op, @, new)] \in Copies
<1> DEFINE op == proc[p].op
<1>1. op \in Ops /\ op.kind # "none" /\ acked \in Copies /\ acked.canvas \in Canvases /\ new.canvas \in Canvases
    BY DEF Typed, Places, Copies
<1> HIDE DEF op
<1>2. CASE op.kind = "updateCanvas"
  <2>1. op.graph \subseteq Edits /\ Part(op) = "canvas" /\ acked["canvas"] = acked.canvas
      BY <1>1, <1>2, RecordParts DEF Ops, Part
  <2>2. PICK x : x = [version |-> new.canvas.version, graph |-> acked.canvas.graph \cup op.graph]
      OBVIOUS
  <2>3. x \in Canvases
      BY <1>1, <2>1, <2>2 DEF Canvases
  <2>4. [acked EXCEPT ![Part(op)] = Told(op, @, new)] = [acked EXCEPT !["canvas"] = x]
      BY <1>2, <2>1, <2>2 DEF Told
  <2> QED
      BY <1>1, <2>3, <2>4, RecordParts DEF Copies, op
<1>3. CASE op.kind # "updateCanvas"
  <2>1. [acked EXCEPT ![Part(op)] = Told(op, @, new)] = [acked EXCEPT ![Part(op)] = Changed(op, acked[Part(op)])]
      BY <1>3 DEF Told
  <2> QED
      BY <1>1, <2>1, PutTyped DEF op
<1> QED
    BY <1>2, <1>3

\* Processes that are taken back to rest.
LEMMA RestTyped ==
  ASSUME Typed, NEW p \in Processes, proc' = [proc EXCEPT ![p] = Waiting], UNCHANGED setup
  PROVE  /\ proc' \in [Processes' -> Places]
         /\ \A q \in Processes' : proc'[q].at # "idle" => proc'[q].op.kind # "none"
         /\ \A q \in Processes : proc'[q].at # "idle" => q # p /\ proc'[q] = proc[q]
<1> HIDE DEF Waiting
<1> QED
    BY WaitingTyped DEF Typed, Processes

----------------------------------------------------------------------------
(* The types, which hold of a harmed file, too *)

LEMMA LoadTyped ==
  ASSUME Typed, NEW p \in Processes, NEW op \in Calls(p), Load(p, op)
  PROVE  Typed'
<1>1. PICK r : r = [at |-> "loaded", op |-> op, copy |-> db]
    OBVIOUS
<1>2. /\ proc' = [proc EXCEPT ![p] = r] /\ overlapped' \in BOOLEAN
      /\ UNCHANGED <<setup, db, broken, client, acked, crashes>>
    BY <1>1 DEF Load, Typed
<1>3. op \in Ops /\ op.kind # "none"
    BY CallsTyped
<1>4. r \in Places /\ r.op.kind # "none"
    BY <1>1, <1>3 DEF Typed, Places
<1> QED
    BY <1>2, <1>4 DEF Typed, Processes

LEMMA WriteTyped ==
  ASSUME Typed, NEW p \in Processes, Write(p)
  PROVE  Typed'
<1>1. proc[p] \in Places /\ proc[p].op.kind # "none"
    BY DEF Typed, Write
<1>2. PICK r : r = [proc[p] EXCEPT !.at = "writing"]
    OBVIOUS
<1>3. r \in Places /\ r.op = proc[p].op
    BY <1>1, <1>2 DEF Places
<1>4. proc' = [proc EXCEPT ![p] = r] /\ UNCHANGED <<setup, db, broken, client, acked, overlapped, crashes>>
    BY <1>2 DEF Write
<1> QED
    BY <1>1, <1>3, <1>4 DEF Typed, Processes

LEMMA ReturnTyped ==
  ASSUME Typed, NEW p \in Processes, Return(p)
  PROVE  Typed'
<1> DEFINE op == proc[p].op
           new == Written(op, proc[p].copy)
<1>1. /\ proc' = [proc EXCEPT ![p] = Waiting] /\ proc[p].at # "idle" /\ UNCHANGED <<setup, overlapped, crashes>>
      /\ broken' \in BOOLEAN /\ db' \in {Empty, new}
      /\ client' \in {client} \cup
           (IF op.kind = "updateCanvas" THEN {[client EXCEPT ![op.by] = new.canvas]} ELSE {})
      /\ acked' = [acked EXCEPT ![Part(op)] = Told(op, @, new)]
    BY DEF Return, Typed, WholeFile
<1>2. new \in Copies /\ new.canvas \in Canvases
    BY <1>1, WrittenTyped DEF Copies
<1>3. acked' \in Copies
    BY <1>1, <1>2, ToldTyped
<1> HIDE DEF new
<1>4. client' \in [Clients -> Canvases]
    BY <1>1, <1>2 DEF Typed
<1> QED
    BY <1>1, <1>2, <1>3, <1>4, WaitingTyped, RestTyped DEF Typed

LEMMA CrashTyped ==
  ASSUME Typed, NEW p \in Processes, Crash(p)
  PROVE  Typed'
<1>1. /\ proc' = [proc EXCEPT ![p] = Waiting] /\ proc[p].at # "idle"
      /\ UNCHANGED <<setup, client, overlapped>> /\ crashes' \in Nat
    BY DEF Crash, Typed
<1>2. db' \in Copies /\ broken' \in BOOLEAN
    BY <1>1, WrittenTyped, WaitingTyped DEF Crash, Unwritten, Untold, CutOff, Typed
<1>3. acked' \in Copies
  <2>1. CASE acked' = acked
      BY <2>1 DEF Typed
  <2>2. CASE proc[p].op.kind = "updateRun" /\ acked' = [acked EXCEPT !.run = proc[p].op.status]
    <3>1. proc[p].op \in Ops /\ acked \in Copies
        BY DEF Typed, Places
    <3>2. proc[p].op.status \in Statuses
        BY <2>2, <3>1 DEF Ops, Statuses
    <3> QED
        BY <2>2, <3>1, <3>2 DEF Copies
  <2> QED
      BY <2>1, <2>2 DEF Crash, Unwritten, Untold, CutOff
<1> QED
    BY <1>1, <1>2, <1>3, RestTyped DEF Typed

LEMMA NextTyped == Typed /\ [Next]_vars => Typed'
<1> SUFFICES ASSUME Typed, [Next]_vars PROVE Typed'
    OBVIOUS
<1>1. CASE \E p \in Processes : \E op \in Calls(p) : Load(p, op)
    BY <1>1, LoadTyped
<1>2. CASE \E p \in Processes : Refuse(p)
  <2>1. PICK p \in Processes : Refuse(p)
      BY <1>2
  <2>2. /\ proc' = [proc EXCEPT ![p] = Waiting]
        /\ UNCHANGED <<setup, db, broken, client, acked, overlapped, crashes>>
      BY <2>1 DEF Refuse
  <2> QED
      BY <2>2, RestTyped DEF Typed
<1>3. CASE \E p \in Processes : Write(p)
    BY <1>3, WriteTyped
<1>4. CASE \E p \in Processes : Return(p)
    BY <1>4, ReturnTyped
<1>5. CASE \E p \in Processes : Crash(p)
    BY <1>5, CrashTyped
<1>6. CASE \E c \in Clients : Refresh(c)
  <2>1. PICK c \in Clients : Refresh(c)
      BY <1>6
  <2>2. /\ client' = [client EXCEPT ![c] = db.canvas]
        /\ UNCHANGED <<setup, db, broken, proc, acked, overlapped, crashes>>
      BY <2>1 DEF Refresh
  <2>3. db.canvas \in Canvases
      BY DEF Typed, Copies
  <2> QED
      BY <2>2, <2>3 DEF Typed, Processes
<1>7. CASE UNCHANGED vars
    BY <1>7 DEF vars, Typed, Processes
<1> QED
    BY <1>1, <1>2, <1>3, <1>4, <1>5, <1>6, <1>7 DEF Next

----------------------------------------------------------------------------
(* How far a file can be harmed *)

LEMMA DamageStep == IInv /\ [Next]_vars => Damage'
<1> SUFFICES ASSUME IInv, [Next]_vars PROVE Damage'
    OBVIOUS
<1>1. Damage /\ crashes \in Nat /\ proc \in [Processes -> Places] /\ (Intact => Alone)
    BY DEF IInv, Typed, Good
<1>2. CASE \E p \in Processes : \E op \in Calls(p) : Load(p, op)
  <2>1. PICK p \in Processes : \E op \in Calls(p) : Load(p, op)
      BY <1>2
  <2>2. ~broken
      BY <1>1, <2>1 DEF Load, Readable, Damage
  <2>3. UNCHANGED <<setup, broken>> /\ (overlapped' => overlapped \/ WholeFile)
      BY <2>1 DEF Load
  <2> QED
      BY <1>1, <2>2, <2>3 DEF Damage, WholeFile
<1>3. ASSUME NEW p \in Processes, Refuse(p) \/ Write(p) PROVE Damage'
    BY <1>1, <1>3 DEF Refuse, Write, Damage, WholeFile, Processes
<1>4. ASSUME NEW p \in Processes, Return(p) PROVE Damage'
    BY <1>1, <1>4 DEF Return, Damage, WholeFile, Processes
<1>5. ASSUME NEW p \in Processes, Crash(p) PROVE Damage'
  <2>1. /\ proc' = [proc EXCEPT ![p] = Waiting] /\ proc[p].at # "idle"
        /\ UNCHANGED <<setup, overlapped>> /\ crashes' > 0
      BY <1>1, <1>5 DEF Crash
  <2>2. CASE Unwritten(p)
      BY <1>1, <2>1, <2>2 DEF Unwritten, Damage, WholeFile, Processes
  <2>3. CASE Untold(p)
      BY <1>1, <2>1, <2>3 DEF Untold, Damage, WholeFile, Processes
  <2>4. CASE CutOff(p)
    <3>1. WholeFile /\ broken' = TRUE /\ (overlapped => WholeFile)
        BY <1>1, <2>4 DEF CutOff, Damage
    <3>2. CASE overlapped
        BY <2>1, <3>1, <3>2 DEF Damage, WholeFile
    <3>3. CASE ~overlapped
      <4>1. ~broken
          BY <1>1, <2>1, <3>3 DEF Damage
      <4>2. \A q \in Processes : q # p => proc[q].at = "idle"
          BY <1>1, <2>1, <3>1, <3>3, <4>1 DEF Intact, Alone
      <4>3. \A q \in Processes : proc'[q].at = "idle"
          BY <1>1, <2>1, <4>2, WaitingTyped
      <4> QED
          BY <2>1, <3>1, <4>3 DEF Damage, WholeFile, Processes
    <3> QED
        BY <3>2, <3>3
  <2> QED
      BY <1>5, <2>2, <2>3, <2>4 DEF Crash
<1>6. CASE \E c \in Clients : Refresh(c)
    BY <1>1, <1>6 DEF Refresh, Damage, WholeFile, Processes
<1>7. CASE UNCHANGED vars
    BY <1>1, <1>7 DEF vars, Damage, WholeFile, Processes
<1> QED
    BY <1>2, <1>3, <1>4, <1>5, <1>6, <1>7 DEF Next

\* A file that was cut off, or on which operations have overlapped, never
\* passes for an intact one again.
LEMMA StaysHarmed == IInv /\ [Next]_vars /\ Intact' => Intact
<1> SUFFICES ASSUME IInv, [Next]_vars, Intact' PROVE Intact
    OBVIOUS
<1>1. ~overlapped /\ ~overlapped' /\ ~broken'
  <2>1. overlapped => overlapped'
    <3>1. ASSUME NEW p \in Processes, NEW op \in Calls(p), Load(p, op) PROVE overlapped => overlapped'
        BY <3>1 DEF Load
    <3>2. ASSUME NEW p \in Processes, Refuse(p) \/ Write(p) \/ Return(p) \/ Crash(p) PROVE overlapped => overlapped'
        BY <3>2 DEF Refuse, Write, Return, Crash
    <3>3. ASSUME NEW c \in Clients, Refresh(c) PROVE overlapped => overlapped'
        BY <3>3 DEF Refresh
    <3> QED
        BY <3>1, <3>2, <3>3 DEF Next, vars
  <2> QED
      BY <2>1 DEF Intact
<1>2. SUFFICES ASSUME broken PROVE FALSE
    BY <1>1 DEF Intact
<1>3. WholeFile /\ \A p \in Processes : proc[p].at = "idle"
    BY <1>1, <1>2 DEF IInv, Damage
<1>4. broken' = broken
    BY <1>2, <1>3 DEF Next, vars, Load, Refuse, Write, Return, Crash, Refresh
<1> QED
    BY <1>1, <1>2, <1>4

----------------------------------------------------------------------------
(* What an intact store keeps *)

LEMMA LoadGood ==
  ASSUME Typed, Good, NEW p \in Processes, NEW op \in Calls(p), Load(p, op), Intact'
  PROVE  Good'
<1>1. PICK r : r = [at |-> "loaded", op |-> op, copy |-> db]
    OBVIOUS
<1>2. /\ r.at = "loaded" /\ r.op = op /\ r.copy = db
      /\ proc' = [proc EXCEPT ![p] = r] /\ proc \in [Processes -> Places]
      /\ UNCHANGED <<setup, db, broken, client, acked>>
    BY <1>1 DEF Load, Typed
<1>3. WholeFile => \A q \in Processes : proc[q].at = "idle"
    BY DEF Load, Intact
<1>4. Alone'
    BY <1>2, <1>3 DEF Alone, WholeFile, Processes
<1>5. Agreed' /\ Current'
    BY <1>2 DEF Good, Agreed, Current
<1>6. UnderWay'
  <2>1. /\ p # "api" => op.kind \in {"updateRun", "insertItem"}
        /\ op.kind = "createCanvas" => db.canvas.version = 0
        /\ op.kind = "insertRun" => acked.run = "absent"
        /\ op.kind = "updateRun" => acked.run # "absent"
        /\ op.kind = "updateCanvas" =>
             \E c \in Clients, e \in Edits :
               op.version = client[c].version /\ op.graph = client[c].graph \cup {e}
      BY CallsTyped
  <2>2. op.kind = "updateCanvas" => (op.version = db.canvas.version => db.canvas.graph \subseteq op.graph)
      BY <2>1 DEF Good, Current
  <2> QED
      BY <1>2, <2>1, <2>2 DEF Good, UnderWay, Processes, WholeFile
<1> QED
    BY <1>4, <1>5, <1>6 DEF Good

LEMMA WriteGood ==
  ASSUME Typed, Good, NEW p \in Processes, Write(p), Intact'
  PROVE  Good'
<1>1. proc[p] \in Places /\ proc \in [Processes -> Places]
    BY DEF Typed
<1>2. PICK r : r = [proc[p] EXCEPT !.at = "writing"]
    OBVIOUS
<1>3. /\ r.at = "writing" /\ r.op = proc[p].op /\ r.copy = proc[p].copy
      /\ proc' = [proc EXCEPT ![p] = r]
      /\ proc[p].at = "loaded" /\ Accepts(proc[p].op, proc[p].copy)
      /\ UNCHANGED <<setup, db, broken, client, acked>>
    BY <1>1, <1>2 DEF Write, Places
<1>4. proc[p].op.kind = "updateCanvas" => proc[p].op.version = db.canvas.version
    BY <1>3 DEF Good, UnderWay, Accepts
<1>5. Agreed' /\ Current' /\ Alone'
    BY <1>1, <1>3 DEF Good, Agreed, Current, Alone, WholeFile, Processes
<1>6. UnderWay'
    BY <1>1, <1>3, <1>4 DEF Good, UnderWay, Processes, WholeFile
<1> QED
    BY <1>5, <1>6 DEF Good

\* A process that rests relies on nothing.
LEMMA RestGood ==
  ASSUME Typed, Good, NEW p \in Processes, proc' = [proc EXCEPT ![p] = Waiting],
         UNCHANGED <<setup, db, client, acked>>, Intact'
  PROVE  Good'
<1>1. \A q \in Processes : proc'[q].at # "idle" => q # p /\ proc'[q] = proc[q]
    BY RestTyped
<1>2. Agreed' /\ Current'
    BY DEF Good, Agreed, Current
<1>3. Alone'
    BY <1>1 DEF Good, Alone, WholeFile, Processes
<1>4. UnderWay'
    BY <1>1 DEF Good, UnderWay, Processes, WholeFile
<1> QED
    BY <1>2, <1>3, <1>4 DEF Good

LEMMA RefreshGood ==
  ASSUME Typed, Good, NEW c \in Clients, Refresh(c), Intact'
  PROVE  Good'
<1>1. client' = [client EXCEPT ![c] = db.canvas] /\ UNCHANGED <<setup, db, broken, proc, acked>>
    BY DEF Refresh
<1>2. db.canvas \in Canvases
    BY DEF Typed, Copies
<1>3. Current'
    BY <1>1, <1>2 DEF Good, Typed, Current, Canvases
<1>4. Agreed' /\ Alone' /\ UnderWay'
    BY <1>1 DEF Good, Agreed, Alone, UnderWay, Processes, WholeFile
<1> QED
    BY <1>3, <1>4 DEF Good

\* What an operation writes is its change to what is stored now, whatever it
\* has read before.
LEMMA WrittenIsCurrent ==
  ASSUME Typed, Good, NEW p \in Processes, proc[p].at = "writing"
  PROVE  Written(proc[p].op, proc[p].copy)
           = [db EXCEPT ![Part(proc[p].op)] = Changed(proc[p].op, db[Part(proc[p].op)])]
<1> DEFINE op == proc[p].op
           copy == proc[p].copy
<1>1. /\ op \in Ops /\ op.kind # "none" /\ copy \in Copies /\ db \in Copies
      /\ WholeFile => copy = db
      /\ p # "api" => op.kind \in {"updateRun", "insertItem"}
      /\ p = "api" => copy.canvas = db.canvas
    BY DEF Typed, Places, Good, UnderWay
<1> HIDE DEF op, copy
<1>2. CASE WholeFile
    BY <1>1, <1>2 DEF Written, op, copy
<1>3. CASE ~WholeFile
  <2>1. CASE op.kind = "insertItem"
      BY <1>3, <2>1 DEF Written, op, copy
  <2>2. CASE op.kind # "insertItem"
    <3>1. Changed(op, copy[Part(op)]) = Changed(op, db[Part(op)])
      <4>1. CASE op.kind \in {"createCanvas", "updateCanvas"}
        <5>1. p = "api" /\ Part(op) = "canvas"
            BY <1>1, <4>1 DEF Part
        <5>2. copy["canvas"] = db["canvas"]
            BY <1>1, <5>1, RecordParts
        <5> QED
            BY <5>1, <5>2
      <4>2. CASE op.kind \in {"insertRun", "updateRun"}
          BY <4>2 DEF Changed
      <4> QED
          BY <1>1, <2>2, <4>1, <4>2 DEF Ops
    <3>2. Written(op, copy) = [db EXCEPT ![Part(op)] = Changed(op, copy[Part(op)])]
        BY <1>3, <2>2 DEF Written
    <3> QED
        BY <3>1, <3>2 DEF op, copy
  <2> QED
      BY <2>1, <2>2
<1> QED
    BY <1>2, <1>3

\* By the kind of the operation, what is stored once it has written.
LEMMA WrittenParts ==
  ASSUME Typed, Good, NEW p \in Processes, proc[p].at = "writing",
         NEW new, new = Written(proc[p].op, proc[p].copy)
  PROVE  LET op == proc[p].op
         IN  /\ op.kind = "createCanvas" =>
                  new = [canvas |-> [version |-> 1, graph |-> {}], run |-> db.run, items |-> db.items]
             /\ op.kind = "updateCanvas" =>
                  new = [canvas |-> [version |-> db.canvas.version + 1, graph |-> op.graph],
                         run |-> db.run, items |-> db.items]
             /\ op.kind = "insertRun" => new = [canvas |-> db.canvas, run |-> "queued", items |-> db.items]
             /\ op.kind = "updateRun" => new = [canvas |-> db.canvas, run |-> op.status, items |-> db.items]
             /\ op.kind = "insertItem" =>
                  new = [canvas |-> db.canvas, run |-> db.run, items |-> db.items \cup {op.item}]
<1> DEFINE op == proc[p].op
<1>1. db \in Copies /\ new = [db EXCEPT ![Part(op)] = Changed(op, db[Part(op)])]
    BY WrittenIsCurrent DEF Typed
<1> HIDE DEF op
<1>2. db["canvas"] = db.canvas /\ db["items"] = db.items
    BY <1>1, RecordParts
<1>3. ASSUME op.kind = "createCanvas"
      PROVE  new = [canvas |-> [version |-> 1, graph |-> {}], run |-> db.run, items |-> db.items]
  <2>1. PICK x : x = [version |-> 1, graph |-> {}]
      OBVIOUS
  <2>2. new = [db EXCEPT !["canvas"] = x]
      BY <1>1, <1>3, <2>1 DEF Part, Changed
  <2> QED
      BY <1>1, <2>1, <2>2, RecordParts
<1>4. ASSUME op.kind = "updateCanvas"
      PROVE  new = [canvas |-> [version |-> db.canvas.version + 1, graph |-> op.graph],
                    run |-> db.run, items |-> db.items]
  <2>1. PICK x : x = [version |-> db.canvas.version + 1, graph |-> op.graph]
      OBVIOUS
  <2>2. new = [db EXCEPT !["canvas"] = x]
      BY <1>1, <1>2, <1>4, <2>1 DEF Part, Changed
  <2> QED
      BY <1>1, <2>1, <2>2, RecordParts
<1>5. ASSUME op.kind \in {"insertRun", "updateRun"}
      PROVE  new = [canvas |-> db.canvas, run |-> IF op.kind = "insertRun" THEN "queued" ELSE op.status,
                    items |-> db.items]
  <2>1. PICK x : x = IF op.kind = "insertRun" THEN "queued" ELSE op.status
      OBVIOUS
  <2>2. new = [db EXCEPT !["run"] = x]
      BY <1>1, <1>5, <2>1 DEF Part, Changed
  <2> QED
      BY <1>1, <2>1, <2>2, RecordParts
<1>6. ASSUME op.kind = "insertItem"
      PROVE  new = [canvas |-> db.canvas, run |-> db.run, items |-> db.items \cup {op.item}]
  <2>1. PICK x : x = db.items \cup {op.item}
      OBVIOUS
  <2>2. new = [db EXCEPT !["items"] = x]
      BY <1>1, <1>2, <1>6, <2>1 DEF Part, Changed
  <2> QED
      BY <1>1, <2>1, <2>2, RecordParts
<1> QED
    BY <1>3, <1>4, <1>5, <1>6 DEF op

\* An operation has written, whether or not its caller is told.
LEMMA WrittenGood ==
  ASSUME Typed, Good, NEW p \in Processes, proc[p].at = "writing",
         db' = Written(proc[p].op, proc[p].copy),
         proc' = [proc EXCEPT ![p] = Waiting], UNCHANGED setup, Intact', Agreed',
         acked.run # "absent" => acked'.run # "absent",
         proc[p].op.kind \notin {"insertRun", "updateRun"} => acked'.run = acked.run,
         \A c \in Clients : \/ client'[c] = client[c]
                             \/ (proc[p].op.kind = "updateCanvas" /\ client'[c] = db'.canvas)
  PROVE  /\ Good'
         /\ (db'.canvas = db.canvas \/ db'.canvas.version = db.canvas.version + 1)
<1> DEFINE op == proc[p].op
<1>1. /\ op \in Ops /\ op.kind # "none" /\ db \in Copies /\ db.canvas \in Canvases /\ db.canvas.version \in Nat
      /\ \A c \in Clients : client[c].version \in Nat
    BY DEF Typed, Places, Copies, Canvases
<1>2. /\ p # "api" => op.kind \in {"updateRun", "insertItem"}
      /\ op.kind = "createCanvas" => db.canvas.version = 0
      /\ op.kind = "updateRun" => acked.run # "absent"
    BY DEF Good, UnderWay
<1>3. \/ (op.kind \in {"createCanvas", "updateCanvas"} /\ db'.canvas.version = db.canvas.version + 1)
      \/ (op.kind \in {"insertRun", "updateRun", "insertItem"} /\ db'.canvas = db.canvas)
  <2>1. CASE op.kind = "createCanvas"
    <3>1. db' = [canvas |-> [version |-> 1, graph |-> {}], run |-> db.run, items |-> db.items]
        BY <2>1, WrittenParts
    <3> QED
        BY <1>2, <2>1, <3>1
  <2>2. CASE op.kind = "updateCanvas"
    <3>1. db' = [canvas |-> [version |-> db.canvas.version + 1, graph |-> op.graph],
                 run |-> db.run, items |-> db.items]
        BY <2>2, WrittenParts
    <3> QED
        BY <2>2, <3>1
  <2>3. CASE op.kind \in {"insertRun", "updateRun", "insertItem"}
    <3>1. \E s, i : db' = [canvas |-> db.canvas, run |-> s, items |-> i]
      <4>1. CASE op.kind = "insertRun"
          BY <4>1, WrittenParts
      <4>2. CASE op.kind = "updateRun"
          BY <4>2, WrittenParts
      <4>3. CASE op.kind = "insertItem"
        <5>1. db' = [canvas |-> db.canvas, run |-> db.run, items |-> db.items \cup {op.item}]
            BY <4>3, WrittenParts
        <5> QED
            BY <5>1
      <4> QED
          BY <2>3, <4>1, <4>2, <4>3
    <3> QED
        BY <2>3, <3>1
  <2> QED
      BY <1>1, <2>1, <2>2, <2>3 DEF Ops
<1> HIDE DEF op
<1>4. \A q \in Processes : proc'[q].at # "idle" => q # p /\ proc'[q] = proc[q]
    BY RestTyped
<1>5. Current'
    BY <1>1, <1>3 DEF Good, Current, op
<1>6. Alone'
    BY <1>4 DEF Good, Alone, WholeFile, Processes
<1>7. UnderWay'
  <2> SUFFICES ASSUME NEW q \in Processes, q # p, proc'[q] = proc[q], proc[q].at # "idle"
               PROVE  LET o == proc[q].op
                      IN  /\ q # "api" => o.kind \in {"updateRun", "insertItem"}
                          /\ q = "api" => proc[q].copy.canvas = db'.canvas
                          /\ WholeFile => proc[q].copy = db'
                          /\ o.kind = "createCanvas" => db'.canvas.version = 0
                          /\ o.kind = "insertRun" => acked'.run = "absent"
                          /\ o.kind = "updateRun" => acked'.run # "absent"
                          /\ o.kind = "updateCanvas" =>
                               /\ o.version = db'.canvas.version => db'.canvas.graph \subseteq o.graph
                               /\ proc[q].at = "writing" => o.version = db'.canvas.version
      BY <1>4 DEF UnderWay, Processes, WholeFile
  <2>1. ~WholeFile
      BY DEF Good, Alone
  <2>2. p \in {"api", "worker"} /\ q \in {"api", "worker"}
      BY ProcessesKnown
  <2>3. /\ q # "api" => proc[q].op.kind \in {"updateRun", "insertItem"}
        /\ proc[q].op.kind = "updateRun" => acked.run # "absent"
        /\ proc[q].op.kind = "insertRun" => acked.run = "absent"
      BY DEF Good, UnderWay
  <2>4. CASE p = "api"
      BY <2>1, <2>2, <2>3, <2>4
  <2>5. CASE p = "worker"
    <3>1. op.kind \in {"updateRun", "insertItem"} /\ db'.canvas = db.canvas
        BY <1>2, <1>3, <2>5
    <3>2. proc[q].op.kind = "insertRun" => acked'.run = "absent"
        BY <1>2, <2>3, <3>1 DEF op
    <3>3. proc[q].op.kind = "updateRun" => acked'.run # "absent"
        BY <2>3
    <3> QED
        BY <2>1, <2>2, <2>5, <3>1, <3>2, <3>3 DEF Good, UnderWay
  <2> QED
      BY <2>2, <2>4, <2>5
<1> QED
    BY <1>3, <1>5, <1>6, <1>7 DEF Good

LEMMA ReturnGood ==
  ASSUME Typed, Good, NEW p \in Processes, Return(p), Intact'
  PROVE  /\ Good'
         /\ (db'.canvas = db.canvas \/ db'.canvas.version = db.canvas.version + 1)
<1> DEFINE op == proc[p].op
<1>1. /\ proc[p].at = "writing" /\ proc' = [proc EXCEPT ![p] = Waiting] /\ UNCHANGED setup
      /\ db' = Written(op, proc[p].copy)
      /\ acked' = [acked EXCEPT ![Part(op)] = Told(op, acked[Part(op)], db')]
      /\ client' \in {client} \cup
           (IF op.kind = "updateCanvas" THEN {[client EXCEPT ![op.by] = db'.canvas]} ELSE {})
    BY DEF Return, Intact
<1>2. \A c \in Clients : \/ client'[c] = client[c]
                          \/ (op.kind = "updateCanvas" /\ client'[c] = db'.canvas)
  <2>1. client \in [Clients -> Canvases]
      BY DEF Typed
  <2>2. CASE client' = client
      BY <2>2
  <2>3. CASE op.kind = "updateCanvas" /\ client' = [client EXCEPT ![op.by] = db'.canvas]
      BY <2>1, <2>3
  <2> QED
      BY <1>1, <2>2, <2>3
<1>3. /\ op \in Ops /\ op.kind # "none" /\ acked \in Copies /\ acked.canvas \in Canvases
      /\ acked["canvas"] = acked.canvas /\ acked["items"] = acked.items
      /\ db.canvas.version \in Nat
    BY <1>1, RecordParts DEF Typed, Places, Copies, Canvases
<1>4. Agreed
    BY DEF Good
<1>5. Agreed' /\ (op.kind \notin {"insertRun", "updateRun"} => acked'.run = acked.run)
         /\ (acked.run # "absent" => acked'.run # "absent")
  <2>1. CASE op.kind = "createCanvas"
    <3>1. PICK x : x = [version |-> 1, graph |-> {}]
        OBVIOUS
    <3>2. db' = [canvas |-> x, run |-> db.run, items |-> db.items]
        BY <1>1, <2>1, <3>1, WrittenParts
    <3>3. acked' = [acked EXCEPT !["canvas"] = x]
        BY <1>1, <2>1, <3>1 DEF Part, Told, Changed
    <3>4. acked' = [canvas |-> x, run |-> acked.run, items |-> acked.items]
        BY <1>3, <3>3, RecordParts
    <3> QED
        BY <1>4, <3>1, <3>2, <3>4 DEF Agreed
  <2>2. CASE op.kind = "updateCanvas"
    <3>1. db.canvas.graph \subseteq op.graph
        BY <1>1, <2>2 DEF Good, UnderWay
    <3>2. db' = [canvas |-> [version |-> db.canvas.version + 1, graph |-> op.graph],
                 run |-> db.run, items |-> db.items]
        BY <1>1, <2>2, WrittenParts
    <3>3. PICK x : x = [version |-> db'.canvas.version, graph |-> acked.canvas.graph \cup op.graph]
        OBVIOUS
    <3>4. acked' = [acked EXCEPT !["canvas"] = x]
        BY <1>1, <1>3, <2>2, <3>3 DEF Part, Told
    <3>5. acked' = [canvas |-> x, run |-> acked.run, items |-> acked.items]
        BY <1>3, <3>4, RecordParts
    <3>6. db'.canvas.version \in Nat /\ db'.canvas.version # 0 /\ db'.canvas.graph = op.graph /\ db'.run = db.run /\ db'.items = db.items
        BY <1>3, <3>2
    <3> QED
        BY <1>4, <2>2, <3>1, <3>3, <3>5, <3>6 DEF Agreed
  <2>3. CASE op.kind \in {"insertRun", "updateRun"}
    <3>1. PICK x : x = IF op.kind = "insertRun" THEN "queued" ELSE op.status
        OBVIOUS
    <3>2. db' = [canvas |-> db.canvas, run |-> x, items |-> db.items]
        BY <1>1, <2>3, <3>1, WrittenParts
    <3>3. acked' = [acked EXCEPT !["run"] = x]
        BY <1>1, <2>3, <3>1 DEF Part, Told, Changed
    <3>4. acked' = [canvas |-> acked.canvas, run |-> x, items |-> acked.items]
        BY <1>3, <3>3, RecordParts
    <3>5. x # "absent"
        BY <1>3, <2>3, <3>1 DEF Ops
    <3> QED
        BY <1>4, <2>3, <3>2, <3>4, <3>5 DEF Agreed
  <2>4. CASE op.kind = "insertItem"
    <3>1. db' = [canvas |-> db.canvas, run |-> db.run, items |-> db.items \cup {op.item}]
        BY <1>1, <2>4, WrittenParts
    <3>2. PICK x : x = acked.items \cup {op.item}
        OBVIOUS
    <3>3. acked' = [acked EXCEPT !["items"] = x]
        BY <1>1, <1>3, <2>4, <3>2 DEF Part, Told, Changed
    <3>4. acked' = [canvas |-> acked.canvas, run |-> acked.run, items |-> x]
        BY <1>3, <3>3, RecordParts
    <3> QED
        BY <1>4, <3>1, <3>2, <3>4 DEF Agreed
  <2> QED
      BY <1>3, <2>1, <2>2, <2>3, <2>4 DEF Ops
<1> QED
    BY <1>1, <1>2, <1>5, WrittenGood

LEMMA UntoldGood ==
  ASSUME Typed, Good, NEW p \in Processes, Untold(p), Intact',
         proc' = [proc EXCEPT ![p] = Waiting], UNCHANGED <<setup, client>>
  PROVE  /\ Good'
         /\ (db'.canvas = db.canvas \/ db'.canvas.version = db.canvas.version + 1)
<1> DEFINE op == proc[p].op
<1>1. /\ proc[p].at = "writing" /\ db' = Written(op, proc[p].copy)
      /\ acked' = IF op.kind = "updateRun" THEN [acked EXCEPT !.run = op.status] ELSE acked
    BY DEF Untold
<1>2. /\ op \in Ops /\ op.kind # "none" /\ acked \in Copies /\ db.canvas.version \in Nat
      /\ acked.canvas.version \in Nat
    BY <1>1 DEF Typed, Places, Copies, Canvases
<1>3. Agreed
    BY DEF Good
<1>4. Agreed' /\ (acked.run # "absent" => acked'.run # "absent")
         /\ (op.kind \notin {"insertRun", "updateRun"} => acked'.run = acked.run)
  <2>1. CASE op.kind = "createCanvas"
    <3>1. db' = [canvas |-> [version |-> 1, graph |-> {}], run |-> db.run, items |-> db.items]
        BY <1>1, <2>1, WrittenParts
    <3>2. db.canvas.version = 0
        BY <1>1, <2>1 DEF Good, UnderWay
    <3> QED
        BY <1>1, <1>2, <1>3, <2>1, <3>1, <3>2 DEF Agreed
  <2>2. CASE op.kind = "updateCanvas"
    <3>1. db' = [canvas |-> [version |-> db.canvas.version + 1, graph |-> op.graph],
                 run |-> db.run, items |-> db.items]
        BY <1>1, <2>2, WrittenParts
    <3>2. db.canvas.graph \subseteq op.graph
        BY <1>1, <2>2 DEF Good, UnderWay
    <3> QED
        BY <1>1, <1>2, <1>3, <2>2, <3>1, <3>2 DEF Agreed
  <2>3. CASE op.kind = "insertRun"
    <3>1. db' = [canvas |-> db.canvas, run |-> "queued", items |-> db.items]
        BY <1>1, <2>3, WrittenParts
    <3>2. acked.run = "absent"
        BY <1>1, <2>3 DEF Good, UnderWay
    <3> QED
        BY <1>1, <1>3, <2>3, <3>1, <3>2 DEF Agreed
  <2>4. CASE op.kind = "updateRun"
    <3>1. db' = [canvas |-> db.canvas, run |-> op.status, items |-> db.items]
        BY <1>1, <2>4, WrittenParts
    <3>2. acked' = [canvas |-> acked.canvas, run |-> op.status, items |-> acked.items] /\ op.status # "absent"
        BY <1>1, <1>2, <2>4 DEF Copies, Ops
    <3> QED
        BY <1>3, <2>4, <3>1, <3>2 DEF Agreed
  <2>5. CASE op.kind = "insertItem"
    <3>1. db' = [canvas |-> db.canvas, run |-> db.run, items |-> db.items \cup {op.item}]
        BY <1>1, <2>5, WrittenParts
    <3> QED
        BY <1>1, <1>3, <2>5, <3>1 DEF Agreed
  <2> QED
      BY <1>2, <2>1, <2>2, <2>3, <2>4, <2>5 DEF Ops
<1>5. \A c \in Clients : client'[c] = client[c]
    OBVIOUS
<1> QED
    BY <1>1, <1>4, <1>5, WrittenGood

LEMMA NextGood ==
  ASSUME Typed, Good, [Next]_vars, Intact'
  PROVE  Good' /\ (db'.canvas = db.canvas \/ db'.canvas.version = db.canvas.version + 1)
<1>1. CASE \E p \in Processes : \E op \in Calls(p) : Load(p, op)
    BY <1>1, LoadGood DEF Load
<1>2. CASE \E p \in Processes : Refuse(p)
  <2>1. PICK p \in Processes : proc' = [proc EXCEPT ![p] = Waiting] /\ UNCHANGED <<setup, db, client, acked>>
      BY <1>2 DEF Refuse
  <2> QED
      BY <2>1, RestGood
<1>3. CASE \E p \in Processes : Write(p)
    BY <1>3, WriteGood DEF Write
<1>4. CASE \E p \in Processes : Return(p)
    BY <1>4, ReturnGood
<1>5. CASE \E p \in Processes : Crash(p)
  <2>1. PICK p \in Processes : Crash(p)
      BY <1>5
  <2>2. proc' = [proc EXCEPT ![p] = Waiting] /\ UNCHANGED <<setup, client>>
      BY <2>1 DEF Crash
  <2>3. CASE Unwritten(p)
      BY <2>2, <2>3, RestGood DEF Unwritten
  <2>4. CASE Untold(p)
      BY <2>2, <2>4, UntoldGood
  <2>5. CASE CutOff(p)
      BY <2>5 DEF CutOff, Intact
  <2> QED
      BY <2>1, <2>3, <2>4, <2>5 DEF Crash
<1>6. CASE \E c \in Clients : Refresh(c)
    BY <1>6, RefreshGood DEF Refresh
<1>7. CASE UNCHANGED vars
    BY <1>7 DEF vars, Good, Alone, Agreed, Current, UnderWay, Processes, WholeFile
<1> QED
    BY <1>1, <1>2, <1>3, <1>4, <1>5, <1>6, <1>7 DEF Next

LEMMA NextInv == IInv /\ [Next]_vars => IInv'
<1> SUFFICES ASSUME IInv, [Next]_vars PROVE IInv'
    OBVIOUS
<1>1. Typed' /\ Damage'
    BY NextTyped, DamageStep DEF IInv
<1>2. Intact' => Good'
    BY StaysHarmed, NextGood DEF IInv
<1> QED
    BY <1>1, <1>2 DEF IInv

LEMMA InvHolds == Spec => []IInv
BY InitInv, NextInv, PTL DEF Spec

\* Overlapping operations and a write that was cut off are all that harms.
LEMMA UnharmedIsGood == IInv /\ ~Harmed => Intact /\ Good
BY DEF IInv, Typed, Damage, Intact, Harmed

----------------------------------------------------------------------------

\* The state is always of its types, for any clients, edits, items and crashes,
\* and whoever shares the JSON file.
THEOREM StoreIsTyped == Spec => []TypeOK
<1>1. IInv => TypeOK
  <2> SUFFICES ASSUME IInv PROVE TypeOK
      OBVIOUS
  <2>1. db \in Copies /\ db.canvas \in Canvases
      BY DEF IInv, Typed, Copies
  <2> QED
      BY <2>1 DEF IInv, Typed, TypeOK, Copies, Canvases, Statuses, Places
<1> QED
    BY InvHolds, <1>1, PTL

\* Whatever the API and the worker have read before and write after, and
\* however often they die, SQLite keeps what it has acknowledged to either; the
\* JSON file loses it only by operations that overlap on it or a write that a
\* crash cuts off.
THEOREM AcknowledgedStays == Spec => []AcknowledgedIsKept
<1>1. IInv => AcknowledgedIsKept
    BY UnharmedIsGood DEF Good, Intact, Agreed, AcknowledgedIsKept
<1> QED
    BY InvHolds, <1>1, PTL

\* However many clients save the canvas, from whatever versions, no accepted
\* edit is overwritten by one that had not seen it.
THEOREM EditsAreNotLost == Spec => []AcceptedEditsAreKept
<1>1. IInv => AcceptedEditsAreKept
    BY UnharmedIsGood DEF Good, Agreed, Current, AcceptedEditsAreKept
<1> QED
    BY InvHolds, <1>1, PTL

\* No version of the canvas is skipped or used twice until the file is harmed.
THEOREM VersionsAreFresh == Spec => VersionsOnlyGrow
<1>1. IInv /\ IInv' /\ [Next]_vars
        => [Harmed' \/ db'.canvas = db.canvas \/ db'.canvas.version = db.canvas.version + 1]_vars
  <2> SUFFICES ASSUME IInv, IInv', [Next]_vars, ~Harmed'
               PROVE  db'.canvas = db.canvas \/ db'.canvas.version = db.canvas.version + 1
      OBVIOUS
  <2>1. Intact'
      BY DEF IInv, Typed, Damage, Intact, Harmed
  <2> QED
      BY <2>1, StaysHarmed, NextGood DEF IInv
<1> QED
    BY InvHolds, <1>1, PTL DEF Spec, VersionsOnlyGrow
=============================================================================

--------------------------- MODULE DraftSyncProofs ---------------------------
(***************************************************************************)
(* For any tabs, edits and secrets: the types of DraftSync, that the draft *)
(* keeps its edits unless requests overlap or a tab was given the hash of  *)
(* a graph it does not show, and what a tab that is left alone can rely on.*)
(***************************************************************************)
EXTENDS DraftSync, SequenceTheorems, TLAPS

Secrets == Hidden .. MaxSecrets
Graphs  == SUBSET (1 .. edits)
Copies  == [graph : Graphs, hash : Graphs, secret : Secrets]
Queued  == [quiet : BOOLEAN, secret : BOOLEAN]
States  == [copy : Copies, loaded : BOOLEAN, layer : BOOLEAN, timer : BOOLEAN,
            queue : Seq(Queued), due : Nat, shown : BOOLEAN]
Stages  == {"sent", "checked", "stored", "answered", "refused"}
Saves   == [tab : Tabs, kind : {"sync", "beacon"}, copy : Copies, origin : Secrets, at : Stages]
Loads(c) == c \in [tab : Tabs, kind : {"fetch"}, copy : Copies, wasLoaded : BOOLEAN,
                   at : {"sent", "answered"}, nr : {c.nr}]

Counted ==
    /\ setup \in Setups
    /\ edits \in 0 .. MaxEdits /\ secrets \in 0 .. MaxSecrets
    /\ lost \in Nat /\ hides \in Nat /\ crossed \in BOOLEAN
Typed ==
    /\ draft \in [graph : Graphs, secret : Secrets]
    /\ tab \in [Tabs -> States]
    /\ \A c \in calls : c \in Saves \/ Loads(c)

(* A tab makes the syncs of its queue one after the other.                 *)
Syncs(c, t) == c.tab = t /\ c.kind = "sync"
Serial ==
    \A t \in Tabs : \A c \in calls : Syncs(c, t) =>
        tab[t].queue # <<>> /\ \A d \in calls : Syncs(d, t) => c = d

(* The layer, and a copy that may not be saved, wait for a load.           *)
Opening ==
    \A t \in Tabs :
        /\ tab[t].layer => \E c \in calls : c.tab = t /\ c.kind = "fetch"
        /\ ~tab[t].loaded => \E c \in calls : c.tab = t /\ c.kind = "fetch" /\ c.wasLoaded

(* Requests served in turn, hashes that cover nothing that is not there.   *)
InTurn == ~Overlap => \A c, d \in calls : Served(c) /\ Served(d) => c = d
Honest ==
    ~Overlap /\ ~crossed =>
        /\ \A t \in Tabs : tab[t].copy.hash \subseteq tab[t].copy.graph
        /\ \A c \in calls : c.at \in {"sent", "checked"} => c.copy.hash \subseteq c.copy.graph
        /\ \A c \in calls : c.at = "checked" => c.copy.hash = draft.graph

(* One tab, left alone, is never refused and has nothing to load.          *)
Before(c) == c.at \in {"sent", "checked"}
Unrefused ==
    Calm =>
        /\ \A t \in Tabs : /\ tab[t].due = 0 /\ tab[t].loaded /\ ~tab[t].layer /\ tab[t].shown
                           /\ tab[t].copy.graph = 1 .. edits
                           /\ (\A c \in calls : Before(c)) => tab[t].copy.hash = draft.graph
        /\ \A c \in calls : /\ c.kind = "sync" /\ c.at # "refused"
                            /\ c.at # "stored" => c.copy.hash = draft.graph

(* A secret is entered, saved and hidden, in this order.                   *)
Kept ==
    Calm =>
        /\ draft.secret # Hidden
        /\ \A t \in Tabs :
              /\ \A i \in 1 .. Len(tab[t].queue) : tab[t].queue[i].secret => tab[t].copy.secret # Absent
              /\ tab[t].copy.secret = Hidden => draft.secret # Absent
              /\ draft.secret # Absent => tab[t].copy.secret # Absent
        /\ \A c \in calls :
              /\ Before(c) =>
                    /\ c.copy.secret = Hidden => draft.secret # Absent
                    /\ draft.secret # Absent => c.copy.secret # Absent
                    /\ c.copy.secret # Absent => tab[c.tab].copy.secret # Absent
                    /\ tab[c.tab].queue[1].secret => c.copy.secret # Absent
              /\ c.at = "checked" => c.origin = draft.secret
              /\ ~Before(c) /\ tab[c.tab].queue[1].secret => draft.secret # Absent

IInv == Counted /\ Typed /\ Serial /\ Opening /\ InTurn /\ Honest /\ Unrefused /\ Kept
-----------------------------------------------------------------------------
LEMMA Bounds ==
    ASSUME setup \in Setups
    PROVE  /\ MaxEdits \in Nat /\ MaxSecrets \in Nat /\ MaxLost \in Nat /\ MaxHides \in Nat
           /\ Overlap \in BOOLEAN
BY DraftAssumption DEF MaxEdits, MaxSecrets, MaxLost, MaxHides, Overlap

LEMMA InitInv == Init => IInv
<1> SUFFICES ASSUME Init PROVE IInv
    OBVIOUS
<1> USE DEF Init
<1>1. Counted
  <2>1. MaxEdits \in Nat /\ MaxSecrets \in Nat
      BY Bounds
  <2>2. crossed \in BOOLEAN
      BY Zenon
  <2> QED
      BY <2>1, <2>2 DEF Counted
<1>2. Typed
    BY Bounds DEF Typed, States, Copies, Graphs, Secrets, Queued, Loaded, Absent, Hidden
<1>3. Serial /\ Opening /\ InTurn
    BY DEF Serial, Opening, InTurn
<1>4. Honest
    BY DEF Honest, Loaded
<1>5. Unrefused
    BY DEF Unrefused, Loaded
<1>6. Kept
    BY DEF Kept, Loaded, Absent, Hidden
<1> QED
    BY <1>1, <1>2, <1>3, <1>4, <1>5, <1>6 DEF IInv

(* A tab after a sync of its queue is over.                                *)
LEMMA SettledState ==
    ASSUME Counted, NEW w \in States, w.queue # <<>>
    PROVE  /\ Settled(w) \in States /\ Settled(w).queue = Tail(w.queue)
           /\ Settled(w).loaded = w.loaded /\ Settled(w).layer = w.layer
           /\ Settled(w).due = w.due /\ Settled(w).shown = w.shown
           /\ Settled(w).copy.graph = w.copy.graph /\ Settled(w).copy.hash = w.copy.hash
           /\ Settled(w).copy.secret = IF w.queue[1].secret THEN Hidden ELSE w.copy.secret
<1>1. Tail(w.queue) \in Seq(Queued)
    BY DEF States
<1>2. Hidden \in Secrets
    BY Bounds DEF Counted, Secrets, Hidden
<1> DEFINE secret == IF w.queue[1].secret THEN Hidden ELSE w.copy.secret
           copy   == [w.copy EXCEPT !.secret = secret]
<1>3. w.copy \in Copies /\ secret \in Secrets
    BY <1>2 DEF States, Copies
<1>4. /\ copy \in Copies /\ copy.secret = secret
      /\ copy.graph = w.copy.graph /\ copy.hash = w.copy.hash
    BY <1>3 DEF Copies
<1>5. Settled(w) = [w EXCEPT !.queue = Tail(w.queue), !.copy = copy]
    BY DEF Settled, States
<1> HIDE DEF copy
<1>6. /\ Settled(w) \in States /\ Settled(w).copy = copy /\ Settled(w).queue = Tail(w.queue)
      /\ Settled(w).loaded = w.loaded /\ Settled(w).layer = w.layer
      /\ Settled(w).due = w.due /\ Settled(w).shown = w.shown
    BY <1>1, <1>4, <1>5 DEF States
<1> QED
    BY <1>4, <1>6

(* A queue with a sync more at its end.                                    *)
Extends(s, e, q) ==
    /\ q \in Seq(Queued) /\ q # <<>>
    /\ s # <<>> => q[1] = s[1]
    /\ \A i \in 1 .. Len(q) : q[i] = e \/ \E j \in 1 .. Len(s) : q[i] = s[j]

LEMMA Appended ==
    \A s \in Seq(Queued), e \in Queued : Extends(s, e, Append(s, e))
<1> SUFFICES ASSUME NEW s \in Seq(Queued), NEW e \in Queued,
                    NEW q, q = Append(s, e)
             PROVE  Extends(s, e, q)
    OBVIOUS
<1> HIDE DEF Queued
<1>1. q \in Seq(Queued) /\ q # <<>> /\ Len(q) = Len(s) + 1
    BY AppendProperties
<1>2. \A i \in 1 .. Len(s) : q[i] = s[i]
    BY AppendProperties
<1>3. q[Len(s) + 1] = e
    BY AppendProperties
<1>4. s # <<>> => 1 \in 1 .. Len(s)
    BY EmptySeq, LenProperties
<1>5. Len(s) \in Nat
    BY LenProperties
<1> QED
    BY <1>1, <1>2, <1>3, <1>4, <1>5 DEF Extends

(* A step of one tab that leaves the requests alone, and neither gives up  *)
(* edits, nor the sync being made, nor a secret.                           *)
Grows(t, new) ==
    /\ new.copy.hash = tab[t].copy.hash /\ tab[t].copy.graph \subseteq new.copy.graph
    /\ new.loaded = tab[t].loaded /\ new.layer = tab[t].layer
    /\ tab[t].queue # <<>> => new.queue # <<>> /\ new.queue[1] = tab[t].queue[1]
    /\ Calm => /\ new.due = tab[t].due /\ new.shown = tab[t].shown
               /\ new.copy.graph = 1 .. edits'
               /\ \A i \in 1 .. Len(new.queue) : new.queue[i].secret => new.copy.secret # Absent
               /\ new.copy.secret = Hidden => tab[t].copy.secret = Hidden
               /\ tab[t].copy.secret # Absent => new.copy.secret # Absent

LEMMA GrowsInv ==
    ASSUME IInv, Counted', NEW t \in Tabs, NEW new \in States', Grows(t, new),
           tab' = [tab EXCEPT ![t] = new], edits <= edits',
           UNCHANGED <<setup, draft, calls, lost, hides, crossed>>
    PROVE  IInv'
<1> USE DEF IInv
<1>1. /\ Tabs' = Tabs /\ Overlap' = Overlap /\ Calm' = Calm /\ Secrets' = Secrets
    BY DEF Tabs, Overlap, Calm, Secrets, MaxSecrets
<1>2. Graphs \subseteq Graphs'
    BY DEF Counted, Graphs
<1>3. Copies \subseteq Copies'
    BY <1>1, <1>2 DEF Copies
<1>4. States \subseteq States'
    BY <1>3 DEF States
<1>5. Typed'
  <2>1. draft' \in [graph : Graphs', secret : Secrets']
      BY <1>1, <1>2 DEF Typed
  <2>2. tab' \in [Tabs' -> States']
      BY <1>1, <1>4 DEF Typed
  <2>3. \A c \in calls' : c \in Saves' \/ Loads(c)'
      BY <1>1, <1>3 DEF Typed, Saves, Loads, Stages
  <2> QED
      BY <2>1, <2>2, <2>3 DEF Typed
<1>6. /\ tab'[t] = new
      /\ \A u \in Tabs : u # t => tab'[u] = tab[u]
    BY DEF Typed
<1>7. Serial'
    BY <1>1, <1>6 DEF Serial, Syncs, Grows
<1>8. Opening'
    BY <1>1, <1>6 DEF Opening, Grows
<1>9. InTurn'
    BY <1>1 DEF InTurn, Served
<1>10. Honest'
    BY <1>1, <1>6 DEF Honest, Grows
<1>11. Unrefused'
    BY <1>1, <1>6 DEF Unrefused, Grows, Calm, Before
<1>12. Kept'
  <2> SUFFICES ASSUME Calm PROVE Kept'
      BY <1>1 DEF Kept
  <2>1. \A u \in Tabs : u = t
      BY DEF Calm
  <2>2. \A c \in calls : c.tab = t /\ Syncs(c, t) /\ tab[t].queue # <<>>
      BY <2>1 DEF Typed, Saves, Loads, Unrefused, Syncs, Serial
  <2>3. new.copy.secret = Hidden => draft.secret # Absent
      BY DEF Kept, Grows
  <2> QED
      BY <1>1, <1>6, <2>1, <2>2, <2>3 DEF Kept, Grows, Before
<1> QED
    BY <1>5, <1>7, <1>8, <1>9, <1>10, <1>11, <1>12

-----------------------------------------------------------------------------
(* Edits and secrets.                                                      *)
LEMMA EditInv ==
    ASSUME IInv, NEW t \in Tabs, NEW atOnce \in BOOLEAN, Edit(t, atOnce)
    PROVE  IInv'
<1> DEFINE queue == IF atOnce THEN Append(tab[t].queue, Sync(TRUE, FALSE)) ELSE tab[t].queue
           graph == tab[t].copy.graph \cup {edits'}
           copy  == [tab[t].copy EXCEPT !.graph = graph]
           timer == tab[t].timer \/ ~atOnce
           new   == [tab[t] EXCEPT !.copy = copy, !.timer = timer, !.queue = queue]
<1> USE DEF IInv
<1>1. /\ tab[t] \in States /\ tab[t].shown /\ ~tab[t].layer
      /\ edits \in Nat /\ edits' = edits + 1 /\ edits' <= MaxEdits
      /\ UNCHANGED <<setup, draft, calls, secrets, lost, hides, crossed>>
    BY Bounds DEF Counted, Typed, Edit, CanEdit
<1>2. Graphs \subseteq Graphs' /\ Secrets' = Secrets /\ Tabs' = Tabs
    BY <1>1 DEF Graphs, Secrets, Tabs, MaxSecrets
<1>3. Counted'
    BY <1>1, Bounds DEF Counted, MaxEdits, MaxSecrets
<1>4. /\ queue \in Seq(Queued)
      /\ tab[t].queue # <<>> => queue # <<>> /\ queue[1] = tab[t].queue[1]
      /\ \A i \in 1 .. Len(queue) : queue[i].secret =>
            \E j \in 1 .. Len(tab[t].queue) : queue[i] = tab[t].queue[j]
  <2>1. tab[t].queue \in Seq(Queued) /\ Sync(TRUE, FALSE) \in Queued /\ ~Sync(TRUE, FALSE).secret
      BY <1>1 DEF States, Queued, Sync
  <2>2. CASE atOnce
    <3>1. queue = Append(tab[t].queue, Sync(TRUE, FALSE))
        BY <2>2
    <3>2. Extends(tab[t].queue, Sync(TRUE, FALSE), queue)
        BY <2>1, <3>1, Appended, Zenon
    <3> QED
        BY <2>1, <3>2 DEF Extends
  <2>3. CASE ~atOnce
      BY <2>1, <2>3
  <2> QED
      BY <2>2, <2>3
<1> HIDE DEF queue
<1>5. copy \in Copies' /\ copy.graph = graph /\ copy.hash = tab[t].copy.hash /\ copy.secret = tab[t].copy.secret
    BY <1>1, <1>2, SMTT(20) DEF States, Copies, Graphs
<1> HIDE DEF copy, graph
<1>6. new \in States' /\ new.copy = copy /\ new.queue = queue
      /\ new.loaded = tab[t].loaded /\ new.layer = tab[t].layer /\ new.due = tab[t].due /\ new.shown = tab[t].shown
    BY <1>1, <1>4, <1>5 DEF States
<1>7. tab' = [tab EXCEPT ![t] = new]
    BY DEF Edit, queue, copy, graph
<1>8. Grows(t, new)
  <2>1. Calm => copy.graph = 1 .. edits'
    <3>1. Calm => tab[t].copy.graph = 1 .. edits
        BY DEF Unrefused
    <3> QED
        BY <1>1, <1>5, <3>1 DEF graph
  <2>2. tab[t].copy.graph \subseteq copy.graph
      BY <1>5 DEF graph
  <2>3. Calm => \A i \in 1 .. Len(queue) : queue[i].secret => copy.secret # Absent
      BY <1>4, <1>5 DEF Kept
  <2> QED
      BY <1>4, <1>5, <1>6, <2>1, <2>2, <2>3 DEF Grows
<1>9. edits <= edits' /\ UNCHANGED <<setup, draft, calls, lost, hides, crossed>>
    BY <1>1
<1> HIDE DEF IInv, new
<1> QED
    BY <1>1, <1>3, <1>6, <1>7, <1>8, <1>9, GrowsInv

LEMMA SaveSecretInv == ASSUME IInv, NEW t \in Tabs, SaveSecret(t) PROVE IInv'
<1> DEFINE queue == Append(tab[t].queue, Sync(FALSE, TRUE))
           copy  == [tab[t].copy EXCEPT !.secret = secrets']
           new   == [tab[t] EXCEPT !.copy = copy, !.queue = queue]
<1> USE DEF IInv
<1>1. /\ tab[t] \in States
      /\ secrets' \in 1 .. MaxSecrets /\ edits' = edits /\ edits \in Nat
      /\ UNCHANGED <<setup, draft, calls, lost, hides, crossed>>
    BY Bounds DEF Counted, Typed, SaveSecret
<1>2. Graphs' = Graphs /\ Secrets' = Secrets /\ secrets' \in Secrets
    BY <1>1, Bounds DEF Counted, Graphs, Secrets, MaxSecrets, Hidden
<1>3. Counted'
    BY <1>1, Bounds DEF Counted, MaxEdits, MaxSecrets
<1>4. /\ queue \in Seq(Queued)
      /\ tab[t].queue # <<>> => queue # <<>> /\ queue[1] = tab[t].queue[1]
  <2>1. tab[t].queue \in Seq(Queued) /\ Sync(FALSE, TRUE) \in Queued
      BY <1>1 DEF States, Queued, Sync
  <2>2. Extends(tab[t].queue, Sync(FALSE, TRUE), queue)
      BY <2>1, Appended, Zenon
  <2> QED
      BY <2>1, <2>2 DEF Extends
<1> HIDE DEF queue
<1>5. copy \in Copies' /\ copy.graph = tab[t].copy.graph /\ copy.hash = tab[t].copy.hash /\ copy.secret = secrets'
    BY <1>1, <1>2 DEF States, Copies
<1> HIDE DEF copy
<1>6. new \in States' /\ new.copy = copy /\ new.queue = queue
      /\ new.loaded = tab[t].loaded /\ new.layer = tab[t].layer /\ new.due = tab[t].due /\ new.shown = tab[t].shown
    BY <1>1, <1>4, <1>5 DEF States
<1>7. tab' = [tab EXCEPT ![t] = new]
    BY DEF SaveSecret, queue, copy
<1>8. Grows(t, new)
    BY <1>1, <1>4, <1>5, <1>6 DEF Grows, Absent, Hidden, Unrefused
<1>9. edits <= edits' /\ UNCHANGED <<setup, draft, calls, lost, hides, crossed>>
    BY <1>1
<1> HIDE DEF IInv, new
<1> QED
    BY <1>1, <1>3, <1>6, <1>7, <1>8, <1>9, GrowsInv

LEMMA DebouncedInv == ASSUME IInv, NEW t \in Tabs, Debounced(t) PROVE IInv'
<1> DEFINE queue == Append(tab[t].queue, Sync(FALSE, FALSE))
           new   == [tab[t] EXCEPT !.timer = FALSE, !.queue = queue]
<1> USE DEF IInv
<1>1. /\ tab[t] \in States /\ edits' = edits /\ edits \in Nat
      /\ UNCHANGED <<setup, draft, calls, secrets, lost, hides, crossed>>
    BY DEF Counted, Typed, Debounced, counts
<1>2. States' = States
    BY <1>1 DEF States, Copies, Graphs, Secrets, MaxSecrets
<1>3. Counted'
    BY <1>1 DEF Counted, MaxEdits, MaxSecrets
<1>4. /\ queue \in Seq(Queued)
      /\ tab[t].queue # <<>> => queue # <<>> /\ queue[1] = tab[t].queue[1]
      /\ \A i \in 1 .. Len(queue) : queue[i].secret =>
            \E j \in 1 .. Len(tab[t].queue) : queue[i] = tab[t].queue[j]
  <2>1. tab[t].queue \in Seq(Queued) /\ Sync(FALSE, FALSE) \in Queued /\ ~Sync(FALSE, FALSE).secret
      BY <1>1 DEF States, Queued, Sync
  <2>2. Extends(tab[t].queue, Sync(FALSE, FALSE), queue)
      BY <2>1, Appended, Zenon
  <2> QED
      BY <2>1, <2>2 DEF Extends
<1> HIDE DEF queue
<1>6. new \in States' /\ new.copy = tab[t].copy /\ new.queue = queue
      /\ new.loaded = tab[t].loaded /\ new.layer = tab[t].layer /\ new.due = tab[t].due /\ new.shown = tab[t].shown
    BY <1>1, <1>2, <1>4 DEF States
<1>7. tab' = [tab EXCEPT ![t] = new]
    BY DEF Debounced, queue
<1>8. Grows(t, new)
    BY <1>1, <1>4, <1>6 DEF Grows, Unrefused, Kept
<1>9. edits <= edits' /\ UNCHANGED <<setup, draft, calls, lost, hides, crossed>>
    BY <1>1
<1> HIDE DEF IInv, new
<1> QED
    BY <1>1, <1>3, <1>6, <1>7, <1>8, <1>9, GrowsInv

LEMMA ShowInv == ASSUME IInv, NEW t \in Tabs, Show(t) PROVE IInv'
<1> DEFINE new == [tab[t] EXCEPT !.shown = TRUE, !.due = tab[t].due + 1]
<1> USE DEF IInv
<1>1. /\ tab[t] \in States /\ ~tab[t].shown /\ edits' = edits /\ edits \in Nat
      /\ UNCHANGED <<setup, draft, calls, secrets, lost, hides, crossed>>
    BY DEF Counted, Typed, Show, counts
<1>2. States' = States
    BY <1>1 DEF States, Copies, Graphs, Secrets, MaxSecrets
<1>3. Counted'
    BY <1>1 DEF Counted, MaxEdits, MaxSecrets
<1>4. new \in States' /\ new.copy = tab[t].copy /\ new.queue = tab[t].queue
      /\ new.loaded = tab[t].loaded /\ new.layer = tab[t].layer
  <2>1. tab[t].due + 1 \in Nat
      BY <1>1 DEF States
  <2>2. new \in States
      BY <1>1, <2>1 DEF States
  <2> QED
      BY <1>1, <1>2, <2>2 DEF States
<1>5. ~Calm
    BY <1>1 DEF Unrefused
<1>6. tab' = [tab EXCEPT ![t] = new]
    BY DEF Show
<1>7. Grows(t, new)
    BY <1>4, <1>5 DEF Grows
<1>9. edits <= edits' /\ UNCHANGED <<setup, draft, calls, lost, hides, crossed>>
    BY <1>1
<1> HIDE DEF IInv, new
<1> QED
    BY <1>1, <1>3, <1>4, <1>6, <1>7, <1>9, GrowsInv

-----------------------------------------------------------------------------
(* Requests and answers.  What a step that counts nothing leaves alone.    *)
LEMMA Same ==
    ASSUME UNCHANGED <<setup, edits, secrets>>
    PROVE  /\ Tabs' = Tabs /\ Overlap' = Overlap
           /\ Secrets' = Secrets /\ Copies' = Copies /\ States' = States /\ Saves' = Saves
           /\ MaxEdits' = MaxEdits /\ MaxSecrets' = MaxSecrets
           /\ \A c : Loads(c)' = Loads(c)
<1>1. Tabs' = Tabs /\ Overlap' = Overlap /\ MaxEdits' = MaxEdits /\ MaxSecrets' = MaxSecrets
    BY DEF Tabs, Overlap, MaxEdits, MaxSecrets
<1>2. Secrets' = Secrets /\ Graphs' = Graphs
    BY <1>1 DEF Secrets, Graphs
<1>3. Copies' = Copies
    BY <1>2 DEF Copies
<1>4. States' = States
    BY <1>3 DEF States
<1>5. Saves' = Saves
    BY <1>1, <1>2, <1>3 DEF Saves
<1>6. \A c : Loads(c)' = Loads(c)
    BY <1>1, <1>3 DEF Loads
<1> QED
    BY <1>1, <1>2, <1>3, <1>4, <1>5, <1>6

LEMMA CallTypes ==
    ASSUME Typed, NEW c \in calls
    PROVE  /\ c.tab \in Tabs /\ c.copy \in Copies /\ c.at \in Stages
           /\ c.kind \in {"sync", "beacon", "fetch"}
           /\ IF c.kind = "fetch" THEN Loads(c) ELSE c \in Saves
BY DEF Typed, Saves, Loads, Stages

(* The only request of a tab that is left alone is the sync being made.    *)
LEMMA OnlySync ==
    ASSUME IInv, Calm, NEW c \in calls
    PROVE  /\ c.kind = "sync" /\ c \in Saves
           /\ \A d \in calls : d = c
           /\ \A t \in Tabs : t = c.tab
           /\ tab[c.tab].queue # <<>>
<1>1. \A d \in calls : d.kind = "sync" /\ d.tab = c.tab
    BY CallTypes DEF IInv, Unrefused, Calm
<1>2. c \in Saves /\ c.tab \in Tabs
    BY <1>1, CallTypes DEF IInv
<1> QED
    BY <1>1, <1>2 DEF IInv, Serial, Syncs, Calm

(* A sync is sent, or given up while a draft is loaded.                    *)
LEMMA PerformSyncInv == ASSUME IInv, NEW t \in Tabs, PerformSync(t) PROVE IInv'
<1> DEFINE w == tab[t]
           c == Call(t, "sync")
<1> USE DEF IInv
<1>1. /\ w \in States /\ w.queue # <<>> /\ Turn(t)
      /\ UNCHANGED <<setup, draft, edits, secrets, lost, hides, crossed>>
    BY DEF Typed, PerformSync, counts
<1>2. Counted' /\ Calm' = Calm
    BY <1>1, Same DEF Counted, Calm
<1>3. \A d \in calls : ~Syncs(d, t)
    BY <1>1 DEF Turn, Of, Syncs
<1>4. CASE w.loaded
  <2>1. calls' = calls \cup {c} /\ tab' = tab
      BY <1>4 DEF PerformSync
  <2>2. Absent \in Secrets
      BY Bounds DEF Counted, Secrets, Absent, Hidden
  <2>3. /\ c \in Saves /\ c.tab = t /\ c.kind = "sync" /\ c.copy = w.copy /\ c.at = "sent"
      BY <1>1, <2>2 DEF Call, Saves, States, Stages
  <2> HIDE DEF c
  <2>4. Typed'
      BY <1>1, <2>1, <2>3, Same DEF Typed, Graphs
  <2>5. Serial'
      BY <1>1, <1>3, <2>1, <2>3, Same DEF Serial, Syncs
  <2>6. Opening'
      BY <1>1, <2>1, Same DEF Opening
  <2>7. InTurn' /\ Honest'
      BY <1>1, <2>1, <2>3, Same DEF InTurn, Honest, Served
  <2>8. Unrefused' /\ Kept'
    <3> SUFFICES ASSUME Calm PROVE Unrefused' /\ Kept'
        BY <1>2 DEF Unrefused, Kept
    <3>1. calls = {}
        BY <1>3, OnlySync DEF Calm, Syncs, Typed, Saves
    <3>2. \A u \in Tabs : u = t
        BY DEF Calm
    <3>3. c.copy.hash = draft.graph
        BY <2>3, <3>1 DEF Unrefused
    <3>4. Unrefused'
        BY <1>1, <2>1, <2>3, <3>1, <3>2, <3>3, Same DEF Unrefused, Before
    <3>5. w.queue[1].secret => w.copy.secret # Absent
      <4>1. 1 \in 1 .. Len(w.queue)
          BY <1>1, EmptySeq, LenProperties DEF States
      <4> QED
          BY <4>1 DEF Kept
    <3>6. Kept'
        BY <1>1, <2>1, <2>3, <3>1, <3>2, <3>5, Same DEF Kept, Before
    <3> QED
        BY <3>4, <3>6
  <2> QED
      BY <1>2, <2>4, <2>5, <2>6, <2>7, <2>8
<1>5. CASE ~w.loaded
  <2>1. tab' = [tab EXCEPT ![t] = Settled(w)] /\ calls' = calls
      BY <1>5 DEF PerformSync
  <2>2. /\ Settled(w) \in States /\ Settled(w).loaded = w.loaded /\ Settled(w).layer = w.layer
        /\ Settled(w).copy.hash = w.copy.hash /\ Settled(w).copy.graph = w.copy.graph
      BY <1>1, SettledState
  <2>3. ~Calm
      BY <1>5 DEF Unrefused
  <2>4. Typed'
      BY <1>1, <2>1, <2>2, Same DEF Typed, Graphs
  <2>5. \A u \in Tabs : tab'[u] = IF u = t THEN Settled(w) ELSE tab[u]
      BY <2>1 DEF Typed
  <2>6. Serial'
      BY <1>1, <1>3, <2>1, <2>5, Same DEF Serial, Syncs
  <2>7. Opening'
      BY <1>1, <2>1, <2>2, <2>5, Same DEF Opening
  <2>8. InTurn' /\ Honest'
      BY <1>1, <2>1, <2>2, <2>5, Same DEF InTurn, Honest, Served
  <2>9. Unrefused' /\ Kept'
      BY <1>2, <2>3 DEF Unrefused, Kept
  <2> QED
      BY <1>2, <2>4, <2>6, <2>7, <2>8, <2>9
<1> QED
    BY <1>4, <1>5

(* A refresh loads the draft, a page that is hidden sends its copy.        *)
LEMMA RefreshInv == ASSUME IInv, NEW t \in Tabs, Refresh(t) PROVE IInv'
<1> DEFINE w   == tab[t]
           new == Refreshing(w)
           c   == Fetch(t)
<1> USE DEF IInv
<1>1. /\ w \in States /\ w.due > 0
      /\ tab' = [tab EXCEPT ![t] = new] /\ calls' = calls \cup {c}
      /\ UNCHANGED <<setup, draft, edits, secrets, lost, hides, crossed>>
    BY DEF Typed, Refresh, counts
<1>2. Counted' /\ Calm' = Calm /\ ~Calm
    BY <1>1, Same DEF Counted, Calm, Unrefused
<1>3. /\ new \in States /\ new.copy = w.copy /\ new.queue = w.queue /\ new.layer /\ ~new.loaded
  <2>1. w.due - 1 \in Nat
      BY <1>1 DEF States
  <2> QED
      BY <1>1, <2>1 DEF States, Refreshing
<1>4. /\ Loads(c) /\ c.tab = t /\ c.kind = "fetch" /\ c.at = "sent"
      /\ c.copy.hash = {} /\ c.wasLoaded = w.loaded
  <2>1. Absent \in Secrets
      BY Bounds DEF Counted, Secrets, Absent, Hidden
  <2>2. Loaded([graph |-> {}, secret |-> Absent]) = [graph |-> {}, hash |-> {}, secret |-> Absent]
      BY DEF Loaded
  <2>3. [graph |-> {}, hash |-> {}, secret |-> Absent] \in Copies
      BY <2>1 DEF Copies, Graphs
  <2>4. w.loaded \in BOOLEAN
      BY <1>1 DEF States
  <2> QED
      BY <2>2, <2>3, <2>4 DEF Fetch, Loads
<1> HIDE DEF c, new
<1>5. \A u \in Tabs : tab'[u] = IF u = t THEN new ELSE tab[u]
    BY <1>1 DEF Typed
<1>6. Typed'
  <2>1. tab' \in [Tabs -> States]
      BY <1>1, <1>3 DEF Typed
  <2>2. \A d \in calls' : d \in Saves \/ Loads(d)
      BY <1>1, <1>4 DEF Typed
  <2> QED
      BY <1>1, <2>1, <2>2, Same DEF Typed, Graphs
<1>7. Serial'
    BY <1>1, <1>3, <1>4, <1>5, Same DEF Serial, Syncs
<1>8. Opening'
  <2> SUFFICES ASSUME NEW u \in Tabs
               PROVE  /\ tab'[u].layer => \E d \in calls' : d.tab = u /\ d.kind = "fetch"
                      /\ ~tab'[u].loaded => \E d \in calls' : d.tab = u /\ d.kind = "fetch" /\ d.wasLoaded
      BY <1>1, Same DEF Opening
  <2>1. CASE u = t
      BY <1>1, <1>4, <2>1 DEF Opening
  <2>2. CASE u # t
      BY <1>1, <1>5, <2>2 DEF Opening
  <2> QED
      BY <2>1, <2>2
<1>9. InTurn' /\ Honest'
    BY <1>1, <1>3, <1>4, <1>5, Same DEF InTurn, Honest, Served
<1>10. Unrefused' /\ Kept'
    BY <1>2 DEF Unrefused, Kept
<1> QED
    BY <1>2, <1>6, <1>7, <1>8, <1>9, <1>10

LEMMA HideInv == ASSUME IInv, NEW t \in Tabs, Hide(t) PROVE IInv'
<1> DEFINE w   == tab[t]
           new == [w EXCEPT !.shown = FALSE]
           c   == Call(t, "beacon")
<1> USE DEF IInv
<1>1. /\ w \in States /\ hides \in Nat /\ hides' = hides + 1
      /\ tab' = [tab EXCEPT ![t] = new] /\ calls \subseteq calls' /\ calls' \subseteq calls \cup {c}
      /\ UNCHANGED <<setup, draft, edits, secrets, lost, crossed>>
    BY DEF Counted, Typed, Hide
<1>2. Counted' /\ ~Calm'
    BY <1>1, Same DEF Counted, Calm
<1>3. /\ new \in States /\ new.copy = w.copy /\ new.queue = w.queue
      /\ new.layer = w.layer /\ new.loaded = w.loaded
    BY <1>1 DEF States
<1>4. /\ c \in Saves /\ c.tab = t /\ c.kind = "beacon" /\ c.copy = w.copy /\ c.at = "sent"
  <2>1. Absent \in Secrets
      BY Bounds DEF Counted, Secrets, Absent, Hidden
  <2> QED
      BY <1>1, <2>1 DEF Call, Saves, States, Stages
<1> HIDE DEF c, new
<1>5. \A u \in Tabs : tab'[u] = IF u = t THEN new ELSE tab[u]
    BY <1>1 DEF Typed
<1>6. Typed'
  <2>1. tab' \in [Tabs -> States]
      BY <1>1, <1>3 DEF Typed
  <2>2. \A d \in calls' : d \in Saves \/ Loads(d)
      BY <1>1, <1>4 DEF Typed
  <2> QED
      BY <1>1, <2>1, <2>2, Same DEF Typed, Graphs
<1>7. Serial'
    BY <1>1, <1>3, <1>4, <1>5, Same DEF Serial, Syncs
<1>8. Opening'
    BY <1>1, <1>3, <1>5, Same DEF Opening
<1>9. InTurn' /\ Honest'
    BY <1>1, <1>3, <1>4, <1>5, Same DEF InTurn, Honest, Served
<1>10. Unrefused' /\ Kept'
    BY <1>2 DEF Unrefused, Kept
<1> QED
    BY <1>2, <1>6, <1>7, <1>8, <1>9, <1>10

-----------------------------------------------------------------------------
(* A request on its way: the tabs see nothing of it.                       *)
LEMMA MovesInv ==
    ASSUME IInv, NEW c \in calls, NEW d, Moves(c, d), d.tab = c.tab, d.kind = c.kind,
           IF c.kind = "fetch" THEN Loads(d) /\ d.wasLoaded = c.wasLoaded ELSE d \in Saves,
           draft' \in [graph : Graphs, secret : Secrets],
           UNCHANGED <<setup, tab, counts, crossed>>
    PROVE  Counted' /\ Typed' /\ Serial' /\ Opening'
<1> USE DEF IInv, counts, Moves
<1>1. Counted'
    BY Same DEF Counted
<1>2. Typed'
  <2>1. \A x \in calls' : x \in Saves \/ Loads(x)
      BY DEF Typed
  <2> QED
      BY <2>1, Same DEF Typed, Graphs
<1>3. Serial'
    BY Same DEF Serial, Syncs
<1>4. Opening'
  <2> SUFFICES ASSUME NEW t \in Tabs
               PROVE  /\ tab[t].layer => \E x \in calls' : x.tab = t /\ x.kind = "fetch"
                      /\ ~tab[t].loaded => \E x \in calls' : x.tab = t /\ x.kind = "fetch" /\ x.wasLoaded
      BY Same DEF Opening
  <2>1. ASSUME tab[t].layer PROVE \E x \in calls' : x.tab = t /\ x.kind = "fetch"
    <3>1. PICK x \in calls : x.tab = t /\ x.kind = "fetch"
        BY <2>1 DEF Opening
    <3> QED
        BY <3>1
  <2>2. ASSUME ~tab[t].loaded
        PROVE  \E x \in calls' : x.tab = t /\ x.kind = "fetch" /\ x.wasLoaded
    <3>1. PICK x \in calls : x.tab = t /\ x.kind = "fetch" /\ x.wasLoaded
        BY <2>2 DEF Opening
    <3> QED
        BY <3>1
  <2> QED
      BY <2>1, <2>2
<1> QED
    BY <1>1, <1>2, <1>3, <1>4

LEMMA CheckInv == ASSUME IInv, NEW c \in calls, Check(c) PROVE IInv'
<1> DEFINE d == IF Accepts(c) THEN [c EXCEPT !.at = "checked", !.origin = draft.secret]
                ELSE [c EXCEPT !.at = "refused"]
<1> USE DEF IInv
<1>1. /\ c \in Saves /\ c.at = "sent" /\ draft.secret \in Secrets
      /\ Moves(c, d) /\ UNCHANGED <<setup, draft, tab, counts, crossed>>
      /\ Overlap \/ \A x \in calls : ~Served(x)
    BY CallTypes DEF Check, Typed
<1>2. /\ d \in Saves /\ d.tab = c.tab /\ d.kind = c.kind /\ d.copy = c.copy
      /\ IF c.copy.hash = draft.graph THEN d.at = "checked" /\ d.origin = draft.secret
         ELSE d.at = "refused"
    BY <1>1 DEF Saves, Stages, Accepts
<1> HIDE DEF d
<1>3. Counted' /\ Typed' /\ Serial' /\ Opening'
  <2>1. draft' \in [graph : Graphs, secret : Secrets]
      BY <1>1 DEF Typed
  <2>2. c.kind # "fetch"
      BY <1>1 DEF Saves
  <2> QED
      BY <1>1, <1>2, <2>1, <2>2, MovesInv
<1>4. calls' = (calls \ {c}) \cup {d} /\ Calm' = Calm /\ Tabs' = Tabs /\ Overlap' = Overlap
    BY <1>1, Same DEF Moves, counts, Calm
<1>5. InTurn'
    BY <1>1, <1>4 DEF InTurn, Served
<1>6. Honest'
    BY <1>1, <1>2, <1>4 DEF Honest
<1>7. Unrefused' /\ Kept'
  <2> SUFFICES ASSUME Calm PROVE Unrefused' /\ Kept'
      BY <1>4 DEF Unrefused, Kept
  <2>1. /\ calls' = {d} /\ c.kind = "sync" /\ c.copy.hash = draft.graph
        /\ \A x \in calls : x = c
      BY <1>1, <1>4, OnlySync DEF Unrefused
  <2>2. Before(c) /\ Before(d) /\ d.at = "checked"
      BY <1>1, <1>2, <2>1 DEF Before
  <2>3. edits' = edits
      BY <1>1 DEF counts
  <2>4. Unrefused'
      BY <1>1, <1>2, <1>4, <2>1, <2>2, <2>3 DEF Unrefused, Before
  <2>5. Kept'
      BY <1>1, <1>2, <1>4, <2>1, <2>2 DEF Kept, Before
  <2> QED
      BY <2>4, <2>5
<1> QED
    BY <1>3, <1>5, <1>6, <1>7

LEMMA StoreInv == ASSUME IInv, NEW c \in calls, Store(c) PROVE IInv'
<1> DEFINE d == [c EXCEPT !.at = "stored"]
<1> USE DEF IInv
<1>1. /\ c.at = "checked" /\ Moves(c, d) /\ UNCHANGED <<setup, tab, counts, crossed>>
      /\ draft' = [graph |-> c.copy.graph, secret |-> Unhidden(c.copy.secret, c.origin)]
    BY DEF Store
<1>2. c \in Saves /\ c.kind # "fetch"
    BY <1>1, CallTypes DEF Loads, Saves
<1>3. d \in Saves /\ d.tab = c.tab /\ d.kind = c.kind /\ d.copy = c.copy /\ d.at = "stored"
    BY <1>2 DEF Saves, Stages
<1> HIDE DEF d
<1>4. Counted' /\ Typed' /\ Serial' /\ Opening'
  <2>1. c.copy.graph \in Graphs /\ c.copy.secret \in Secrets /\ c.origin \in Secrets
      BY <1>2 DEF Saves, Copies
  <2>2. draft' \in [graph : Graphs, secret : Secrets]
      BY <1>1, <2>1 DEF Unhidden
  <2> QED
      BY <1>1, <1>2, <1>3, <2>2, MovesInv
<1>5. calls' = (calls \ {c}) \cup {d} /\ Calm' = Calm /\ Tabs' = Tabs /\ Overlap' = Overlap
    BY <1>1, Same DEF Moves, counts, Calm
<1>6. InTurn'
    BY <1>1, <1>5 DEF InTurn, Served
<1>7. Honest'
    BY <1>1, <1>3, <1>5 DEF Honest, InTurn, Served
<1>8. Unrefused' /\ Kept'
  <2> SUFFICES ASSUME Calm PROVE Unrefused' /\ Kept'
      BY <1>5 DEF Unrefused, Kept
  <2>1. /\ calls' = {d} /\ d.kind = "sync" /\ \A u \in Tabs : u = c.tab
      BY <1>3, <1>5, OnlySync
  <2>2. Before(c) /\ ~Before(d)
      BY <1>1, <1>3 DEF Before
  <2>3. edits' = edits
      BY <1>1 DEF counts
  <2>4. Unrefused'
      BY <1>1, <1>3, <1>5, <2>1, <2>2, <2>3 DEF Unrefused, Before
  <2>5. /\ draft'.secret # Hidden
        /\ draft.secret # Absent => draft'.secret # Absent
        /\ (draft'.secret # Absent) <=> (c.copy.secret # Absent)
    <3>1. /\ c.origin = draft.secret /\ draft.secret # Hidden
          /\ c.copy.secret = Hidden => draft.secret # Absent
          /\ draft.secret # Absent => c.copy.secret # Absent
        BY <1>1, <2>2 DEF Kept
    <3> QED
        BY <1>1, <3>1 DEF Unhidden, Absent, Hidden
  <2>6. Kept'
      BY <1>1, <1>3, <1>5, <2>1, <2>2, <2>5 DEF Kept, Before
  <2> QED
      BY <2>4, <2>6
<1> QED
    BY <1>4, <1>6, <1>7, <1>8

LEMMA AnswerInv == ASSUME IInv, NEW c \in calls, Answer(c) PROVE IInv'
<1> DEFINE d == [c EXCEPT !.at = "answered", !.copy = Loaded(draft)]
<1> USE DEF IInv
<1>1. /\ c.at = "stored" \/ (c.kind = "fetch" /\ c.at = "sent")
      /\ Moves(c, d) /\ UNCHANGED <<setup, draft, tab, counts, crossed>>
    BY DEF Answer
<1>2. Loaded(draft) \in Copies /\ Loaded(draft).hash = draft.graph
  <2>1. Absent \in Secrets /\ Hidden \in Secrets
      BY Bounds DEF Counted, Secrets, Absent, Hidden
  <2> QED
      BY <2>1 DEF Typed, Copies, Loaded
<1>3. /\ d.tab = c.tab /\ d.kind = c.kind /\ d.copy.hash = draft.graph /\ d.at = "answered"
      /\ IF c.kind = "fetch" THEN Loads(d) /\ d.wasLoaded = c.wasLoaded ELSE d \in Saves
  <2>1. CASE c.kind = "fetch"
    <3>1. Loads(c)
        BY <2>1, CallTypes
    <3> QED
        BY <1>2, <2>1, <3>1 DEF Loads
  <2>2. CASE c.kind # "fetch"
    <3>1. c \in Saves
        BY <2>2, CallTypes
    <3> QED
        BY <1>2, <2>2, <3>1 DEF Saves, Stages
  <2> QED
      BY <2>1, <2>2
<1> HIDE DEF d
<1>4. Counted' /\ Typed' /\ Serial' /\ Opening'
  <2>1. draft' \in [graph : Graphs, secret : Secrets]
      BY <1>1 DEF Typed
  <2> QED
      BY <1>1, <1>3, <2>1, MovesInv
<1>5. calls' = (calls \ {c}) \cup {d} /\ Calm' = Calm /\ Tabs' = Tabs /\ Overlap' = Overlap
    BY <1>1, Same DEF Moves, counts, Calm
<1>6. InTurn' /\ Honest'
    BY <1>1, <1>3, <1>5 DEF InTurn, Honest, Served
<1>7. Unrefused' /\ Kept'
  <2> SUFFICES ASSUME Calm PROVE Unrefused' /\ Kept'
      BY <1>5 DEF Unrefused, Kept
  <2>1. /\ calls' = {d} /\ d.kind = "sync" /\ \A u \in Tabs : u = c.tab
      BY <1>3, <1>5, OnlySync
  <2>2. ~Before(c) /\ ~Before(d)
      BY <1>1, <1>3, <2>1 DEF Before
  <2>3. edits' = edits
      BY <1>1 DEF counts
  <2>4. Unrefused'
      BY <1>1, <1>3, <1>5, <2>1, <2>2, <2>3 DEF Unrefused, Before
  <2>5. Kept'
      BY <1>1, <1>3, <1>5, <2>1, <2>2 DEF Kept, Before
  <2> QED
      BY <2>4, <2>5
<1> QED
    BY <1>4, <1>6, <1>7

-----------------------------------------------------------------------------
(* The tab hears an answer, or that there is none.                         *)
LEMMA HeardState ==
    ASSUME IInv, NEW c \in calls, NEW w, w = tab[c.tab], NEW new, new = Heard(c, w)
    PROVE  /\ new \in States
           /\ c.kind = "fetch" => new.queue = w.queue /\ new.loaded /\ ~new.layer
           /\ c.kind # "fetch" => new.loaded = w.loaded /\ new.layer = w.layer
           /\ c.kind = "beacon" => new = w
           /\ c.kind = "sync" /\ c.at # "refused" =>
                 /\ new.queue = Tail(w.queue) /\ new.due = w.due /\ new.shown = w.shown
                 /\ new.copy.graph = w.copy.graph /\ new.copy.hash = c.copy.hash
                 /\ new.copy.secret = IF w.queue[1].secret THEN Hidden ELSE w.copy.secret
<1> USE DEF IInv
<1>1. w \in States /\ c.copy \in Copies /\ c.kind \in {"sync", "beacon", "fetch"}
    BY CallTypes DEF Typed
<1>2. CASE c.kind = "beacon"
    BY <1>1, <1>2 DEF Heard
<1>3. CASE c.kind = "fetch"
    BY <1>1, <1>3 DEF Heard, States
<1>4. CASE c.kind = "sync"
  <2>1. w.queue # <<>>
      BY <1>4, CallTypes DEF Serial, Syncs
  <2>2. CASE c.at = "refused"
    <3> DEFINE due == IF w.queue[1].quiet THEN w.due ELSE w.due + 1
               v   == [w EXCEPT !.due = due]
    <3>1. due \in Nat
        BY <1>1 DEF States
    <3>2. v \in States /\ v.queue = w.queue /\ v.loaded = w.loaded /\ v.layer = w.layer
        BY <1>1, <3>1 DEF States
    <3>3. new = Settled(v)
        BY <1>4, <2>2 DEF Heard
    <3> HIDE DEF v
    <3>4. new \in States /\ new.loaded = w.loaded /\ new.layer = w.layer
        BY <2>1, <3>2, <3>3, SettledState
    <3> QED
        BY <1>4, <2>2, <3>4
  <2>3. CASE c.at # "refused"
    <3> DEFINE copy == [w.copy EXCEPT !.hash = c.copy.hash]
               v    == [w EXCEPT !.copy = copy]
    <3>1. /\ copy \in Copies /\ copy.graph = w.copy.graph
          /\ copy.hash = c.copy.hash /\ copy.secret = w.copy.secret
        BY <1>1 DEF States, Copies
    <3>2. new = Settled(v)
        BY <1>4, <2>3 DEF Heard
    <3> HIDE DEF copy
    <3>3. /\ v \in States /\ v.queue = w.queue /\ v.loaded = w.loaded /\ v.layer = w.layer
          /\ v.due = w.due /\ v.shown = w.shown /\ v.copy = copy
        BY <1>1, <3>1 DEF States
    <3> HIDE DEF v
    <3>4. /\ new \in States /\ new.queue = Tail(w.queue) /\ new.loaded = w.loaded
          /\ new.layer = w.layer /\ new.due = w.due /\ new.shown = w.shown
          /\ new.copy.graph = w.copy.graph /\ new.copy.hash = c.copy.hash
          /\ new.copy.secret = IF w.queue[1].secret THEN Hidden ELSE w.copy.secret
        BY <2>1, <3>1, <3>2, <3>3, SettledState
    <3> QED
        BY <1>4, <3>4
  <2> QED
      BY <2>2, <2>3
<1> QED
    BY <1>1, <1>2, <1>3, <1>4

LEMMA HearInv == ASSUME IInv, NEW c \in calls, Hear(c) PROVE IInv'
<1> DEFINE t   == c.tab
           w   == tab[t]
           new == Heard(c, w)
<1> USE DEF IInv
<1>1. /\ c.at \in {"answered", "refused"} /\ t \in Tabs /\ w \in States
      /\ c.kind \in {"sync", "beacon", "fetch"}
      /\ tab' = [tab EXCEPT ![t] = new] /\ calls' = calls \ {c}
      /\ UNCHANGED <<setup, draft, edits, secrets, lost, hides>>
    BY CallTypes DEF Hear, Typed, counts
<1>2. /\ new \in States
      /\ c.kind = "fetch" => new.queue = w.queue /\ new.loaded /\ ~new.layer
      /\ c.kind # "fetch" => new.loaded = w.loaded /\ new.layer = w.layer
      /\ c.kind = "beacon" => new = w
      /\ c.kind = "sync" /\ c.at # "refused" =>
            /\ new.queue = Tail(w.queue) /\ new.due = w.due /\ new.shown = w.shown
            /\ new.copy.graph = w.copy.graph /\ new.copy.hash = c.copy.hash
            /\ new.copy.secret = IF w.queue[1].secret THEN Hidden ELSE w.copy.secret
    BY HeardState
<1> HIDE DEF new
<1>3. \A u \in Tabs : tab'[u] = IF u = t THEN new ELSE tab[u]
    BY <1>1 DEF Typed
<1>4. crossed' = (crossed \/ ~(new.copy.hash \subseteq new.copy.graph))
    BY <1>1, <1>3 DEF Hear
<1>5. Counted' /\ Calm' = Calm /\ Tabs' = Tabs /\ Overlap' = Overlap
  <2>1. crossed' \in BOOLEAN
      BY <1>4 DEF Counted
  <2> QED
      BY <1>1, <2>1, Same DEF Counted, Calm
<1>6. Typed'
  <2>1. tab' \in [Tabs -> States]
      BY <1>1, <1>2 DEF Typed
  <2> QED
      BY <1>1, <2>1, Same DEF Typed, Graphs
<1>7. Serial'
    BY <1>1, <1>2, <1>3, <1>5 DEF Serial, Syncs
<1>8. Opening'
  <2> SUFFICES ASSUME NEW u \in Tabs
               PROVE  /\ tab'[u].layer => \E x \in calls' : x.tab = u /\ x.kind = "fetch"
                      /\ ~tab'[u].loaded => \E x \in calls' : x.tab = u /\ x.kind = "fetch" /\ x.wasLoaded
      BY <1>5 DEF Opening
  <2>1. CASE u = t /\ c.kind = "fetch"
      BY <1>2, <1>3, <2>1
  <2>2. CASE ~(u = t /\ c.kind = "fetch")
    <3>1. tab'[u].layer = tab[u].layer /\ tab'[u].loaded = tab[u].loaded
        BY <1>2, <1>3, <2>2
    <3>2. \A x \in calls : x.tab = u /\ x.kind = "fetch" => x \in calls'
        BY <1>1, <2>2
    <3> QED
        BY <3>1, <3>2 DEF Opening
  <2> QED
      BY <2>1, <2>2
<1>9. InTurn' /\ Honest'
    BY <1>1, <1>3, <1>4, <1>5 DEF InTurn, Honest, Served
<1>10. Unrefused' /\ Kept'
  <2> SUFFICES ASSUME Calm PROVE Unrefused' /\ Kept'
      BY <1>5 DEF Unrefused, Kept
  <2>1. /\ calls' = {} /\ c.kind = "sync" /\ w.queue # <<>> /\ \A u \in Tabs : u = t
      BY <1>1, OnlySync
  <2>2. c.at = "answered" /\ ~Before(c) /\ c.copy.hash = draft.graph
      BY <1>1 DEF Unrefused, Before
  <2>3. Unrefused'
      BY <1>1, <1>2, <1>3, <1>5, <2>1, <2>2 DEF Unrefused
  <2>4. \A i \in 1 .. Len(new.queue) : \E j \in 1 .. Len(w.queue) : new.queue[i] = w.queue[j]
    <3>1. w.queue \in Seq(Queued) /\ new.queue = Tail(w.queue)
        BY <1>1, <1>2, <2>1, <2>2 DEF States
    <3>2. Len(Tail(w.queue)) = Len(w.queue) - 1 /\ Len(w.queue) \in Nat
        BY <2>1, <3>1, HeadTailProperties, LenProperties
    <3>3. \A i \in 1 .. Len(Tail(w.queue)) : Tail(w.queue)[i] = w.queue[i + 1]
        BY <2>1, <3>1, HeadTailProperties
    <3>4. \A i \in 1 .. Len(Tail(w.queue)) : i + 1 \in 1 .. Len(w.queue)
        BY <3>2
    <3> QED
        BY <3>1, <3>3, <3>4
  <2>5. new.copy.secret = IF w.queue[1].secret THEN Hidden ELSE w.copy.secret
      BY <1>2, <2>1, <2>2
  <2>6. /\ \A i \in 1 .. Len(new.queue) : new.queue[i].secret => new.copy.secret # Absent
        /\ new.copy.secret = Hidden => draft.secret # Absent
        /\ draft.secret # Absent => new.copy.secret # Absent
      BY <1>1, <2>2, <2>4, <2>5 DEF Kept, Absent, Hidden
  <2>7. Kept'
      BY <1>1, <1>3, <1>5, <2>1, <2>6 DEF Kept
  <2> QED
      BY <2>3, <2>7
<1> QED
    BY <1>5, <1>6, <1>7, <1>8, <1>9, <1>10

LEMMA LoseInv == ASSUME IInv, NEW c \in calls, Lose(c) PROVE IInv'
<1> DEFINE t    == c.tab
           w    == tab[t]
           open == [w EXCEPT !.loaded = w.loaded \/ c.wasLoaded, !.layer = FALSE]
           new  == IF c.kind = "sync" THEN Settled(w) ELSE IF c.kind = "fetch" THEN open ELSE w
<1> USE DEF IInv
<1>1. /\ t \in Tabs /\ w \in States /\ c.kind \in {"sync", "beacon", "fetch"}
      /\ calls' = calls \ {c} /\ lost \in Nat /\ lost' = lost + 1
      /\ UNCHANGED <<setup, draft, edits, secrets, hides, crossed>>
    BY CallTypes DEF Lose, Typed, Counted
<1>2. tab' = [tab EXCEPT ![t] = new]
    BY <1>1 DEF Lose, Typed
<1>3. /\ new \in States
      /\ new.copy.graph = w.copy.graph /\ new.copy.hash = w.copy.hash
      /\ c.kind # "sync" => new.queue = w.queue
      /\ c.kind = "fetch" => ~new.layer /\ new.loaded = (w.loaded \/ c.wasLoaded)
      /\ c.kind # "fetch" => new.loaded = w.loaded /\ new.layer = w.layer
  <2>1. CASE c.kind = "sync"
    <3>1. w.queue # <<>>
        BY <1>1, <2>1 DEF Serial, Syncs
    <3> QED
        BY <1>1, <2>1, <3>1, SettledState
  <2>2. CASE c.kind = "fetch"
    <3>1. c.wasLoaded \in BOOLEAN /\ w.loaded \in BOOLEAN
        BY <1>1, <2>2, CallTypes DEF Loads, States
    <3> QED
        BY <1>1, <2>2, <3>1 DEF States
  <2>3. CASE c.kind = "beacon"
      BY <1>1, <2>3
  <2> QED
      BY <1>1, <2>1, <2>2, <2>3
<1> HIDE DEF new, open
<1>4. \A u \in Tabs : tab'[u] = IF u = t THEN new ELSE tab[u]
    BY <1>1, <1>2 DEF Typed
<1>5. Counted' /\ ~Calm' /\ Tabs' = Tabs /\ Overlap' = Overlap
    BY <1>1, Same DEF Counted, Calm
<1>6. Typed'
  <2>1. tab' \in [Tabs -> States]
      BY <1>2, <1>3 DEF Typed
  <2> QED
      BY <1>1, <2>1, Same DEF Typed, Graphs
<1>7. Serial'
    BY <1>1, <1>3, <1>4, <1>5 DEF Serial, Syncs
<1>8. Opening'
  <2> SUFFICES ASSUME NEW u \in Tabs
               PROVE  /\ tab'[u].layer => \E x \in calls' : x.tab = u /\ x.kind = "fetch"
                      /\ ~tab'[u].loaded => \E x \in calls' : x.tab = u /\ x.kind = "fetch" /\ x.wasLoaded
      BY <1>5 DEF Opening
  <2>1. CASE u = t /\ c.kind = "fetch"
    <3>1. ~tab'[u].layer
        BY <1>3, <1>4, <2>1
    <3>2. ASSUME ~tab'[u].loaded
          PROVE  \E x \in calls' : x.tab = u /\ x.kind = "fetch" /\ x.wasLoaded
      <4>1. ~w.loaded /\ ~c.wasLoaded
          BY <1>3, <1>4, <2>1, <3>2
      <4>2. PICK x \in calls : x.tab = u /\ x.kind = "fetch" /\ x.wasLoaded
          BY <2>1, <4>1 DEF Opening
      <4> QED
          BY <1>1, <4>1, <4>2
    <3> QED
        BY <3>1, <3>2
  <2>2. CASE ~(u = t /\ c.kind = "fetch")
    <3>1. tab'[u].layer = tab[u].layer /\ tab'[u].loaded = tab[u].loaded
        BY <1>3, <1>4, <2>2
    <3>2. \A x \in calls : x.tab = u /\ x.kind = "fetch" => x \in calls'
        BY <1>1, <2>2
    <3> QED
        BY <3>1, <3>2 DEF Opening
  <2> QED
      BY <2>1, <2>2
<1>9. InTurn' /\ Honest'
    BY <1>1, <1>3, <1>4, <1>5 DEF InTurn, Honest, Served
<1>10. Unrefused' /\ Kept'
    BY <1>5 DEF Unrefused, Kept
<1> QED
    BY <1>5, <1>6, <1>7, <1>8, <1>9, <1>10

-----------------------------------------------------------------------------
LEMMA StutterInv == ASSUME IInv, UNCHANGED vars PROVE IInv'
<1>1. /\ UNCHANGED <<setup, draft, tab, calls, edits, secrets, lost, hides, crossed>>
    BY DEF vars, counts
<1>2. Counted' /\ Typed'
    BY <1>1, Same DEF IInv, Counted, Typed, Graphs
<1>3. Serial' /\ Opening' /\ InTurn' /\ Honest'
    BY <1>1, Same DEF IInv, Serial, Syncs, Opening, InTurn, Honest, Served
<1>4. Calm' = Calm
    BY <1>1, Same DEF Calm
<1>5. Unrefused' /\ Kept'
    BY <1>1, <1>4, Same DEF IInv, Unrefused, Kept, Before
<1> QED
    BY <1>2, <1>3, <1>5 DEF IInv

LEMMA NextInv == ASSUME IInv, [Next]_vars PROVE IInv'
<1>1. CASE UNCHANGED vars
    BY <1>1, StutterInv
<1>2. ASSUME NEW t \in Tabs, NEW atOnce \in BOOLEAN, Edit(t, atOnce) PROVE IInv'
    BY <1>2, EditInv
<1>3. ASSUME NEW t \in Tabs, SaveSecret(t) \/ Debounced(t) \/ PerformSync(t) PROVE IInv'
    BY <1>3, SaveSecretInv, DebouncedInv, PerformSyncInv
<1>4. ASSUME NEW t \in Tabs, Refresh(t) \/ Hide(t) \/ Show(t) PROVE IInv'
    BY <1>4, RefreshInv, HideInv, ShowInv
<1>5. ASSUME NEW c \in calls, Check(c) \/ Store(c) \/ Answer(c) PROVE IInv'
    BY <1>5, CheckInv, StoreInv, AnswerInv
<1>6. ASSUME NEW c \in calls, Hear(c) \/ Lose(c) PROVE IInv'
    BY <1>6, HearInv, LoseInv
<1> QED
    BY <1>1, <1>2, <1>3, <1>4, <1>5, <1>6 DEF Next

LEMMA Invariance == Spec => []IInv
BY InitInv, NextInv, PTL DEF Spec

(* The draft, the copies and the requests have their types, whatever tabs  *)
(* there are, and an editor is closed only while a draft is on its way.    *)
THEOREM DraftIsTyped == Spec => []TypeOK
<1>1. IInv => TypeOK
  <2> SUFFICES ASSUME IInv PROVE TypeOK
      OBVIOUS
  <2> USE DEF IInv
  <2>1. /\ MaxEdits \in Nat /\ MaxSecrets \in Nat /\ edits \in 0 .. MaxEdits
        /\ Secrets = Hidden .. MaxSecrets
      BY Bounds DEF Counted, Secrets
  <2>2. draft.graph \subseteq Edits /\ draft.secret \in Hidden .. MaxSecrets
      BY <2>1 DEF Typed, Graphs, Edits
  <2>3. \A t \in Tabs : /\ tab[t].copy.graph \subseteq 1 .. edits
                        /\ tab[t].copy.hash \subseteq 1 .. edits
                        /\ tab[t].copy.secret \in Hidden .. MaxSecrets
                        /\ tab[t].due \in Nat
      BY <2>1 DEF Typed, States, Copies, Graphs
  <2>4. \A t \in Tabs : /\ tab[t].layer => Of(t, "fetch") # {}
                        /\ ~tab[t].loaded => \E c \in Of(t, "fetch") : c.wasLoaded
      BY DEF Opening, Of
  <2>5. \A c \in calls : /\ c.tab \in Tabs /\ c.kind \in {"sync", "beacon", "fetch"}
                         /\ c.at \in {"sent", "checked", "stored", "answered", "refused"}
      BY CallTypes DEF Stages
  <2> QED
      BY <2>2, <2>3, <2>4, <2>5 DEF TypeOK
<1> QED
    BY <1>1, Invariance, PTL

(* Only a request that is stored changes the draft.                        *)
LEMMA OnlyStores ==
    ASSUME IInv, [Next]_vars, draft' # draft
    PROVE  \E c \in calls : Store(c)
<1>1. ASSUME NEW t \in Tabs, NEW atOnce \in BOOLEAN, Edit(t, atOnce) PROVE draft' = draft
    BY <1>1 DEF Edit
<1>2. ASSUME NEW t \in Tabs, SaveSecret(t) \/ Debounced(t) \/ PerformSync(t) PROVE draft' = draft
    BY <1>2 DEF SaveSecret, Debounced, PerformSync
<1>3. ASSUME NEW t \in Tabs, Refresh(t) \/ Hide(t) \/ Show(t) PROVE draft' = draft
    BY <1>3 DEF Refresh, Hide, Show
<1>4. ASSUME NEW c \in calls, Check(c) \/ Answer(c) \/ Hear(c) \/ Lose(c) PROVE draft' = draft
    BY <1>4 DEF Check, Answer, Hear, Lose
<1>5. UNCHANGED vars => draft' = draft
    BY DEF vars
<1> QED
    BY <1>1, <1>2, <1>3, <1>4, <1>5 DEF Next

(* An edit the draft holds is overwritten only if requests overlap, or     *)
(* after a tab was given the hash of a graph it does not show.             *)
THEOREM EditsStayInTurn == Spec => EditsSurviveInTurn
<1>1. ASSUME IInv, [Next]_vars, ~Overlap, ~crossed
      PROVE  draft.graph \subseteq draft'.graph
  <2>1. CASE draft' = draft
      BY <2>1
  <2>2. CASE draft' # draft
    <3>1. PICK c \in calls : Store(c)
        BY <1>1, <2>2, OnlyStores
    <3>2. c.at = "checked" /\ draft'.graph = c.copy.graph
        BY <3>1 DEF Store
    <3>3. c.copy.hash \subseteq c.copy.graph /\ c.copy.hash = draft.graph
        BY <1>1, <3>2 DEF IInv, Honest
    <3> QED
        BY <3>2, <3>3
  <2> QED
      BY <2>1, <2>2
<1>2. IInv /\ [Next]_vars => [~Overlap /\ ~crossed => draft.graph \subseteq draft'.graph]_vars
    BY <1>1
<1> QED
    BY <1>2, Invariance, PTL DEF Spec, EditsSurviveInTurn

(* No refresh takes an edit away from a tab that is left alone.            *)
THEOREM EditsStayInTheTab == Spec => []OneTabKeepsEdits
<1>1. IInv => OneTabKeepsEdits
    BY DEF IInv, Unrefused, OneTabKeepsEdits
<1> QED
    BY <1>1, Invariance, PTL

(* Nor is the placeholder stored in the place of its secret,               *)
THEOREM SecretStaysReal == Spec => []SecretIsReal
<1>1. IInv => SecretIsReal
    BY DEF IInv, Kept, SecretIsReal
<1> QED
    BY <1>1, Invariance, PTL

(* or the secret dropped with what hides it.                               *)
THEOREM SecretStays == Spec => SecretSurvives
<1>1. ASSUME IInv, [Next]_vars, Calm, draft.secret # Absent
      PROVE  draft'.secret # Absent
  <2>1. CASE draft' = draft
      BY <1>1, <2>1
  <2>2. CASE draft' # draft
    <3>1. PICK c \in calls : Store(c)
        BY <1>1, <2>2, OnlyStores
    <3>2. c.at = "checked" /\ draft'.secret = Unhidden(c.copy.secret, c.origin)
        BY <3>1 DEF Store
    <3>3. c.copy.secret # Absent
        BY <1>1, <3>2 DEF IInv, Kept, Before
    <3> QED
        BY <3>2, <3>3 DEF Unhidden
  <2> QED
      BY <2>1, <2>2
<1>2. IInv /\ [Next]_vars => [Calm /\ draft.secret # Absent => draft'.secret # Absent]_vars
    BY <1>1
<1> QED
    BY <1>2, Invariance, PTL DEF Spec, SecretSurvives
=============================================================================

------------------------------ MODULE DraftSync ------------------------------
(***************************************************************************)
(* The draft of a workflow in the Dify editor: each browser tab edits a    *)
(* copy of it and saves the whole copy, after a pause, at once, or as the  *)
(* page is hidden; the API accepts a copy whose hash is that of the draft  *)
(* it holds.  Tabs, requests and answers interleave.                       *)
(*                                                                         *)
(* A graph is the set of the edits made to it, and is its own hash.  Of    *)
(* the variables, which the hash does not cover, there is one, a secret:   *)
(* a number, or the placeholder that hides it from the browser.            *)
(***************************************************************************)
EXTENDS Integers, Sequences, FiniteSets

CONSTANTS Setups   \* records: tabs; edits, secrets, losses and hides, bounds: edits
                   \* made, secrets entered, requests and answers that are lost,
                   \* times a tab is hidden; overlap, FALSE if the API serves one
                   \* request for a draft at a time

ASSUME DraftAssumption ==
    \A s \in Setups : /\ {s.edits, s.secrets, s.losses, s.hides} \subseteq Nat
                      /\ s.overlap \in BOOLEAN

VARIABLES setup,     \* what this instance is about
          draft,     \* the draft in the database: graph, secret
          tab,       \* the state of each tab
          calls,     \* requests and answers under way
          edits, secrets, lost, hides,   \* how many there have been
          crossed    \* (history variable) a tab was told of the success of a sync
                     \* after it had loaded a draft without what the sync saved

counts == <<edits, secrets, lost, hides>>
vars == <<setup, draft, tab, calls, counts, crossed>>

AllTabs == UNION {s.tabs : s \in Setups}
Tabs == setup.tabs
MaxEdits == setup.edits
MaxSecrets == setup.secrets
MaxLost == setup.losses
MaxHides == setup.hides
Overlap == setup.overlap
Absent == 0
Hidden == -1    \* '[__HIDDEN__]'
Edits == 1 .. MaxEdits

(* loaded: isWorkflowDataLoaded.  layer: isSyncingWorkflowDraft, a layer    *)
(* over the editor.  queue: the syncs waiting for their turn, the first    *)
(* one being made.  due: refreshes to come, of refusals that are being     *)
(* read and of the page being shown again.                                 *)
Loaded(d) == [graph |-> d.graph, hash |-> d.graph,
              secret |-> IF d.secret = Absent THEN Absent ELSE Hidden]
Init == /\ setup \in Setups
        /\ draft = [graph |-> {}, secret |-> Absent]
        /\ tab = [t \in Tabs |-> [copy |-> Loaded(draft), loaded |-> TRUE, layer |-> FALSE,
                                  timer |-> FALSE, queue |-> <<>>, due |-> 0, shown |-> TRUE]]
        /\ calls = {}
        /\ edits = 0 /\ secrets = 0 /\ lost = 0 /\ hides = 0
        /\ crossed = FALSE

Of(t, kind) == {c \in calls : c.tab = t /\ c.kind = kind}
Call(t, kind) == [tab |-> t, kind |-> kind, copy |-> tab[t].copy, origin |-> Absent, at |-> "sent"]
Fetch(t) == [tab |-> t, kind |-> "fetch", copy |-> Loaded([graph |-> {}, secret |-> Absent]),
             wasLoaded |-> tab[t].loaded, at |-> "sent",
             nr |-> CHOOSE n \in 0 .. Cardinality(Of(t, "fetch")) : \A c \in Of(t, "fetch") : c.nr # n]
Moves(c, d) == calls' = (calls \ {c}) \cup {d}
Sync(quiet, secret) == [quiet |-> quiet, secret |-> secret]

-----------------------------------------------------------------------------
(* Gestures.  While a draft is loaded a layer over the editor takes them.  *)
CanEdit(t) == tab[t].shown /\ ~tab[t].layer

(* An edit is saved five seconds after the last one, or at once and then   *)
(* without a refresh when it is refused.                                   *)
\* Mutant: the timer is not set.
EditUnsaved(t, atOnce) ==
    /\ CanEdit(t) /\ edits < MaxEdits
    /\ edits' = edits + 1
    /\ tab' = [tab EXCEPT ![t].copy.graph = @ \cup {edits'}]
    /\ UNCHANGED <<setup, draft, calls, secrets, lost, hides, crossed>>
Edit(t, atOnce) ==
    /\ CanEdit(t) /\ edits < MaxEdits
    /\ edits' = edits + 1
    /\ tab' = [tab EXCEPT ![t].copy.graph = @ \cup {edits'},
                          ![t].timer = @ \/ ~atOnce,
                          ![t].queue = IF atOnce THEN Append(@, Sync(TRUE, FALSE)) ELSE @]
    /\ UNCHANGED <<setup, draft, calls, secrets, lost, hides, crossed>>

SaveSecret(t) ==
    /\ CanEdit(t) /\ secrets < MaxSecrets
    /\ secrets' = secrets + 1
    /\ tab' = [tab EXCEPT ![t].copy.secret = secrets',
                          ![t].queue = Append(@, Sync(FALSE, TRUE))]
    /\ UNCHANGED <<setup, draft, calls, edits, lost, hides, crossed>>

Debounced(t) ==
    /\ tab[t].timer
    /\ tab' = [tab EXCEPT ![t].timer = FALSE, ![t].queue = Append(@, Sync(FALSE, FALSE))]
    /\ UNCHANGED <<setup, draft, calls, counts, crossed>>

-----------------------------------------------------------------------------
(* Syncs of a tab are made one after the other; each sends the copy as it  *)
(* is when its turn comes, and none while the draft is being loaded.       *)
(* A secret is hidden once its sync is over, however it went.              *)
\* Mutant: the variable is dropped from the list with its value.
SettledDrops(w) == [w EXCEPT !.queue = Tail(@),
                             !.copy.secret = IF w.queue[1].secret THEN Absent ELSE @]
Settled(w) == [w EXCEPT !.queue = Tail(@),
                        !.copy.secret = IF w.queue[1].secret THEN Hidden ELSE @]
\* Mutant: a sync does not wait for the one before.
AnyTurn(t) == Cardinality(Of(t, "sync")) < Len(tab[t].queue)
Turn(t) == Of(t, "sync") = {}
PerformSync(t) ==
    /\ tab[t].queue # <<>> /\ Turn(t)
    /\ IF tab[t].loaded
       THEN calls' = calls \cup {Call(t, "sync")} /\ UNCHANGED tab
       ELSE tab' = [tab EXCEPT ![t] = Settled(@)] /\ UNCHANGED calls
    /\ UNCHANGED <<setup, draft, counts, crossed>>

(* A refresh takes the draft of the API in place of the copy; it does not  *)
(* wait for another one, nor for a sync under way.                         *)
Refreshing(w) == [w EXCEPT !.timer = FALSE, !.loaded = FALSE, !.layer = TRUE, !.due = @ - 1]
\* Mutant: a draft that is being loaded is loaded no more.
RefreshAlone(t) ==
    /\ tab[t].due > 0
    /\ tab' = [tab EXCEPT ![t] = Refreshing(@)]
    /\ calls' = (calls \ Of(t, "fetch")) \cup {Fetch(t)}
    /\ UNCHANGED <<setup, draft, counts, crossed>>
Refresh(t) ==
    /\ tab[t].due > 0
    /\ tab' = [tab EXCEPT ![t] = Refreshing(@)]
    /\ calls' = calls \cup {Fetch(t)}
    /\ UNCHANGED <<setup, draft, counts, crossed>>

(* A page that is hidden sends its copy and does not wait for an answer;   *)
(* one that is shown again loads the draft half a second later.            *)
Hide(t) ==
    /\ tab[t].shown /\ hides < MaxHides /\ Of(t, "beacon") = {}
    /\ hides' = hides + 1
    /\ tab' = [tab EXCEPT ![t].shown = FALSE]
    /\ calls' = IF tab[t].loaded THEN calls \cup {Call(t, "beacon")} ELSE calls
    /\ UNCHANGED <<setup, draft, edits, secrets, lost, crossed>>
Show(t) ==
    /\ ~tab[t].shown
    /\ tab' = [tab EXCEPT ![t].shown = TRUE, ![t].due = @ + 1]
    /\ UNCHANGED <<setup, draft, calls, counts, crossed>>

-----------------------------------------------------------------------------
(* The API.  It reads the draft and compares the hash, writes graph and    *)
(* variables, and computes the hash it answers from what it reads back.    *)
Served(c) == c.at \in {"checked", "stored"}
\* Mutant: the hash is not compared.
AcceptsAny(c) == TRUE
Accepts(c) == c.copy.hash = draft.graph
Check(c) ==
    /\ c.kind # "fetch" /\ c.at = "sent"
    /\ Overlap \/ \A d \in calls : ~Served(d)
    /\ Moves(c, IF Accepts(c)
                THEN [c EXCEPT !.at = "checked", !.origin = draft.secret]
                ELSE [c EXCEPT !.at = "refused"])
    /\ UNCHANGED <<setup, draft, tab, counts, crossed>>

(* The placeholder stands for the secret the API read with the draft.      *)
\* Mutant: what is sent is stored.
AsSent(secret, origin) == secret
Unhidden(secret, origin) == IF secret = Hidden /\ origin # Absent THEN origin ELSE secret
Store(c) ==
    /\ c.at = "checked"
    /\ draft' = [graph |-> c.copy.graph, secret |-> Unhidden(c.copy.secret, c.origin)]
    /\ Moves(c, [c EXCEPT !.at = "stored"])
    /\ UNCHANGED <<setup, tab, counts, crossed>>

Answer(c) ==
    /\ c.at = "stored" \/ (c.kind = "fetch" /\ c.at = "sent")
    /\ Moves(c, [c EXCEPT !.at = "answered", !.copy = Loaded(draft)])
    /\ UNCHANGED <<setup, draft, tab, counts, crossed>>

-----------------------------------------------------------------------------
(* The tab hears the answer.  The layer goes away with any load, the editor *)
(* counts as loaded again when one has come, or the one that it was for.    *)
\* Mutant: the editor stays closed after a load.
HeardClosed(c, w) ==
    IF c.kind = "beacon" THEN w
    ELSE IF c.kind = "fetch" THEN [w EXCEPT !.copy = c.copy, !.layer = FALSE]
    ELSE IF c.at = "refused" THEN Settled([w EXCEPT !.due = @ + 1])
    ELSE Settled([w EXCEPT !.copy.hash = c.copy.hash])
Heard(c, w) ==
    IF c.kind = "beacon" THEN w
    ELSE IF c.kind = "fetch" THEN [w EXCEPT !.copy = c.copy, !.loaded = TRUE, !.layer = FALSE]
    ELSE IF c.at = "refused"
         THEN Settled([w EXCEPT !.due = IF w.queue[1].quiet THEN @ ELSE @ + 1])
         ELSE Settled([w EXCEPT !.copy.hash = c.copy.hash])
Hear(c) ==
    /\ c.at \in {"answered", "refused"}
    /\ tab' = [tab EXCEPT ![c.tab] = Heard(c, @)]
    /\ calls' = calls \ {c}
    /\ crossed' = (crossed \/ ~(tab'[c.tab].copy.hash \subseteq tab'[c.tab].copy.graph))
    /\ UNCHANGED <<setup, draft, counts>>

(* A request is lost on its way, or its answer is.                         *)
Lose(c) ==
    /\ ~Served(c) /\ lost < MaxLost
    /\ lost' = lost + 1
    /\ calls' = calls \ {c}
    /\ tab' = IF c.kind = "sync" THEN [tab EXCEPT ![c.tab] = Settled(@)]
              ELSE IF c.kind = "fetch"
              THEN [tab EXCEPT ![c.tab].loaded = @ \/ c.wasLoaded, ![c.tab].layer = FALSE]
              ELSE tab
    /\ UNCHANGED <<setup, draft, edits, secrets, hides, crossed>>

Next == \/ \E t \in Tabs : \/ \E atOnce \in BOOLEAN : Edit(t, atOnce)
                           \/ SaveSecret(t) \/ Debounced(t) \/ PerformSync(t)
                           \/ Refresh(t) \/ Hide(t) \/ Show(t)
        \/ \E c \in calls : Check(c) \/ Store(c) \/ Answer(c) \/ Hear(c) \/ Lose(c)
Spec == Init /\ [][Next]_vars

(* Timers fire, the queue moves on and the API answers.                    *)
Goes(t, Step(_)) == t \in Tabs /\ Step(t)
Fairness == /\ \A t \in AllTabs : /\ WF_vars(Goes(t, Debounced)) /\ WF_vars(Goes(t, PerformSync))
                                 /\ WF_vars(Goes(t, Refresh))
            /\ WF_vars(\E c \in calls : Check(c) \/ Store(c) \/ Answer(c) \/ Hear(c))
FairSpec == Spec /\ Fairness
-----------------------------------------------------------------------------
(* The types of the state; the editor is closed only while a draft is on   *)
(* its way to open it.                                                     *)
TypeOK ==
    /\ draft.graph \subseteq Edits /\ draft.secret \in Hidden .. MaxSecrets
    /\ \A t \in Tabs : /\ tab[t].copy.graph \subseteq 1 .. edits
                       /\ tab[t].copy.hash \subseteq 1 .. edits
                       /\ tab[t].copy.secret \in Hidden .. MaxSecrets
                       /\ tab[t].due \in Nat
                       /\ tab[t].layer => Of(t, "fetch") # {}
                       /\ ~tab[t].loaded => \E c \in Of(t, "fetch") : c.wasLoaded
    /\ \A c \in calls : /\ c.tab \in Tabs /\ c.kind \in {"sync", "beacon", "fetch"}
                        /\ c.at \in {"sent", "checked", "stored", "answered", "refused"}

(* An edit that the draft holds is not overwritten by a copy without it.   *)
EditsSurvive == [][draft.graph \subseteq draft'.graph]_vars

(* With any number of tabs, whatever is refused, refreshed, hidden or      *)
(* lost: an edit that the draft holds is overwritten only when the API     *)
(* serves two requests at a time, or after a tab was given the hash of a   *)
(* graph in whose place it had loaded an older one.                        *)
EditsSurviveInTurn ==
    [][~Overlap /\ ~crossed => draft.graph \subseteq draft'.graph]_vars

(* One tab, shown all the time, of which no request was lost: what the     *)
(* hash does not protect is safe.                                          *)
Calm == hides = 0 /\ lost = 0 /\ \A t, u \in Tabs : t = u

(* A secret that the draft holds does not vanish: no tab deletes it.       *)
SecretSurvives == [][Calm /\ draft.secret # Absent => draft'.secret # Absent]_vars

(* The placeholder is never stored as the secret.                          *)
SecretIsReal == Calm => draft.secret # Hidden

(* No refresh takes away an edit that was made.                            *)
OneTabKeepsEdits == Calm => \A t \in Tabs : tab[t].copy.graph = 1 .. edits

(* The layer that takes the gestures goes away, also when a load fails,    *)
(* and the copy is one that can be saved.                                  *)
Open(t) == tab[t].loaded /\ ~tab[t].layer
EditorOpens == \A t \in AllTabs : (t \in Tabs /\ ~Open(t)) ~> (t \in Tabs /\ Open(t))

(* No edit stays in the tab unsaved for ever.                              *)
EditsAreSaved == \A e \in UNION {1 .. s.edits : s \in Setups} :
    (Calm /\ edits >= e) ~> (e \in draft.graph \/ ~Calm)
=============================================================================

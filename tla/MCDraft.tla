-------------------------------- MODULE MCDraft --------------------------------
(***************************************************************************)
(* The draft of a workflow edited in one tab, in two, or in one that is    *)
(* hidden and shown.                                                       *)
(***************************************************************************)
EXTENDS DraftSync

CONSTANTS t1, t2

OneTab == [tabs |-> {t1}, edits |-> 3, secrets |-> 1, losses |-> 1, hides |-> 0,
           overlap |-> TRUE]
TwoTabs == [tabs |-> {t1, t2}, edits |-> 3, secrets |-> 1, losses |-> 0, hides |-> 0,
            overlap |-> FALSE]
TabHidden == [tabs |-> {t1}, edits |-> 2, secrets |-> 0, losses |-> 1, hides |-> 1,
              overlap |-> FALSE]
SafeSetups == {OneTab, TwoTabs, TabHidden}

\* Two tabs, whose requests the API may serve at the same time.
OverlapSetups == {[TwoTabs EXCEPT !.overlap = TRUE, !.secrets = 0]}
=============================================================================

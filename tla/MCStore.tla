-------------------------------- MODULE MCStore --------------------------------
(* CanvasStore with both kinds of store, and the file also shared. *)
EXTENDS CanvasStore, TLC

CONSTANTS c1, c2, e1, e2, i1, i2

TwoClients == {c1, c2}
Database   == [wholeFile |-> FALSE, processes |-> {"api", "worker"}]
FileOfApi  == [wholeFile |-> TRUE, processes |-> {"api"}]
SharedFile == [wholeFile |-> TRUE, processes |-> {"api", "worker"}]
AllSetups  == {Database, FileOfApi, SharedFile}
TwoItems   == {i1, i2}
TwoEdits   == {e1, e2}
Symmetry   == Permutations(TwoClients) \cup Permutations(TwoEdits) \cup Permutations(TwoItems)
===============================================================================

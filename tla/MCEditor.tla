------------------------------- MODULE MCEditor -------------------------------
(***************************************************************************)
(* The canvas of the browser on small instances: a few milliseconds in     *)
(* which something is created or done, two runs.                           *)
(***************************************************************************)
EXTENDS CanvasEditor
TwoRuns == {1, 2}
Patience == [patient |-> TRUE, time |-> 4]
Haste == [patient |-> FALSE, time |-> 3]
BothUsers == {Patience, Haste}
=============================================================================

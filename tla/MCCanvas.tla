------------------------------- MODULE MCCanvas -------------------------------
(* CanvasRun with one or two runs and workers. *)
EXTENDS CanvasRun

CONSTANTS r1, r2, w1, w2

OneRun     == {r1}
TwoRuns    == {r1, r2}
OneWorker  == {w1}
TwoWorkers == {w1, w2}
===============================================================================

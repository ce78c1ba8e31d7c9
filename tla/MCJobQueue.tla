----------------------------- MODULE MCJobQueue -----------------------------
(* Small instances of JobQueue.                                            *)
EXTENDS JobQueue

CONSTANTS w1, w2

TwoWorkers  == {w1, w2}
TwoJobs     == {1, 2}
ThreeJobs   == {1, 2, 3}
NoWorkers   == {}
JustW1      == {w1}
FirstJob    == {1}
=============================================================================

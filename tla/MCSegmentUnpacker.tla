-------------------------- MODULE MCSegmentUnpacker --------------------------
(* An instance of SegmentUnpacker for TLC: one worker, or a pool of two. *)
EXTENDS SegmentUnpacker
CONSTANTS j1, j2, w1, w2
TwoWorkers == {w1, w2}
TwoJobs == {j1, j2}
OneOrTwo == {{w1}, {w1, w2}}
=============================================================================

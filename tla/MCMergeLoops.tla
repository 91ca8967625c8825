---------------------------- MODULE MCMergeLoops ----------------------------
(* A small instance of MergeLoops for TLC.                                 *)
EXTENDS MergeLoops

\* Values before and at the first stamp, which the second one leaves out of
\* the span; more objects than the depth, so that lists hold one twice.
ValueTimes == {0, 1}

StatsStamps == {1, 4}
=============================================================================

---------------------------- MODULE MCCoreStats ----------------------------
(* The instances of MCPublisher with the counters kept beside them.        *)
EXTENDS CoreStats, MCPublisher

\* Enough for every object to be allocated by a batch of its own, with
\* metrics to spare for batches of two.
ManyReceived == 8
=============================================================================

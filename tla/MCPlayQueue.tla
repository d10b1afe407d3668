---------------------------- MODULE MCPlayQueue ----------------------------
(* PlayQueue on a queue of three frames and two interchangeable transfers.   *)
EXTENDS PlayQueue, TLC

Interchangeable == Permutations(Transfers)
=============================================================================

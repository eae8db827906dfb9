---------------------------- MODULE MCRangeLock ----------------------------
(* RangeLock for TLC: the threads are interchangeable. *)
EXTENDS RangeLock, TLC

ThreadSymmetry == Permutations(Threads)
=============================================================================

---------------------------- MODULE MCMutexEvent ----------------------------
(* MutexEventHistory on a few threads, which are interchangeable.          *)
EXTENDS MutexEventHistory, TLC

ThreadSymmetry == Permutations(Threads)

=============================================================================

-------------------------- MODULE MCThreadLifecycle -------------------------
(* ThreadLifecycle with the callers, calls and timeouts of the runs.  The  *)
(* callers are interchangeable.                                            *)
EXTENDS ThreadLifecycle, TLC

CallerSymmetry == Permutations(Callers)

=============================================================================

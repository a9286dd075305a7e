--------------------------- MODULE MCLockingQueue ---------------------------
(* LockingQueueHistory on a few threads and elements.  No symmetry: the    *)
(* run checks liveness and a refinement.                                   *)
EXTENDS LockingQueueHistory

=============================================================================

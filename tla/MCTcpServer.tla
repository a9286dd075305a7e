----------------------------- MODULE MCTcpServer ----------------------------
(* TcpServer with a few client addresses.  No symmetry: the run checks     *)
(* liveness.                                                               *)
EXTENDS TcpServer

=============================================================================

------------------------------ MODULE MCRouter ------------------------------
(* PathRouter on a few routes.                                             *)
EXTENDS PathRouter, RoutingProblems

=============================================================================

----------------------------- MODULE MCJobQueue -----------------------------
(* A small instance of JobQueue for TLC. *)
EXTENDS JobQueue, TLC

CONSTANTS api, worker, j1, j2
=============================================================================

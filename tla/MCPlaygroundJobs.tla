-------------------------- MODULE MCPlaygroundJobs --------------------------
(* Model values for checking PlaygroundJobs with TLC. *)
EXTENDS PlaygroundJobs, TLC

CONSTANTS j1, j2, d1, d2
=============================================================================

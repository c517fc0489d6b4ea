--------------------------- MODULE MCWorkerLease ---------------------------
(* Two pids of one host. *)
EXTENDS WorkerLease
CONSTANTS w1, w2
============================================================================

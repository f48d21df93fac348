---------------------------- MODULE MCWorkerJobs ----------------------------
(* Two workers and two jobs: a lease can be lost to another worker while a *)
(* second job keeps the first worker busy.  No symmetry, because liveness  *)
(* is checked.                                                             *)
EXTENDS WorkerJobs
=============================================================================

---------------------------- MODULE MCWorkerWait ----------------------------
(* Model values for the instances of WorkerWait that TLC checks. *)
EXTENDS WorkerWait

CONSTANTS ok1, ok2, bad
=============================================================================

---------------------------- MODULE MCWorkerFrame ----------------------------
(* Model values for the instances of WorkerFrame that TLC checks. *)
EXTENDS WorkerFrame

CONSTANTS r1, r2, t1, c1, c2
=============================================================================

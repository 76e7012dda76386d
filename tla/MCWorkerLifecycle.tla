------------------------- MODULE MCWorkerLifecycle -------------------------
(* The instances of WorkerLifecycle that TLC checks.                       *)
EXTENDS WorkerLifecycle, TLC

=============================================================================

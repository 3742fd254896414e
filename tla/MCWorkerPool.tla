----------------------------- MODULE MCWorkerPool -----------------------------
(* Instances of WorkerPool: the workers are model values. *)
EXTENDS WorkerPool
=============================================================================

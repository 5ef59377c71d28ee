---------------------------- MODULE MCWorkerLoop ----------------------------
(* Small instances of WorkerLoop for TLC. *)
EXTENDS WorkerLoop
=============================================================================

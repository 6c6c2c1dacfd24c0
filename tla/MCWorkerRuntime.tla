--------------------------- MODULE MCWorkerRuntime ---------------------------
(* Small instances of WorkerRuntime for TLC. *)
EXTENDS WorkerRuntime

CONSTANTS j1, j2, s1
=============================================================================

---------------------------- MODULE MCWorkerLock ----------------------------
(* Instances of WorkerLock for TLC. *)
EXTENDS WorkerLock

CONSTANTS a, b, c

ThreeStarts == {a, b, c}
=============================================================================

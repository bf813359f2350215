----------------------------- MODULE MCWorkerPool -----------------------------
(***************************************************************************)
(* Instances of WorkerPool for TLC: two workers beside the conductor, and    *)
(* two stages so that a straggler of the first meets the second.             *)
(***************************************************************************)
EXTENDS WorkerPool

Pairs == {2}
=============================================================================

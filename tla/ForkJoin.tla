------------------------------- MODULE ForkJoin -------------------------------
(***************************************************************************)
(* What a worker pool promises its caller (WorkerPool::run_stage and Drop in *)
(* src/src/server/workers.rs): a stage of n items is handed over, each item  *)
(* is processed once, by whoever takes it, and the call returns when all of  *)
(* them are; the pool closes only between stages.                            *)
(***************************************************************************)
EXTENDS Naturals

CONSTANT Sizes                  \* sizes of a stage, natural numbers

VARIABLES
    phase,                      \* "idle", "running" a stage, or "closed"
    left                        \* items of the stage not yet processed

Begin(n) ==
    /\ phase = "idle"
    /\ phase' = "running"
    /\ left' = 0 .. n - 1

Process(i) ==
    /\ phase = "running" /\ i \in left
    /\ left' = left \ {i}
    /\ UNCHANGED phase

Return ==
    /\ phase = "running" /\ left = {}
    /\ phase' = "idle"
    /\ UNCHANGED left

Close ==
    /\ phase = "idle"
    /\ phase' = "closed"
    /\ UNCHANGED left

Work == (\E i \in left : Process(i)) \/ Return

Next == (\E n \in Sizes : Begin(n)) \/ Work \/ Close

Init == phase = "idle" /\ left = {}

Safety == Init /\ [][Next]_<<phase, left>>

\* A stage that was handed over is finished.
Liveness == WF_<<phase, left>>(Work)

Spec == Safety /\ Liveness
=============================================================================

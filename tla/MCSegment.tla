------------------------------ MODULE MCSegment ------------------------------
(***************************************************************************)
(* An instance of Segment for TLC.  A behaviour is about packets, about    *)
(* buffers, about one of each, or the tap.                                 *)
(***************************************************************************)
EXTENDS Segment, TLC

Work ==
    {[servers |-> 3, sweeps |-> 0, packets |-> 3, jobs |-> 0, blocks |-> 0],
     [servers |-> 2, sweeps |-> 1, packets |-> 0, jobs |-> 3, blocks |-> 0],
     [servers |-> 2, sweeps |-> 0, packets |-> 1, jobs |-> 1, blocks |-> 0],
     [servers |-> 0, sweeps |-> 0, packets |-> 0, jobs |-> 0, blocks |-> 7]}
Processes == Permutations(Servers)
=============================================================================

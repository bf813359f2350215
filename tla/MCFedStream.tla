----------------------------- MODULE MCFedStream -----------------------------
(***************************************************************************)
(* An instance of FedStream for TLC: two loops that begin alike and end    *)
(* apart, so a change from one to the other, or to none, reads on alike    *)
(* for a while and then elsewhere.                                         *)
(***************************************************************************)
EXTENDS FedStream

TwoLoops == {[from |-> 1, to |-> 4], [from |-> 1, to |-> 6]}
=============================================================================

------------------------------- MODULE MCStages -------------------------------
(* Groups of three children over a few buses.                                 *)
EXTENDS Stages

R(k, i) == [op |-> "read", kind |-> k, index |-> i]
W(k, i) == [op |-> "write", kind |-> k, index |-> i]
Fixed(s) == [acts |-> s, dynamic |-> FALSE]

\* Sources, effects, readers and a paused child; buses 0 and 2 share a lane.
Static == {
    Fixed(<<>>),
    Fixed(<<W("audio", 0)>>),
    Fixed(<<R("audio", 0), W("audio", 1)>>),
    Fixed(<<R("audio", 1), W("audio", 0)>>),
    Fixed(<<W("audio", 2)>>),
    Fixed(<<R("audio", 1), R("audio", 1)>>),
    Fixed(<<W("control", 1)>>),
    Fixed(<<R("control", 1), W("audio", 1)>>)}

Signal == {[acts |-> <<R("audio", 0), W("audio", 1)>>, dynamic |-> TRUE]}

Buses == [1 .. 3 -> Static \cup Signal]

=============================================================================

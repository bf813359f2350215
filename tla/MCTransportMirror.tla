-------------------------- MODULE MCTransportMirror --------------------------
(***************************************************************************)
(* An instance of TransportMirror for TLC.  Loops and end marks are changed *)
(* in longer behaviours where no group dies by itself, in shorter ones where *)
(* one may.                                                                  *)
(***************************************************************************)
EXTENDS TransportMirror

Some ==
    {[messages |-> 4, fields |-> {"looping", "mark"}, deaths |-> 0],
     [messages |-> 3, fields |-> {"looping", "mark"}, deaths |-> 1],
     [messages |-> 4, fields |-> {}, deaths |-> 1]}
Alike == Permutations(Transports)
=============================================================================

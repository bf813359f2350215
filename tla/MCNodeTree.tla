----------------------------- MODULE MCNodeTree -----------------------------
(***************************************************************************)
(* Instances of NodeTree for TLC.                                            *)
(***************************************************************************)
EXTENDS NodeTree

CONSTANTS s1
SomeEndings ==
    {[n \in SynthIds |-> IF n = s1 THEN a ELSE "FreeSelf"] : a \in {"FreeGroup", "PauseSelf"}}
=============================================================================

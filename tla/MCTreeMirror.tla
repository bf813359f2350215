---------------------------- MODULE MCTreeMirror ----------------------------
(***************************************************************************)
(* Instances of TreeMirror for TLC.                                          *)
(***************************************************************************)
EXTENDS TreeMirror

Alike == Permutations(SynthIds) \cup Permutations(GroupIds)
=============================================================================

------------------------------ MODULE MCIdIndex ------------------------------
(***************************************************************************)
(* Instances of IdIndex for TLC: every hash of four ids into four cells, one *)
(* of which a full slab leaves empty.                                        *)
(***************************************************************************)
EXTENDS IdIndex

AllHashes == [NodeIds -> Cells]
=============================================================================

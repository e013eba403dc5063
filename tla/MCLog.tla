------------------------------- MODULE MCLog -------------------------------
(* Log on a small disk. *)
EXTENDS Log, TLC
CONSTANTS b1, b2, b3, b4, o1, o2, o3

MC_Blocks == {b1, b2}
MC_FourBlocks == {b1, b2, b3, b4}
MC_Ops == {o1, o2}
MC_ThreeOps == {o1, o2, o3}

\* Processes and blocks are interchangeable.
MC_Symmetry == Permutations(MC_FourBlocks) \cup Permutations(MC_ThreeOps)
=============================================================================

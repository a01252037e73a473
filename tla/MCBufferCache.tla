--------------------------- MODULE MCBufferCache ---------------------------
(* BufferCache for TLC.  Who has block k1 may read any other: k1 stands for *)
(* a block of the log, the others for home blocks.                          *)
EXTENDS BufferCache, TLC
CONSTANT k1
NestedInK1 == {k1} \X (Blocks \ {k1})
Symmetry == Permutations(Procs) \cup Permutations(Blocks \ {k1}) \cup Permutations(Values)
=============================================================================

------------------------------- MODULE MCLog -------------------------------
(* Log for TLC: the processes, the blocks and the contents are alike.       *)
EXTENDS Log, TLC
Symmetry == Permutations(Ops) \cup Permutations(Blocks) \cup Permutations(Values)
=============================================================================

---------------------------- MODULE MCCellActor ----------------------------
(* CellActor for TLC: calls of a kind are interchangeable.                 *)
EXTENDS CellActor, TLC

Symmetry == Permutations(Observations \ {First}) \cup Permutations(Terminations)

=============================================================================

--------------------------- MODULE MCMemoryJobs ---------------------------
(***************************************************************************)
(* MemoryJobs for model checking: threads and workers are interchangeable. *)
(***************************************************************************)
EXTENDS MemoryJobs, TLC

Symmetry == Permutations(Threads) \cup Permutations(Workers)
=============================================================================

---------------------------- MODULE MCPeakEngine ----------------------------
(* PeakEngine for TLC: threads, addresses and points are interchangeable. *)
EXTENDS PeakEngine, TLC

Symmetry == Permutations(Threads) \cup Permutations(Blocks) \cup Permutations(Points)
=============================================================================

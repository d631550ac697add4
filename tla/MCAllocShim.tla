----------------------------- MODULE MCAllocShim -----------------------------
(* AllocShim for TLC: the weights of two sizes in a sampled run. *)
EXTENDS AllocShim, TLC

\* A small block stands for several.
SmallForMany == [n \in Sizes |-> IF n = 1 THEN [bytes |-> 3, blocks |-> 3]
                                 ELSE [bytes |-> 4, blocks |-> 2]]

Symmetry == Permutations(Threads) \cup Permutations(Addresses) \cup Permutations(Points)
=============================================================================

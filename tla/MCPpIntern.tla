----------------------------- MODULE MCPpIntern -----------------------------
(* Threads are alike, and so are stacks: their hashes are chosen initially.  *)
EXTENDS PpIntern, TLC

Words == {2}
HashKeys == {0, 1, 2}
ArenaLimits == {32}
Symmetry == Permutations(Callers) \cup Permutations(Stacks)
=============================================================================

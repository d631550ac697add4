------------------------------ MODULE MCRawMap ------------------------------
(* The keys are alike: which slot each starts from is chosen initially.      *)
EXTENDS RawMap, TLC

Symmetry == Permutations(Keys) \cup Permutations(Values)
=============================================================================

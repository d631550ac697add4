---------------------------- MODULE MCGuardTable ----------------------------
EXTENDS GuardTable, TLC

CONSTANTS t1, t2, t3

\* Two handles start their probe at one slot, the third at the next one.
Colliding == (t1 :> 0) @@ (t2 :> 0) @@ (t3 :> 1)
Symmetry == Permutations({t1, t2})
=============================================================================

------------------------------ MODULE MCSites ------------------------------
(* Two names share what is kept of them.  Recorders are alike.               *)
EXTENDS Sites, TLC

CONSTANTS n1, n2, n3
RegionNames == {n1, n2, n3}
Cut == (n1 :> n1) @@ (n2 :> n2) @@ (n3 :> n2)
Symmetry == Permutations(Recorders)
=============================================================================

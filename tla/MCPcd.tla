------------------------------- MODULE MCPcd --------------------------------
(* Pcd with two devices of different sizes.                                  *)
EXTENDS Pcd, TLC

CONSTANTS f1, f2, t1, t2, m1, m2

MCSize == 0 :> 2 @@ 1 :> 1
MCSymmetry == Permutations({f1, f2}) \cup Permutations({t1, t2}) \cup Permutations({m1, m2})
=============================================================================

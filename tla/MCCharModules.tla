--------------------------- MODULE MCCharModules ----------------------------
(* CharModules with two platform devices, two files, and a major number for    *)
(* each of the two modules.                                                    *)
EXTENDS CharModules, TLC

CONSTANTS m1, m2, f1, f2

MCSymmetry == Permutations({m1, m2}) \cup Permutations({f1, f2})
=============================================================================

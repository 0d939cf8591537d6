----------------------------- MODULE MCMiscLed ------------------------------
(* MiscLed with two tasks and an int of six bits: a count that is re-armed     *)
(* for ever, the first that is not, and the largest, which overflows.          *)
EXTENDS MiscLed, TLC

CONSTANTS t1, t2

MCSymmetry == Permutations({t1, t2})
=============================================================================

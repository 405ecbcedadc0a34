------------------------------- MODULE MCRollup ------------------------------
(* Rollup for TLC: interchangeable keys.                     *)
EXTENDS Rollup, TLC

Symmetry == Permutations(Key)
=============================================================================

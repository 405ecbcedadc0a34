----------------------------- MODULE MCMempool ------------------------------
(* Admission and build for TLC: three interchangeable keys.                *)
EXTENDS MempoolInv, TLC

Symmetry == Permutations(Key)
=============================================================================

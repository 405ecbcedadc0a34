-------------------------------- MODULE Sums --------------------------------
(***************************************************************************)
(* Sums of amounts.  A sum is the number of unit tokens, so that what      *)
(* would be an induction over the terms is a count of a set: sums over     *)
(* disjoint index sets add up, and a sum does not depend on how its terms  *)
(* are numbered.                                                           *)
(***************************************************************************)
EXTENDS Integers, FiniteSets

Units(amounts) == UNION {{i} \X (1 .. amounts[i]) : i \in DOMAIN amounts}
SumOf(amounts) == Cardinality(Units(amounts))

(* What the rows with these numbers are worth.                             *)
Value(rows, S) == SumOf([i \in S |-> rows[i].amount])
=============================================================================

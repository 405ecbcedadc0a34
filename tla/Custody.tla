------------------------------- MODULE Custody -------------------------------
(***************************************************************************)
(* What the rollup promises as a custodian of one token: it holds exactly  *)
(* what it owes.  A deposit adds to both; a settlement pays out some of    *)
(* what is owed, and never more than is held.                              *)
(***************************************************************************)
EXTENDS Integers

CONSTANT Supply  \* tokens in existence

VARIABLES
  held,  \* tokens that the contract holds
  owed   \* what its users can claim from it

vars == <<held, owed>>

Init == held = 0 /\ owed = 0

Receive(amount) ==
  /\ held' = held + amount
  /\ owed' = owed + amount

Settle(paid) ==
  /\ paid <= held
  /\ held' = held - paid
  /\ owed' = owed - paid

Next ==
  \/ \E amount \in 1 .. Supply - held : Receive(amount)
  \/ \E paid \in 0 .. owed : Settle(paid)

Spec == Init /\ [][Next]_vars
=============================================================================

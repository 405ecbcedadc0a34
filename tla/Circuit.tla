------------------------------- MODULE Circuit -------------------------------
(***************************************************************************)
(* The relation that the batch circuit proves, entry by entry, over the    *)
(* same trees as build_batch.  Hashes and signatures are ideal: a leaf     *)
(* stands for its preimage, so that an inclusion proof at an index says    *)
(* what the tree has there; a fold stands for the list that was folded;    *)
(* and a signature is one of the key's owner.  A prover chooses the        *)
(* indices of an entry; what else its witness contains follows from them.  *)
(*                                                                         *)
(* A definition named Mutant... is not part of the model: it is the        *)
(* definition that follows it with a plausible bug in it.                  *)
(***************************************************************************)
EXTENDS Accounts

CONSTANTS
  PadKey,  \* PAD_PK_X: the padding key, whose secret is public
  Dest     \* addresses on the network that a withdrawal may name

ASSUME CircuitAssumption ==
  /\ PadKey \notin Key \cup {NoKey}
  /\ Dest \cap (Key \cup {NoKey, PadKey}) = {}

MutantBelowMax(tree, d, i) ==
  /\ d.amount # 0 /\ d.to \notin {NoKey, PadKey}
  /\ tree[i].pk \in {NoKey, d.to}
  /\ tree[i].balance + d.amount < MaxBalance

MutantPadCredited(tree, d, i) ==
  /\ d.amount # 0 /\ d.to # NoKey
  /\ tree[i].pk \in {NoKey, d.to}
  /\ tree[i].balance + d.amount <= MaxBalance

(* apply_deposit, for an active entry: the slot is empty or is the key's,  *)
(* and the new balance is a u64.                                           *)
DepositHolds(tree, d, i) ==
  /\ d.amount # 0 /\ d.to \notin {NoKey, PadKey}
  /\ tree[i].pk \in {NoKey, d.to}
  /\ tree[i].balance + d.amount <= MaxBalance

(* An empty slot is pinned to balance and nonce zero.                      *)
AfterDeposit(tree, d, i) ==
  [tree EXCEPT ![i] = [pk |-> d.to, balance |-> @.balance + d.amount, nonce |-> @.nonce]]

MutantNoUnderflowCheck(tree, t, i) ==
  /\ t.amount # 0 /\ t.from \notin {NoKey, PadKey}
  /\ tree[i].pk = t.from /\ tree[i].nonce = t.nonce

(* The sender's side of apply_tx: the signed nonce is the account's, the   *)
(* debit does not underflow.                                               *)
DebitHolds(tree, t, i) ==
  /\ t.amount # 0 /\ t.from \notin {NoKey, PadKey}
  /\ tree[i].pk = t.from /\ tree[i].nonce = t.nonce
  /\ t.amount <= tree[i].balance

AfterDebit(tree, t, i) ==
  [tree EXCEPT ![i].balance = @ - t.amount, ![i].nonce = @ + 1]

(* The recipient's side, under the root after the debit.                   *)
CreditHolds(tree, t, j) ==
  /\ t.to \notin {NoKey, PadKey}
  /\ tree[j].pk = t.to
  /\ tree[j].balance + t.amount <= MaxBalance

AfterCredit(tree, t, j) == [tree EXCEPT ![j].balance = @ + t.amount]

(* apply_tx, for an active entry.  A withdrawal leaves the tree after the  *)
(* debit alone.                                                            *)
TxHolds(tree, t, i, j) ==
  /\ DebitHolds(tree, t, i)
  /\ t.withdraw \/ CreditHolds(AfterDebit(tree, t, i), t, j)

MutantCreditOldLeaf(tree, t, i, j) ==
  IF t.withdraw THEN AfterDebit(tree, t, i)
  ELSE [AfterDebit(tree, t, i) EXCEPT ![j].balance = tree[j].balance + t.amount]

MutantReusableNonce(tree, t, i, j) ==
  IF t.withdraw THEN [tree EXCEPT ![i].balance = @ - t.amount]
  ELSE AfterCredit(AfterDebit(tree, t, i), t, j)

AfterTx(tree, t, i, j) ==
  IF t.withdraw THEN AfterDebit(tree, t, i)
  ELSE AfterCredit(AfterDebit(tree, t, i), t, j)
=============================================================================

------------------------------ MODULE Accounts ------------------------------
(***************************************************************************)
(* The account tree and build_batch, as pure operators.  A tree gives each *)
(* slot an account; hashes, paths and signatures are left out.  Applying a *)
(* deposit or a transaction has an outcome: the tree that results and the  *)
(* error, or "none".                                                       *)
(*                                                                         *)
(* A definition named Mutant... is not part of the model: it is the        *)
(* definition that follows it with a plausible bug in it.                  *)
(***************************************************************************)
EXTENDS Integers, FiniteSets, Sequences, Sums

CONSTANTS
  Key,         \* public keys (x coordinates)
  NoKey,       \* the zero field: the key of an empty slot
  NSlots,      \* N_LEAVES: slots of the tree
  MaxBalance   \* u64::MAX

ASSUME AccountsAssumption ==
  /\ NoKey \notin Key
  /\ NSlots \in Nat \ {0}
  /\ MaxBalance \in Nat

Slot == 0 .. NSlots - 1

Empty == [pk |-> NoKey, balance |-> 0, nonce |-> 0]

EmptyTree == [i \in Slot |-> Empty]

Account == [pk : Key \cup {NoKey}, balance : 0 .. MaxBalance, nonce : Nat]
Tree    == [Slot -> Account]

Total(tree) == SumOf([i \in Slot |-> tree[i].balance])

(* Tree::find and Tree::free_index: a set of at most one slot.             *)
Lowest(S)    == {i \in S : \A j \in S : i <= j}
Find(tree, k) == Lowest({i \in Slot : tree[i].pk = k})
FreeIndex(tree) == Lowest({i \in Slot : tree[i].pk = NoKey})

Holds(tree, k) == Find(tree, k) # {}

(* Properties of trees: a key has one slot at most, and what is not in use *)
(* is zero.                                                                *)
OneSlotEach(tree) ==
  \A i, j \in Slot : tree[i].pk = tree[j].pk /\ tree[i].pk # NoKey => i = j
EmptyIsZero(tree) ==
  \A i \in Slot : tree[i].pk = NoKey => tree[i].balance = 0 /\ tree[i].nonce = 0

(* The account of a key that the tree holds.                               *)
AccountOf(tree, k) == tree[CHOOSE i \in Find(tree, k) : TRUE]

Ok(tree)           == [tree |-> tree, error |-> "none"]
Refused(tree, why) == [tree |-> tree, error |-> why]

(* Add an amount to an account, within u64.                                *)
Credit(tree, k, amount) ==
  LET i == CHOOSE i \in Find(tree, k) : TRUE IN
  IF tree[i].balance + amount > MaxBalance
  THEN Refused(tree, "BalanceOverflow")
  ELSE Ok([tree EXCEPT ![i].balance = @ + amount])

(* A deposit adds to the account of its key, or opens one in the lowest    *)
(* free slot.                                                              *)
ApplyDeposit(tree, d) ==
  IF Holds(tree, d.to) THEN Credit(tree, d.to, d.amount)
  ELSE IF FreeIndex(tree) = {} THEN Refused(tree, "TreeFull")
  ELSE Ok([i \in Slot |->
             IF i \in FreeIndex(tree)
             THEN [pk |-> d.to, balance |-> d.amount, nonce |-> 0]
             ELSE tree[i]])

MutantWithdrawKeepsNonce(tree, t) ==
  [i \in Slot |->
     IF i \in Find(tree, t.from)
     THEN [tree[i] EXCEPT !.balance = @ - t.amount,
                          !.nonce = IF t.withdraw THEN @ ELSE @ + 1]
     ELSE tree[i]]

MutantWithdrawIsFree(tree, t) ==
  [i \in Slot |->
     IF i \in Find(tree, t.from)
     THEN [tree[i] EXCEPT !.balance = IF t.withdraw THEN @ ELSE @ - t.amount,
                          !.nonce = @ + 1]
     ELSE tree[i]]

(* The sender pays and its nonce is spent.                                 *)
Debit(tree, t) ==
  [i \in Slot |->
     IF i \in Find(tree, t.from)
     THEN [tree[i] EXCEPT !.balance = @ - t.amount, !.nonce = @ + 1]
     ELSE tree[i]]

MutantRecipientReadFirst(tree, t) ==
  IF t.withdraw THEN Ok(Debit(tree, t))
  ELSE IF ~Holds(tree, t.to) THEN Refused(tree, "RecipientNotFound")
  ELSE LET after == Debit(tree, t) IN
       Ok([i \in Slot |->
             IF i \in Find(tree, t.to)
             THEN [after[i] EXCEPT !.balance = tree[i].balance + t.amount]
             ELSE after[i]])

(* The recipient is looked up and read after the debit, so that a payment  *)
(* to oneself leaves the balance as it was.                                *)
Transfer(tree, t) ==
  LET after == Debit(tree, t) IN
  IF t.withdraw THEN Ok(after)
  ELSE IF Holds(after, t.to) THEN Credit(after, t.to, t.amount)
  ELSE Refused(tree, "RecipientNotFound")

(* find() returns the first match; the builder refuses a second slot with  *)
(* the sender's key.                                                       *)
Unique(tree, k) == \E i \in Slot : {j \in Slot : tree[j].pk = k} = {i}

(* One transaction, with the checks of build_batch in their order.         *)
ApplyTx(tree, t) ==
  IF ~Holds(tree, t.from) THEN Refused(tree, "SenderNotFound")
  ELSE IF AccountOf(tree, t.from).nonce # t.nonce
  THEN Refused(tree, "NonceMismatch")
  ELSE IF AccountOf(tree, t.from).balance < t.amount
  THEN Refused(tree, "InsufficientBalance")
  ELSE IF ~Unique(tree, t.from) THEN Refused(tree, "SenderNotFound")
  ELSE Transfer(tree, t)

(* build_batch: all deposits, then all transactions, up to the first that  *)
(* is refused: what has become of the n-th input and those before it.      *)
(* "applied" counts those before the refused one, so that a refused        *)
(* transaction is at position applied - Len(deps) + 1.                     *)
ApplyInput(tree, deps, txs, n) ==
  IF n <= Len(deps) THEN ApplyDeposit(tree, deps[n])
  ELSE ApplyTx(tree, txs[n - Len(deps)])

Progress(tree, error, applied) == [tree |-> tree, error |-> error, applied |-> applied]

Step(acc, out) ==
  IF acc.error # "none" THEN acc
  ELSE IF out.error # "none" THEN Progress(acc.tree, out.error, acc.applied)
  ELSE Progress(out.tree, "none", acc.applied + 1)

Run(tree, deps, txs) ==
  LET run[n \in 0 .. Len(deps) + Len(txs)] ==
        IF n = 0 THEN Progress(tree, "none", 0)
        ELSE Step(run[n - 1], ApplyInput(run[n - 1].tree, deps, txs, n))
  IN run

BuildBatch(tree, deps, txs) == Run(tree, deps, txs)[Len(deps) + Len(txs)]
=============================================================================

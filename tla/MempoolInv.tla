------------------------------ MODULE MempoolInv ------------------------------
(***************************************************************************)
(* Why admission and build agree: the inductive invariant from which the   *)
(* properties of Mempool follow.                                           *)
(***************************************************************************)
EXTENDS Mempool

-----------------------------------------------------------------------------
(* A ledger: the tree that the deposits D and the transactions X lead to,  *)
(* in whatever order they were applied.                                    *)

DepsTo(deps, D, k) == {d \in D : deps[d].to = k}
TxsTo(rows, X, k)  == {t \in X : rows[t].to = k}
TxsBy(rows, X, k)  == {t \in X : rows[t].from = k}
Withdrawn(rows, X) == {t \in X : rows[t].withdraw}

(* The account of key k.                                                   *)
Explains(a, k, deps, D, rows, X) ==
  /\ a.nonce = Cardinality(TxsBy(rows, X, k))
  /\ a.balance + Value(rows, TxsBy(rows, X, k))
       = Value(deps, DepsTo(deps, D, k)) + Value(rows, TxsTo(rows, X, k))

Ledger(T, deps, D, rows, X) ==
  /\ OneSlotEach(T)
  /\ \A i \in Slot : IF T[i].pk = NoKey THEN T[i].balance = 0
                     ELSE Explains(T[i], T[i].pk, deps, D, rows, X)
  /\ \A k \in Key : Holds(T, k) <=> DepsTo(deps, D, k) # {}
  /\ \A t \in X : /\ Holds(T, rows[t].from)
                  /\ rows[t].withdraw \/ Holds(T, rows[t].to)
  /\ Total(T) + Value(rows, Withdrawn(rows, X)) = Value(deps, D)

-----------------------------------------------------------------------------
Consumed == {d \in DepIds : deposits[d].status = "consumed"}
Included == {t \in TxIds : mempool[t].status = "included"}
Live == {t \in TxIds : mempool[t].status \in {"pending", "batching"}}

(* A row's status says where it is; while a build goes on, nothing else    *)
(* does.  The live tree is ahead of the leaves only after a failed commit. *)
BatchInv ==
  /\ batch.status = "none" => batch = NoBatch
  /\ batch.deps = {d \in DepIds : deposits[d].status = "batching"}
  /\ batch.txs = {t \in TxIds : mempool[t].status = "batching"}
  /\ building => batch = NoBatch /\ txs \subseteq PendingTxs
  /\ tree = leaves \/ (faults > 0 /\ batch.status = "landed" /\ tree = batch.new)

Paid == Withdrawn(mempool, Included)
          \cup (IF batch.status = "landed" THEN Withdrawn(mempool, batch.txs) ELSE {})

(* The leaves are the ledger of what has settled, the batch leads to that  *)
(* of what will have; the contract holds what is queued or in an account.  *)
LedgerInv ==
  /\ Ledger(leaves, deposits, Consumed, mempool, Included)
  /\ batch.status # "none" =>
       Ledger(batch.new, deposits, Consumed \cup batch.deps, mempool, Included \cup batch.txs)
  /\ paid = Value(mempool, Paid)
  /\ Value(deposits, DepIds) <= Supply + paid

(* What rows say of each other: a withdrawal has no recipient; a recipient *)
(* has a deposit; a batch takes the nonces that follow the settled ones.   *)
WellFormed(rows) == \A t \in DOMAIN rows : rows[t].withdraw <=> rows[t].to = NoKey

RecipientsFunded(deps, rows) ==
  \A t \in DOMAIN rows : rows[t].withdraw \/ DepsTo(deps, DOMAIN deps, rows[t].to) # {}

InSequence(rows, X, S) ==
  \A t \in S : rows[t].nonce = Cardinality(TxsBy(rows, X, rows[t].from))
                                 + Rank(TxsBy(rows, S, rows[t].from), t)

RowsInv ==
  WellFormed(mempool) /\ RecipientsFunded(deposits, mempool)
    /\ InSequence(mempool, Included, batch.txs)

(* What admission adds to that, as long as no commit has failed.  All rows *)
(* of a sender, settled, rejected or not, are numbered by their nonces; so *)
(* nothing of a sender is admitted after a rejection.  They settle in that *)
(* order, and the balance pays for those to come.                          *)
SendersHeld(T, rows) == \A t \in DOMAIN rows : Holds(T, rows[t].from)

Numbered(rows) ==
  \A t \in DOMAIN rows : rows[t].nonce = Rank(TxsBy(rows, DOMAIN rows, rows[t].from), t)

SettledFirst(rows, X) ==
  \A t \in X, u \in DOMAIN rows : rows[u].from = rows[t].from /\ u < t => u \in X

FundsCover(T, rows, S) ==
  \A k \in Key : Holds(T, k) => Value(rows, TxsBy(rows, S, k)) <= AccountOf(T, k).balance

ShadowInv ==
  faults = 0 => /\ SendersHeld(leaves, mempool) /\ Numbered(mempool)
                /\ SettledFirst(mempool, Included) /\ FundsCover(leaves, mempool, Live)

AdmissionInv == TypeOK /\ BatchInv /\ LedgerInv /\ RowsInv /\ ShadowInv
=============================================================================

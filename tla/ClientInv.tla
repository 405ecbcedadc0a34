------------------------------ MODULE ClientInv ------------------------------
(***************************************************************************)
(* Why wallets can rely on what they read: the inductive invariant from    *)
(* which the properties of Client follow.                                  *)
(***************************************************************************)
EXTENDS Client, MempoolInv

-----------------------------------------------------------------------------
(* The table history lists what the deposits D and the transactions X did. *)

HistoryRow ==
  [pk : Key, kind : {"deposit", "transfer_in", "transfer_out", "withdraw"},
   counterparty : Key \cup {NoKey}, amount : Nat \ {0}]

EntriesOf(hist, k)  == {h \in DOMAIN hist : hist[h].pk = k}
CreditsOf(hist, k) == {h \in EntriesOf(hist, k) : hist[h].kind \in {"deposit", "transfer_in"}}
DebitsOf(hist, k)  == EntriesOf(hist, k) \ CreditsOf(hist, k)

(* Those of key k.                                                         *)
Listing(hist, k, deps, D, rows, X) ==
  /\ Value(hist, CreditsOf(hist, k)) = Value(deps, DepsTo(deps, D, k)) + Value(rows, TxsTo(rows, X, k))
  /\ Value(hist, DebitsOf(hist, k)) = Value(rows, TxsBy(rows, X, k))
  /\ Cardinality(DebitsOf(hist, k)) = Cardinality(TxsBy(rows, X, k))
  /\ EntriesOf(hist, k) # {} =>
       DepsTo(deps, D, k) # {} \/ TxsTo(rows, X, k) # {} \/ TxsBy(rows, X, k) # {}

Lists(hist, deps, D, rows, X) == \A k \in Key : Listing(hist, k, deps, D, rows, X)

-----------------------------------------------------------------------------
(* What a wallet has read, and stays good.                                 *)

Rows(k) == TxsBy(mempool, TxIds, k)

Undisturbed(k) == faults = 0 /\ RowsOf(k, "rejected") = {}

(* At a time when k had "rows" rows, the API offered it this nonce, and    *)
(* this amount to spend.                                                   *)
Offered(k, rows, nonce, amount) ==
  /\ rows \in Nat /\ rows <= Cardinality(Rows(k))
  /\ Undisturbed(k) =>
       /\ Holds(leaves, k) /\ nonce = rows
       /\ rows = Cardinality(Rows(k)) => amount + Value(mempool, Rows(k)) <= Received(k)

AccountRow ==
  [balance : Nat, pending_nonce : 0 .. 2 * MaxRows, pending_out : Nat, rows : Nat]

ViewInv ==
  \A w \in User : view[w] # <<>> =>
    LET v == view[w][1] IN
    v \in AccountRow /\ Offered(w, v.rows, v.pending_nonce, v.balance - v.pending_out)

WireInv ==
  \A r \in wire :
    /\ r.tx.from = r.by /\ Offered(r.by, r.rows, r.tx.nonce, r.tx.amount)

-----------------------------------------------------------------------------
(* A sender uses a nonce once.                                             *)
OneRowEach ==
  /\ TxIds \subseteq 1 .. MaxRows
  /\ \A t, u \in TxIds :
       mempool[t].from = mempool[u].from /\ mempool[t].nonce = mempool[u].nonce => t = u

HistoryInv ==
  history \in Seq(HistoryRow) /\ Lists(history, deposits, Consumed, mempool, Included)

WalletInv ==
  /\ ClientTypeOK /\ HistoryInv /\ OneRowEach /\ ViewInv /\ WireInv
  /\ ReceiptIsOwn /\ FreshNotRefused
=============================================================================

------------------------------- MODULE Mempool -------------------------------
(***************************************************************************)
(* What the engine admits against what a build accepts: submit_tx checks a *)
(* request against the tree and the rows of the mempool, build_batch_now   *)
(* applies the rows to a clone of the tree and evicts those it refuses,    *)
(* and a confirmation moves the tree.  Between a build and a confirmation  *)
(* stands the pipeline of module Pipeline, seen here only as a batch that  *)
(* fails or lands.  Signatures are checked at admission and stay good.     *)
(* A definition named Mutant... is not part of the model, as in Pipeline.  *)
(***************************************************************************)
EXTENDS Accounts

CONSTANTS
  DepositAmounts,  \* amounts that users deposit
  TxAmounts,       \* amounts that users send
  Supply,          \* tokens in existence
  MaxDeposits,     \* bound: deposits ever observed
  MaxRows,         \* bound: rows ever inserted in the mempool
  DepositSlots,    \* cfg.deposit_slots
  TxSlots,         \* cfg.tx_slots
  WithdrawalCap,   \* withdrawals per batch (MAX_WITHDRAWALS)
  MaxPending,      \* MEMPOOL_MAX_PENDING
  MaxFaults        \* bound: commits of a confirmation that fail

ASSUME MempoolAssumption ==
  /\ DepositAmounts \subseteq Nat \ {0} /\ TxAmounts \subseteq Nat \ {0}
  /\ Supply \in 0 .. MaxBalance
  /\ MaxDeposits \in Nat /\ MaxRows \in Nat /\ MaxPending \in Nat
  /\ DepositSlots \in Nat \ {0} /\ TxSlots \in Nat \ {0}
  /\ WithdrawalCap \in Nat \ {0}
  /\ MaxFaults \in Nat

VARIABLES
  tree,       \* Engine.tree
  leaves,     \* table leaves
  deposits,   \* table deposits, by sequence number
  mempool,    \* table mempool, by id
  batch,      \* the batch in flight, or NoBatch
  building,   \* whether build_batch_now is in its loop
  txs,        \* its transactions (mempool ids), which it lists in order
  paid,       \* history: tokens the contract has paid out
  faults      \* how many commits have failed

vars == <<tree, leaves, deposits, mempool, batch, building, txs, paid, faults>>

NoBatch == [deps |-> {}, txs |-> {}, new |-> EmptyTree, status |-> "none"]

DepIds == DOMAIN deposits
TxIds  == DOMAIN mempool

PendingDeps == {d \in DepIds : deposits[d].status = "pending"}
PendingTxs  == {t \in TxIds : mempool[t].status = "pending"}

(* ORDER BY ... LIMIT k.                                                   *)
Rank(S, x)    == Cardinality({y \in S : y < x})
FirstOf(S, k) == {x \in S : Rank(S, x) < k}
InOrder(S)    == [i \in 1 .. Cardinality(S) |-> CHOOSE x \in S : Rank(S, x) = i - 1]

MutantPendingOnly(k) ==
  {t \in TxIds : mempool[t].from = k /\ mempool[t].status = "pending"}
(* mempool_pending_for: the rows of a sender that have still to settle.    *)
LiveRows(k) ==
  {t \in TxIds : mempool[t].from = k /\ mempool[t].status \in {"pending", "batching"}}

(* The pending_nonce served to the wallet, which submit_tx expects.        *)
ExpectedNonce(k) == AccountOf(tree, k).nonce + Cardinality(LiveRows(k))

(* The balance less what is on its way out, saturating at zero.            *)
Available(k) ==
  LET balance == AccountOf(tree, k).balance
      out     == Value(mempool, LiveRows(k))
  IN IF out <= balance THEN balance - out ELSE 0

MutantAnyRecipient(k) == TRUE
(* The recipient exists, or a deposit that has yet to settle creates it.   *)
RecipientKnown(k) ==
  \/ Holds(tree, k)
  \/ \E d \in DepIds : deposits[d].to = k /\ deposits[d].status \in {"pending", "batching"}

-----------------------------------------------------------------------------
Init ==
  /\ tree = EmptyTree /\ leaves = EmptyTree
  /\ deposits = <<>> /\ mempool = <<>>
  /\ batch = NoBatch /\ building = FALSE /\ txs = {}
  /\ paid = 0 /\ faults = 0

(* What the contract holds: all deposits less all payouts.                 *)
Escrow == Value(deposits, DepIds) - paid

(* A user deposits tokens that are not in the contract yet, and the        *)
(* watcher reports it.                                                     *)
ObserveDeposit(k, amount) ==
  /\ ~building /\ Len(deposits) < MaxDeposits
  /\ Escrow + amount <= Supply
  /\ deposits' = Append(deposits, [to |-> k, amount |-> amount, status |-> "pending"])
  /\ UNCHANGED <<tree, leaves, mempool, batch, building, txs, paid, faults>>

MempoolFull == Cardinality(PendingTxs) >= MaxPending

(* The checks of submit_tx against the tree and the rows.                  *)
Admissible(t) ==
  /\ Holds(tree, t.from)
  /\ t.nonce = ExpectedNonce(t.from)
  /\ t.amount <= Available(t.from)
  /\ t.withdraw \/ RecipientKnown(t.to)

RowFor(t) == {r \in TxIds : mempool[r].from = t.from /\ mempool[r].nonce = t.nonce}

(* submit_tx accepts a signed request and inserts a row.  Every other      *)
(* request changes nothing: it is refused, or (sender, nonce) has a row    *)
(* already and its receipt is returned, whatever its status.               *)
SubmitTx(t) ==
  /\ ~building /\ Len(mempool) < MaxRows
  /\ ~MempoolFull /\ RowFor(t) = {}
  /\ Admissible(t)
  /\ mempool' = Append(mempool,
       [from |-> t.from, to |-> t.to, amount |-> t.amount, nonce |-> t.nonce,
        withdraw |-> t.withdraw, status |-> "pending", reason |-> "none"])
  /\ UNCHANGED <<tree, leaves, deposits, batch, building, txs, paid, faults>>

(* The requests a user may post; a withdrawal's destination is no key.     *)
Request ==
  {t \in [from : Key, to : Key \cup {NoKey}, amount : TxAmounts,
          nonce : 0 .. 2 * MaxRows, withdraw : BOOLEAN] :
     t.withdraw <=> t.to = NoKey}

-----------------------------------------------------------------------------
(* build_batch_now.                                                        *)

(* The deposits a batch takes, and the transactions it starts from: the    *)
(* oldest candidates, without the withdrawals that exceed the cap.         *)
TakenDeps  == FirstOf(PendingDeps, DepositSlots)
Candidates == FirstOf(PendingTxs, 4 * TxSlots)
WithinCap ==
  {t \in Candidates : mempool[t].withdraw =>
     Rank({u \in Candidates : mempool[u].withdraw}, t) < WithdrawalCap}
Selected == FirstOf(WithinCap, TxSlots)

TryBuild ==
  /\ ~building /\ batch = NoBatch
  /\ PendingDeps # {} \/ PendingTxs # {}
  /\ building' = TRUE
  /\ txs' = Selected
  /\ UNCHANGED <<tree, leaves, deposits, mempool, batch, paid, faults>>

(* The rows with these numbers, in order.                                  *)
Listed(rows, S) == [i \in 1 .. Cardinality(S) |-> rows[InOrder(S)[i]]]

(* build_batch on a clone of the tree.                                     *)
Attempt ==
  BuildBatch(tree, Listed(deposits, TakenDeps), Listed(mempool, txs))

EvictableErrors ==
  {"SenderNotFound", "NonceMismatch", "InsufficientBalance", "RecipientNotFound"}

(* The refused transaction is rejected and the build tried again without,  *)
(* unless nothing is left.                                                 *)
RefusedTx == InOrder(txs)[Attempt.applied - Cardinality(TakenDeps) + 1]

Evict ==
  /\ building /\ Attempt.error \in EvictableErrors
  /\ mempool' = [mempool EXCEPT ![RefusedTx].status = "rejected",
                                ![RefusedTx].reason = Attempt.error]
  /\ txs' = txs \ {RefusedTx}
  /\ building' = (txs' # {} \/ TakenDeps # {})
  /\ UNCHANGED <<tree, leaves, deposits, batch, paid, faults>>

(* No eviction helps: nothing is built on this tick.                       *)
Stall ==
  /\ building /\ Attempt.error \notin EvictableErrors \cup {"none"}
  /\ building' = FALSE /\ txs' = {}
  /\ UNCHANGED <<tree, leaves, deposits, mempool, batch, paid, faults>>

DepStatus(D, status) ==
  [d \in DepIds |-> IF d \in D THEN [deposits[d] EXCEPT !.status = status] ELSE deposits[d]]
TxStatus(T, status) ==
  [t \in TxIds |-> IF t \in T THEN [mempool[t] EXCEPT !.status = status] ELSE mempool[t]]

(* The batch is built and its inputs marked.                               *)
InsertBatch ==
  /\ building /\ Attempt.error = "none"
  /\ batch' = [deps |-> TakenDeps, txs |-> txs, new |-> Attempt.tree, status |-> "built"]
  /\ deposits' = DepStatus(TakenDeps, "batching")
  /\ mempool' = TxStatus(txs, "batching")
  /\ building' = FALSE /\ txs' = {}
  /\ UNCHANGED <<tree, leaves, paid, faults>>

-----------------------------------------------------------------------------
(* What becomes of a batch.                                                *)

(* It fails before it was submitted: its inputs are pending again.         *)
FailBatch ==
  /\ ~building /\ batch.status = "built"
  /\ batch' = NoBatch
  /\ deposits' = DepStatus(batch.deps, "pending")
  /\ mempool' = TxStatus(batch.txs, "pending")
  /\ UNCHANGED <<tree, leaves, building, txs, paid, faults>>

(* The contract applies it and pays its withdrawals.                       *)
Land ==
  /\ batch.status = "built"
  /\ batch' = [batch EXCEPT !.status = "landed"]
  /\ paid' = paid + Value(mempool, {t \in batch.txs : mempool[t].withdraw})
  /\ UNCHANGED <<tree, leaves, deposits, mempool, building, txs, faults>>

(* The replay of its blob gives its root only on the tree it was built on. *)
Replays == batch.status = "landed" /\ tree = leaves

(* confirm_batch: the tree is swapped and the rows are committed.          *)
Confirm ==
  /\ ~building /\ Replays
  /\ tree' = batch.new /\ leaves' = batch.new
  /\ deposits' = DepStatus(batch.deps, "consumed")
  /\ mempool' = TxStatus(batch.txs, "included")
  /\ batch' = NoBatch
  /\ UNCHANGED <<building, txs, paid, faults>>

(* The commit fails after the swap.                                        *)
ConfirmFault ==
  /\ ~building /\ Replays /\ faults < MaxFaults
  /\ faults' = faults + 1
  /\ tree' = batch.new
  /\ UNCHANGED <<leaves, deposits, mempool, batch, building, txs, paid>>

(* The process dies and starts again from the database.                    *)
Restart ==
  /\ tree' = leaves /\ building' = FALSE /\ txs' = {}
  /\ UNCHANGED <<leaves, deposits, mempool, batch, paid, faults>>

Next ==
  \/ \E k \in Key, a \in DepositAmounts : ObserveDeposit(k, a)
  \/ \E t \in Request : SubmitTx(t)
  \/ TryBuild \/ Evict \/ Stall \/ InsertBatch
  \/ FailBatch \/ Land \/ Confirm \/ ConfirmFault \/ Restart

Spec == Init /\ [][Next]_vars

-----------------------------------------------------------------------------
(* Correctness.                                                            *)

DepRow ==
  [to : Key, amount : Nat \ {0}, status : {"pending", "batching", "consumed"}]
TxRow ==
  [from : Key, to : Key \cup {NoKey}, amount : Nat \ {0}, nonce : Nat,
   withdraw : BOOLEAN, status : {"pending", "batching", "included", "rejected"},
   reason : EvictableErrors \cup {"none"}]

(* Every variable keeps its type.                                          *)
TypeOK ==
  /\ tree \in Tree /\ leaves \in Tree
  /\ deposits \in Seq(DepRow) /\ mempool \in Seq(TxRow)
  /\ batch \in [deps : SUBSET DepIds, txs : SUBSET TxIds, new : Tree,
                status : {"none", "built", "landed"}]
  /\ building \in BOOLEAN /\ txs \subseteq TxIds
  /\ paid \in Nat /\ faults \in 0 .. MaxFaults

RowsOf(k, status) == {t \in TxIds : mempool[t].from = k /\ mempool[t].status = status}

(* The rows of k that have still to settle carry the nonces that follow    *)
(* the confirmed one, in the order of their ids and without a gap ...      *)
NoncesFollow(k) ==
  \A t \in LiveRows(k) :
    mempool[t].nonce = AccountOf(leaves, k).nonce
                         + Rank(LiveRows(k), t)

(* ... and the confirmed balance pays for all of them.                     *)
BalanceCovers(k) ==
  Value(mempool, LiveRows(k)) <= AccountOf(leaves, k).balance

NoRejection(k) == Holds(leaves, k) /\ RowsOf(k, "rejected") = {}

(* The shadow is exact: whatever is built, failed, landed or restarted in  *)
(* between, what submit_tx admitted follows from the confirmed account of  *)
(* the sender, unless a build has rejected one of its rows, and as long as *)
(* the commit of no confirmation has failed.                               *)
ShadowExact ==
  faults = 0 => \A k \in Key : NoRejection(k) => NoncesFollow(k) /\ BalanceCovers(k)

(* Nonces are checked "against confirmed state + mempool shadow": a row is *)
(* never admitted beyond the nonce that the confirmed account and the      *)
(* other rows lead to.                                                     *)
NonceAgainstConfirmedState ==
  \A k \in Key : NoRejection(k) => NoncesFollow(k)

Evicted(t) == mempool[t].status # "rejected" /\ mempool'[t].status = "rejected"

EvictionExplained(t) ==
  LET row == mempool[t] IN
  \/ /\ mempool'[t].reason = "NonceMismatch"
     /\ \E u \in (RowsOf(row.from, "pending") \cup RowsOf(row.from, "rejected")) \ txs :
          mempool[u].nonce < row.nonce
  \/ /\ mempool'[t].reason = "RecipientNotFound"
     /\ \E d \in PendingDeps \ TakenDeps : deposits[d].to = row.to

(* A build evicts for two reasons only: an earlier row of the sender is    *)
(* not in the batch and has not settled, or the recipient's account waits  *)
(* for a deposit that this batch does not take.  It never lacks funds, nor *)
(* the sender's account.  Again as long as no commit has failed.           *)
EvictionsExplained ==
  [][faults = 0 => \A t \in TxIds : Evicted(t) => EvictionExplained(t)]_vars

(* The net effect on a key of the deposits and transactions with these     *)
(* final statuses.                                                         *)
Received(k) ==
  Value(deposits, {d \in DepIds : deposits[d].to = k /\ deposits[d].status = "consumed"})
  + Value(mempool, {t \in TxIds : mempool[t].to = k /\ mempool[t].status = "included"})
Spent(k) == Value(mempool, RowsOf(k, "included"))

(* The confirmed accounts are the history: a balance is what the rows say  *)
(* was credited less what they say was sent, a nonce the number of the     *)
(* sender's included rows, and what is not "consumed" or "included" has no *)
(* effect.                                                                 *)
AccountsAreHistory ==
  \A k \in Key :
    IF Holds(leaves, k)
    THEN /\ AccountOf(leaves, k).balance = Received(k) - Spent(k)
         /\ AccountOf(leaves, k).nonce = Cardinality(RowsOf(k, "included"))
    ELSE Received(k) = 0 /\ Spent(k) = 0

(* As long as the token's supply fits u64, a build is stalled by a full    *)
(* tree only, never by a balance that would overflow.                      *)
NoOverflowJam == building => Attempt.error # "BalanceOverflow"

(* A payment made with the nonce the sequencer offers is queued: no row    *)
(* has that nonce yet.                                                     *)
OfferedNonceIsFree ==
  \A k \in Key : Holds(tree, k) =>
    \A t \in TxIds : mempool[t].from = k => mempool[t].nonce # ExpectedNonce(k)
=============================================================================

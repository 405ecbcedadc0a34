------------------------------- MODULE Rollup -------------------------------
(***************************************************************************)
(* The contract as custodian of one token: the deposit queue, submit_batch *)
(* and its payouts, with amounts, against everything the batch circuit     *)
(* lets a prover prove.  Anybody may prove and submit; the sequencer is    *)
(* one prover, whose choices of slots are those of build_batch.            *)
(*                                                                         *)
(* A definition named Mutant... is not part of the model, as in Circuit.   *)
(***************************************************************************)
EXTENDS Circuit, SequencesExt

CONSTANTS
  Amounts,         \* amounts that users deposit and send
  Supply,          \* tokens in existence
  MaxDeposits,     \* bound: deposits ever made
  MaxProved,       \* bound: batches ever proved
  MaxBatches,      \* bound: batches ever applied by the contract
  MaxEntries,      \* bound: active entries in them and in the draft
  DepositSlots,    \* deposit entries of the circuit
  TxSlots,         \* transaction entries of the circuit
  WithdrawalCap    \* MAX_WITHDRAWALS

(* An amount is a u64, above MAX_AMOUNT a deposit is refused; and Supply   *)
(* <= u64::MAX is the deployment invariant of the token.                   *)
ASSUME RollupAssumption ==
  /\ Amounts \subseteq Nat \ {0} /\ \A a \in Amounts : a <= MaxBalance
  /\ Supply \in 0 .. MaxBalance
  /\ MaxDeposits \in Nat /\ MaxProved \in Nat
  /\ MaxBatches \in Nat /\ MaxEntries \in Nat
  /\ DepositSlots \in Nat /\ TxSlots \in Nat /\ WithdrawalCap \in Nat

(* What a caller may pass as a key: any field element.                     *)
AnyKey == Key \cup {NoKey, PadKey}

VARIABLES
  root,      \* DataKey::Root, as the tree it commits to
  deposits,  \* DataKey::Dep: every deposit ever queued; DepTail is its length
  head,      \* DataKey::DepHead
  held,      \* the contract's balance of the token
  draft,     \* the batch a prover is working on
  proved,    \* the batches that have a proof
  honest,    \* history: every deposit so far was proved in build_batch's slot
  landed     \* history: the batches applied; BatchNum is its length

vars == <<root, deposits, head, held, draft, proved, honest, landed>>

Batch(tree) == [old |-> tree, new |-> tree, deps |-> <<>>, wds |-> <<>>, txs |-> <<>>]

Worth(list) == Value(list, DOMAIN list)

(* The deposits head .. tail - 1.                                          *)
Queued == head + 1 .. Len(deposits)
Pending == Value(deposits, Queued)

-----------------------------------------------------------------------------
(* The constructor, over the root of the empty tree.                       *)
Init ==
  /\ root = EmptyTree /\ deposits = <<>> /\ head = 0 /\ held = 0
  /\ draft = Batch(EmptyTree) /\ proved = {}
  /\ honest = TRUE /\ landed = <<>>

(* deposit: the tokens move to the contract, the credit waits in the queue.*)
Deposit(k, amount) ==
  /\ k \notin {NoKey, PadKey}
  /\ Len(deposits) < MaxDeposits
  /\ held + amount <= Supply
  /\ held' = held + amount
  /\ deposits' = Append(deposits, [to |-> k, amount |-> amount])
  /\ UNCHANGED <<root, head, draft, proved, honest, landed>>

-----------------------------------------------------------------------------
(* A prover.                                                               *)

(* It drops what it has and starts from the contract's root.               *)
BeginBatch ==
  /\ draft' = Batch(root)
  /\ UNCHANGED <<root, deposits, head, held, proved, honest, landed>>

Entries == MapThenSumSet(LAMBDA p : Len(p.deps) + Len(p.txs), proved \cup {draft})

(* build_batch: the slot of the key, or else the lowest free one.          *)
BuilderSlot(tree, k) == IF Holds(tree, k) THEN Find(tree, k) ELSE FreeIndex(tree)

(* The deposits a prover claims: those that wait in the queue, and credits *)
(* to the reserved keys.  The circuit also proves deposits that nobody     *)
(* made; such a proof never has the fold of the contract's queue.          *)
DepositClaims ==
  {deposits[s] : s \in Queued} \cup [to : {NoKey, PadKey}, amount : Amounts]

(* An active deposit entry, at any index.  All of them come before the     *)
(* transactions.                                                           *)
ProveDeposit(d, i) ==
  /\ draft.txs = <<>> /\ Len(draft.deps) < DepositSlots
  /\ Entries < MaxEntries
  /\ DepositHolds(draft.new, d, i)
  /\ draft' = [draft EXCEPT !.new = AfterDeposit(@, d, i), !.deps = Append(@, d)]
  /\ honest' = (honest /\ i \in BuilderSlot(draft.new, d.to))
  /\ UNCHANGED <<root, deposits, head, held, proved, landed>>

Withdrawals(t) == IF t.withdraw THEN <<[dest |-> t.to, amount |-> t.amount]>> ELSE <<>>

(* An active transaction entry, signed by the owner of the account.        *)
ProveTx(t, i, j) ==
  /\ Len(draft.txs) < TxSlots
  /\ Entries < MaxEntries
  /\ TxHolds(draft.new, t, i, j)
  /\ draft' = [draft EXCEPT !.new = AfterTx(@, t, i, j), !.txs = Append(@, t),
                            !.wds = @ \o Withdrawals(t)]
  /\ UNCHANGED <<root, deposits, head, held, proved, honest, landed>>

(* What an owner may sign: the recipient is a field element or an address. *)
SignedTx(tree, i) ==
  {t \in [from : {tree[i].pk}, to : AnyKey \cup Dest, amount : Amounts,
          nonce : {tree[i].nonce}, withdraw : BOOLEAN] :
     t.withdraw <=> t.to \in Dest}

(* The other entries are padding: identity updates, and the folds stay.    *)
Prove ==
  /\ Cardinality(proved) < MaxProved
  /\ proved' = proved \cup {draft}
  /\ draft' = Batch(root)
  /\ UNCHANGED <<root, deposits, head, held, honest, landed>>

-----------------------------------------------------------------------------
(* submit_batch.                                                           *)

Segment(count) == [i \in 1 .. count |-> deposits[head + i]]

(* The public inputs: the contract's root and its own queue, and what the  *)
(* submitter sends beside the proof.                                       *)
PublicInputs(p) ==
  [old |-> root, new |-> p.new, deps |-> Segment(Len(p.deps)), wds |-> p.wds, txs |-> p.txs]

MutantAnyRoot(p) ==
  /\ Len(p.wds) <= WithdrawalCap
  /\ head + Len(p.deps) <= Len(deposits)
  /\ p = [PublicInputs(p) EXCEPT !.old = p.old]

(* The proof of p verifies for them.                                       *)
Accepts(p) ==
  /\ Len(p.wds) <= WithdrawalCap
  /\ head + Len(p.deps) <= Len(deposits)
  /\ p = PublicInputs(p)

MutantKeepLast(count) == IF count = 0 THEN head ELSE head + count - 1
(* dequeue_deposits: the new DepHead.                                      *)
Dequeued(count) == head + count

(* Everything reverts when the token cannot be transferred.                *)
SubmitBatch(p) ==
  /\ Len(landed) < MaxBatches
  /\ Accepts(p) /\ Worth(p.wds) <= held
  /\ root' = p.new
  /\ head' = Dequeued(Len(p.deps))
  /\ held' = held - Worth(p.wds)
  /\ landed' = Append(landed, p)
  /\ UNCHANGED <<deposits, draft, proved, honest>>

Next ==
  \/ \E k \in AnyKey, a \in Amounts : Deposit(k, a)
  \/ BeginBatch
  \/ \E d \in DepositClaims, i \in Slot : ProveDeposit(d, i)
  \/ \E i, j \in Slot : \E t \in SignedTx(draft.new, i) : ProveTx(t, i, j)
  \/ Prove
  \/ \E p \in proved : SubmitBatch(p)

Spec == Init /\ [][Next]_vars
-----------------------------------------------------------------------------
(* Correctness.                                                            *)

QueueEntry == [to : Key, amount : Nat \ {0}]
Payout  == [dest : Dest, amount : Nat \ {0}]
Tx      == [from : Key, to : Key \cup Dest, amount : Nat \ {0}, nonce : Nat, withdraw : BOOLEAN]
Batches == [old : Tree, new : Tree, deps : Seq(QueueEntry), wds : Seq(Payout), txs : Seq(Tx)]

(* Every variable keeps its type; in particular the padding key, whose     *)
(* secret is public, never has an account, and no balance leaves u64.      *)
TypeOK ==
  /\ root \in Tree
  /\ deposits \in Seq(QueueEntry) /\ head \in 0 .. Len(deposits)
  /\ held \in 0 .. Supply
  /\ draft \in Batches /\ proved \subseteq Batches
  /\ honest \in BOOLEAN /\ landed \in Seq(Batches)

(* The contract holds exactly the balances under its root and the deposits *)
(* that wait in its queue, whoever proves whatever the circuit allows.     *)
Solvent == held = Total(root) + Pending

(* A proof that the contract would accept never reverts for want of funds: *)
(* the withdrawals it pays are covered.                                    *)
WithdrawalsPayable ==
  \A p \in proved : Accepts(p) => Worth(p.wds) <= held

(* The head of the queue can be proved in the slot of its key and in every *)
(* free slot: only a tree full of other keys can stop the queue, never a   *)
(* balance that would leave u64.                                           *)
HeadProvable ==
  head < Len(deposits) =>
    LET d == deposits[head + 1] IN
    \A i \in Slot : root[i].pk \in {NoKey, d.to} => DepositHolds(root, d, i)

(* What confirm_batch and a verifier of the blob rely on: build_batch, run *)
(* on the lists of a proved batch, gives the root that was proved, as long *)
(* as deposits were proved in the slots it takes.                          *)
ReplayRebuildsRoot ==
  honest => \A p \in proved :
    LET replay == BuildBatch(p.old, p.deps, p.txs)
    IN replay.error = "none" /\ replay.tree = p.new

(* "An unprovable batch must never reach the prover": a deposit or a       *)
(* transaction that build_batch applies satisfies the circuit in the slots *)
(* it takes, and gives the same tree, as long as deposits were proved in   *)
(* those slots and for the recipients that submit_tx admits: it refuses    *)
(* the zero key itself.                                                    *)
BuilderProvable ==
  honest => \A tree \in {root, draft.new} :
    /\ \A d \in [to : Key, amount : Amounts] :
         LET out == ApplyDeposit(tree, d) IN
         out.error = "none" =>
           \E i \in BuilderSlot(tree, d.to) :
             DepositHolds(tree, d, i) /\ out.tree = AfterDeposit(tree, d, i)
    /\ \A s \in Slot : tree[s].pk # NoKey => \A t \in SignedTx(tree, s) : t.to # NoKey =>
         LET out == ApplyTx(tree, t) IN
         out.error = "none" =>
           \E i \in Find(tree, t.from), j \in Slot :
             /\ t.withdraw \/ j \in Find(tree, t.to)
             /\ TxHolds(tree, t, i, j) /\ out.tree = AfterTx(tree, t, i, j)

Spend(t) == <<t.from, t.nonce>>

(* A signed transaction takes effect on the contract at most once, as long *)
(* as deposits were proved in build_batch's slots.                         *)
SignedOnce ==
  honest => \A b, c \in DOMAIN landed :
    \A m \in DOMAIN landed[b].txs, n \in DOMAIN landed[c].txs :
      <<b, m>> # <<c, n>> => Spend(landed[b].txs[m]) # Spend(landed[c].txs[n])

(* A batch with an entry never leads back to a root that the contract had  *)
(* before, so that its proof, which is not numbered, cannot be used again. *)
RootNeverReturns ==
  \A i, j \in DOMAIN landed :
    i <= j /\ landed[j].deps \o landed[j].txs # <<>> => landed[j].new # landed[i].old

(* The contract is a custodian: what it owes is the balances under its     *)
(* root and its queue.                                                     *)
C == INSTANCE Custody WITH owed <- Total(root) + Pending
ImplementsCustody == C!Spec
=============================================================================

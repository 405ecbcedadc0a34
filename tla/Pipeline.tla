------------------------------ MODULE Pipeline ------------------------------
(***************************************************************************)
(* The batch pipeline of the sequencer against the rollup contract: the    *)
(* engine thread and its SQLite database, the batcher and watcher tasks,   *)
(* crashes and boot reconciliation, and the contract that decides which    *)
(* submissions land.                                                       *)
(*                                                                         *)
(* An account tree is abstracted to what its root commits to here: the     *)
(* deposits credited and the transactions applied.  The abstraction is     *)
(* injective up to hash collisions: a nonce is spent by every applied      *)
(* transaction and a deposit only ever adds a positive amount, so two      *)
(* trees with the same root have the same history.  Which transactions a   *)
(* build evicts (nonces, balances, signatures) is left open: EvictTx may   *)
(* reject any candidate.                                                   *)
(*                                                                         *)
(* A definition named Mutant... is not part of the model: it is the        *)
(* definition that follows it with a plausible bug in it, and PROJECT.json *)
(* names the property that detects the exchange.                           *)
(***************************************************************************)
EXTENDS Integers, FiniteSets

CONSTANTS
  MaxDeposits,      \* bound: deposits ever queued on the contract
  MaxTxs,           \* bound: transactions ever admitted to the mempool
  MaxBatches,       \* bound: batches ever landed or built
  DepositSlots,     \* cfg.deposit_slots: deposits per batch
  TxSlots,          \* cfg.tx_slots: transactions per batch
  Withdrawals,      \* which of the transactions are withdrawals
  WithdrawalCap,    \* withdrawals per batch (MAX_WITHDRAWALS)
  MaxCrashes,       \* bound: process crashes
  MaxFaults,        \* bound: SQL statements that fail
  MaxTimeouts,      \* bound: confirmation loops that give up
  OtherSubmitters   \* whether somebody else may submit batches too

ASSUME BoundsAssumption ==
  /\ MaxDeposits \in Nat
  /\ MaxTxs \in Nat
  /\ MaxBatches \in Nat
  /\ DepositSlots \in Nat \ {0}
  /\ TxSlots \in Nat \ {0}
  /\ Withdrawals \subseteq 1 .. MaxTxs
  /\ WithdrawalCap \in Nat \ {0}
  /\ MaxCrashes \in Nat
  /\ MaxFaults \in Nat
  /\ MaxTimeouts \in Nat
  /\ OtherSubmitters \in BOOLEAN

Dep     == 0 .. MaxDeposits - 1      \* queue sequence numbers
Tx      == 1 .. MaxTxs               \* mempool row ids, in admission order
BatchNo == 1 .. MaxBatches           \* batch numbers

VARIABLES
  \* ---- the rollup contract and the submissions sent to it
  root, batchNum, depHead, depTail,
  sent,          \* every envelope handed to the network, never removed
  landed,        \* history: the batches the contract applied, with their number
  \* ---- the sequencer's database
  batches,       \* table batches: BatchNo -> row, NoRow when absent
  depStatus, depBatch,       \* table deposits: columns status and batch_num
  txStatus, txBatch,         \* table mempool: columns status and batch_num
  depCursor,     \* meta.dep_cursor
  confirmed,     \* meta.confirmed_batch_num
  leaves,        \* table leaves
  \* ---- the process and its boot
  proc,          \* "down", "booting" or "up"
  bootRoot,      \* the contract root main() read first
  halted,        \* history: the last boot ended in a reconciliation error
  \* ---- the engine thread
  tree,          \* Engine.tree
  epc, todo,     \* the handler in progress and the rows it has still to write
  bdeps, btxs,   \* build_batch_now's deposits and txs
  \* ---- the batcher task
  bpc, bnum,
  \* ---- the watcher task
  wpc, wcursor, wtail, wobs,
  \* ---- how much of each bounded failure has been used
  crashes, faults, timeouts

chainVars   == <<root, batchNum, depHead, depTail, sent, landed>>
depVars     == <<depStatus, depBatch>>
txVars      == <<txStatus, txBatch>>
dbVars      == <<batches, depVars, txVars, depCursor, confirmed, leaves>>
procVars    == <<proc, bootRoot, halted>>
engineVars  == <<tree, epc, todo, bdeps, btxs>>
batcherVars == <<bpc, bnum>>
watcherVars == <<wpc, wcursor, wtail, wobs>>
boundVars   == <<crashes, faults, timeouts>>
vars == <<chainVars, dbVars, procVars, engineVars, batcherVars, watcherVars,
          boundVars>>

-----------------------------------------------------------------------------
(* Trees, rows and envelopes.                                              *)

Root == [deps: SUBSET Dep, txs: SUBSET Tx]

EmptyRoot == [deps |-> {}, txs |-> {}]

(* build_batch: the tree after crediting D and applying T.                 *)
Apply(r, D, T) == [deps |-> r.deps \cup D, txs |-> r.txs \cup T]

BatchStatus == {"none", "proving", "proved", "submitting", "submitted", "confirmed"}

Row == [old: Root, new: Root, deps: SUBSET Dep, txs: SUBSET Tx,
        proof: BOOLEAN, status: BatchStatus]

NoRow == [old |-> EmptyRoot, new |-> EmptyRoot, deps |-> {}, txs |-> {},
          proof |-> FALSE, status |-> "none"]

Envelope == [old: Root, new: Root, deps: SUBSET Dep, txs: SUBSET Tx]

(* The envelope stored in (or the blob behind) a batch row.                *)
EnvelopeOf(row) ==
  [old |-> row.old, new |-> row.new, deps |-> row.deps, txs |-> row.txs]

(* A landed batch: its envelope and the number the contract gave it.       *)
Stamped(n, e) ==
  [num |-> n, old |-> e.old, new |-> e.new, deps |-> e.deps, txs |-> e.txs]

LandedBatch == [num: BatchNo, old: Root, new: Root, deps: SUBSET Dep, txs: SUBSET Tx]

MutantNewestFirst(S, k) == {x \in S : Cardinality({y \in S : y > x}) < k}

(* ORDER BY ... LIMIT k: the k smallest members of S.                      *)
LimitedTo(S, k) == {x \in S : Cardinality({y \in S : y < x}) < k}

LowestOf(S) == {x \in S : \A y \in S : x <= y}

(* Stretches of the deposit queue.                                         *)
Prefix(k)     == {d \in Dep : d < k}
Segment(h, c) == {d \in Dep : h <= d /\ d < h + c}

PendingDeps == {d \in Dep : depStatus[d] = "pending"}

MutantRetryRejected == {t \in Tx : txStatus[t] \in {"pending", "rejected"}}
PendingTxs  == {t \in Tx : txStatus[t] = "pending"}

(* The transactions of the next batch: the oldest candidates, those        *)
(* withdrawals left out that would exceed the cap.                         *)
Candidates == LimitedTo(PendingTxs, 4 * TxSlots)
MutantCapShort ==
  {t \in Candidates : t \in Withdrawals =>
     Cardinality({u \in Candidates \cap Withdrawals : u <= t}) < WithdrawalCap}
WithinCap ==
  {t \in Candidates : t \in Withdrawals =>
     Cardinality({u \in Candidates \cap Withdrawals : u < t}) < WithdrawalCap}
Selected == LimitedTo(WithinCap, TxSlots)

(* db::inflight_batch: the row in a non-terminal status, the last if there *)
(* were several; a set of at most one batch number.                        *)
NonTerminal == {n \in BatchNo : batches[n].status \notin {"none", "confirmed"}}
Inflight    == {n \in NonTerminal : \A m \in NonTerminal : m <= n}

-----------------------------------------------------------------------------
Init ==
  /\ root = EmptyRoot /\ batchNum = 0 /\ depHead = 0 /\ depTail = 0
  /\ sent = {} /\ landed = {}
  /\ batches = [n \in BatchNo |-> NoRow]
  /\ depStatus = [d \in Dep |-> "none"] /\ depBatch = [d \in Dep |-> 0]
  /\ txStatus = [t \in Tx |-> "none"] /\ txBatch = [t \in Tx |-> 0]
  /\ depCursor = 0 /\ confirmed = 0 /\ leaves = EmptyRoot
  /\ proc = "down" /\ bootRoot = EmptyRoot /\ halted = FALSE
  /\ tree = EmptyRoot /\ epc = "idle" /\ todo = {} /\ bdeps = {} /\ btxs = {}
  /\ bpc = "boot" /\ bnum = 0
  /\ wpc = "idle" /\ wcursor = 0 /\ wtail = 0 /\ wobs = 0
  /\ crashes = 0 /\ faults = 0 /\ timeouts = 0

-----------------------------------------------------------------------------
(* The contract.                                                           *)

(* A user's deposit joins the FIFO queue.                                  *)
Deposit ==
  /\ depTail < MaxDeposits
  /\ depTail' = depTail + 1
  /\ UNCHANGED <<root, batchNum, depHead, sent, landed, dbVars, procVars,
                 engineVars, batcherVars, watcherVars, boundVars>>

MutantUnboundRoot(e) ==
  LET count == Cardinality(e.deps) IN
  depHead + count <= depTail /\ e.deps = Segment(depHead, count)

(* submit_batch's checks, as they bear on an honestly proved envelope: the *)
(* proof binds the current root, and the deposit fold the contract         *)
(* computes over its own queue is the envelope's.                          *)
Accepts(e) ==
  LET count == Cardinality(e.deps) IN
  /\ e.old = root
  /\ depHead + count <= depTail
  /\ e.deps = Segment(depHead, count)

MutantDequeueOne(e) == 1
Dequeued(e) == Cardinality(e.deps)

(* submit_batch applies e: dequeue, advance the root, count the batch.     *)
LandEffect(e) ==
  /\ batchNum < MaxBatches
  /\ root' = e.new
  /\ depHead' = depHead + Dequeued(e)
  /\ batchNum' = batchNum + 1
  /\ landed' = landed \cup {Stamped(batchNum + 1, e)}
  /\ UNCHANGED <<depTail, sent, dbVars, procVars, engineVars, batcherVars,
                 watcherVars, boundVars>>

(* The network delivers one of the envelopes ever sent.  Nothing leaves    *)
(* sent: a submission may be delayed past a crash, delivered twice or      *)
(* never.  One the contract rejects changes nothing.                       *)
Land(e) == Accepts(e) /\ LandEffect(e)

(* submit_batch is permissionless: somebody else may prove and submit the  *)
(* next deposits of the queue, as many as the circuit has slots for, and   *)
(* any signed transactions whose nonces the root has not spent, whether    *)
(* the sequencer knows them or not.                                        *)
OtherLand(count, T) ==
  /\ OtherSubmitters
  /\ depHead + count <= depTail
  /\ T \cap root.txs = {}
  /\ Cardinality(T) <= TxSlots /\ Cardinality(T \cap Withdrawals) <= WithdrawalCap
  /\ LET deps == Segment(depHead, count) IN
     LandEffect([old |-> root, new |-> Apply(root, deps, T), deps |-> deps, txs |-> T])

-----------------------------------------------------------------------------
(* The process.                                                            *)

(* The process dies at any point: everything but the database and what the *)
(* network already holds is lost.                                          *)
Crash ==
  /\ proc # "down" /\ crashes < MaxCrashes
  /\ crashes' = crashes + 1
  /\ proc' = "down"
  /\ epc' = "idle" /\ todo' = {} /\ bdeps' = {} /\ btxs' = {}
  /\ tree' = EmptyRoot /\ bootRoot' = EmptyRoot
  /\ bpc' = "boot" /\ bnum' = 0
  /\ wpc' = "idle" /\ wcursor' = 0 /\ wtail' = 0 /\ wobs' = 0
  /\ UNCHANGED <<chainVars, dbVars, halted, faults, timeouts>>

(* main() reads the contract's root, and only then its batch number.       *)
BootReadRoot ==
  /\ proc = "down"
  /\ proc' = "booting" /\ bootRoot' = root
  /\ UNCHANGED <<chainVars, dbVars, halted, engineVars, batcherVars,
                 watcherVars, boundVars>>

(* load_and_reconcile, given the two values main() read from the chain:    *)
(* one batch ahead of the database is fine if it is the one in flight, and *)
(* otherwise number and root must agree exactly.                           *)
LandedBeforeCrash(chainRoot, chainBatch) ==
  /\ chainBatch = confirmed + 1
  /\ \E n \in Inflight : batches[n].new = chainRoot
InStep(chainRoot, chainBatch) ==
  chainBatch = confirmed /\ leaves = chainRoot
Reconciles(chainRoot, chainBatch) ==
  LandedBeforeCrash(chainRoot, chainBatch) \/ InStep(chainRoot, chainBatch)

(* Requeue the inputs of batch n and drop its row, in one SQL transaction: *)
(* the number is built again, and batch_num is the primary key.            *)
MutantLoseDeps(n) == UNCHANGED depVars
RequeueDeps(n) ==
  LET depsOf == {d \in Dep : depStatus[d] = "batching" /\ depBatch[d] = n} IN
  /\ depStatus' = [d \in Dep |-> IF d \in depsOf THEN "pending" ELSE depStatus[d]]
  /\ depBatch'  = [d \in Dep |-> IF d \in depsOf THEN 0 ELSE depBatch[d]]

MutantLoseTxs(n) == UNCHANGED txVars
RequeueTxs(n) ==
  LET txsOf == {t \in Tx : txStatus[t] = "batching" /\ txBatch[t] = n} IN
  /\ txStatus' = [t \in Tx |-> IF t \in txsOf THEN "pending" ELSE txStatus[t]]
  /\ txBatch'  = [t \in Tx |-> IF t \in txsOf THEN 0 ELSE txBatch[t]]

MutantKeepRow(n) == batches' = [batches EXCEPT ![n].status = "confirmed"]
DropRow(n) == batches' = [batches EXCEPT ![n] = NoRow]

Requeue(n) == RequeueDeps(n) /\ RequeueTxs(n) /\ DropRow(n)

MutantInterrupted == Inflight
(* The batch in flight, if a crash interrupted it before its proof.        *)
InterruptedProve == {n \in Inflight : batches[n].status = "proving"}

(* Reconciliation succeeds: the tree is the leaves table, the watcher      *)
(* starts from dep_cursor, the batcher from the batch in flight.  A batch  *)
(* interrupted before its proof is requeued, unless it has landed.         *)
BootUp ==
  /\ proc = "booting"
  /\ Reconciles(bootRoot, batchNum)
  /\ IF batchNum = confirmed /\ InterruptedProve # {}
     THEN \E n \in InterruptedProve : Requeue(n)
     ELSE UNCHANGED <<batches, depVars, txVars>>
  /\ proc' = "up" /\ halted' = FALSE
  /\ tree' = leaves
  /\ wcursor' = depCursor
  /\ bootRoot' = EmptyRoot
  /\ UNCHANGED <<chainVars, depCursor, confirmed, leaves, epc, todo,
                 bdeps, btxs, bpc, bnum, wpc, wtail, wobs, boundVars>>

(* It does not: the process exits, and docker starts it again.             *)
BootHalt ==
  /\ proc = "booting"
  /\ ~Reconciles(bootRoot, batchNum)
  /\ proc' = "down" /\ halted' = TRUE
  /\ bootRoot' = EmptyRoot
  /\ UNCHANGED <<chainVars, dbVars, engineVars, batcherVars,
                 watcherVars, boundVars>>

-----------------------------------------------------------------------------
(* The engine: admission and the build.  A command runs to its end before  *)
(* the next one, but every SQL statement outside a transaction commits on  *)
(* its own, so a crash or an SQL error can fall between two of them.       *)

EngineIdle == proc = "up" /\ epc = "idle"

(* submit_tx inserts a row with the next AUTOINCREMENT id.                 *)
AdmitTx(t) ==
  /\ EngineIdle
  /\ txStatus[t] = "none"
  /\ \A u \in Tx : u < t => txStatus[u] # "none"
  /\ txStatus' = [txStatus EXCEPT ![t] = "pending"]
  /\ UNCHANGED <<chainVars, batches, depVars, txBatch, depCursor, confirmed,
                 leaves, procVars, engineVars, batcherVars, watcherVars,
                 boundVars>>

(* try_build_batch: with nothing in flight and something pending, choose   *)
(* the next inputs.  Its three triggers reduce to "something is pending":  *)
(* the oldest row may always have waited long enough.                      *)
TryBuild ==
  /\ EngineIdle /\ bpc = "tick"
  /\ Inflight = {}
  /\ PendingDeps # {} \/ PendingTxs # {}
  /\ confirmed < MaxBatches
  /\ bdeps' = LimitedTo(PendingDeps, DepositSlots)
  /\ btxs' = Selected
  /\ epc' = "select" /\ bpc' = "building"
  /\ UNCHANGED <<chainVars, dbVars, procVars, tree, todo, bnum, watcherVars,
                 boundVars>>

MutantNeverEmpty(t) == FALSE
NothingLeftWithout(t) == btxs = {t} /\ bdeps = {}

(* build_batch refuses transaction t: it is rejected for good and the      *)
(* build tried again without it, unless nothing is left.                   *)
EvictTx(t) ==
  /\ epc = "select" /\ t \in btxs
  /\ txStatus' = [txStatus EXCEPT ![t] = "rejected"]
  /\ txBatch' = [txBatch EXCEPT ![t] = 0]
  /\ IF NothingLeftWithout(t)
     THEN epc' = "idle" /\ bpc' = "tick" /\ btxs' = {}
     ELSE btxs' = btxs \ {t} /\ UNCHANGED <<epc, bpc>>
  /\ UNCHANGED <<chainVars, batches, depVars, depCursor, confirmed, leaves,
                 procVars, tree, todo, bdeps, bnum, watcherVars, boundVars>>

(* build_batch refuses a deposit (tree full, balance overflow) or fails in *)
(* a way no eviction cures: nothing is built on this tick.                 *)
BuildGivesUp ==
  /\ epc = "select"
  /\ epc' = "idle" /\ bdeps' = {} /\ btxs' = {}
  /\ bpc' = "tick"
  /\ UNCHANGED <<chainVars, dbVars, procVars, tree, todo, bnum, watcherVars,
                 boundVars>>

(* The build succeeds: its row goes in first ...                           *)
InsertBatch ==
  LET n == confirmed + 1 IN
  /\ epc = "select"
  /\ batches[n].status = "none"
  /\ batches' = [batches EXCEPT ![n] =
       [old |-> tree, new |-> Apply(tree, bdeps, btxs), deps |-> bdeps,
        txs |-> btxs, proof |-> FALSE, status |-> "proving"]]
  /\ bnum' = n
  /\ epc' = "markDeps" /\ todo' = bdeps
  /\ UNCHANGED <<chainVars, depVars, txVars, depCursor, confirmed, leaves,
                 procVars, tree, bdeps, btxs, bpc, watcherVars, boundVars>>

MutantMarkedEarly == TRUE
AllMarked == todo = {}

(* ... then its deposits are marked one by one ...                         *)
MarkDeposit ==
  /\ epc = "markDeps"
  /\ \/ /\ \E d \in LowestOf(todo) :
             /\ depStatus' = [depStatus EXCEPT ![d] = "batching"]
             /\ depBatch' = [depBatch EXCEPT ![d] = bnum]
             /\ todo' = todo \ {d}
        /\ UNCHANGED epc
     \/ /\ AllMarked
        /\ epc' = "markTxs" /\ todo' = btxs
        /\ UNCHANGED depVars
  /\ UNCHANGED <<chainVars, batches, txVars, depCursor, confirmed, leaves,
                 procVars, tree, bdeps, btxs, batcherVars, watcherVars,
                 boundVars>>

(* ... and its transactions, and the batcher gets the job.                 *)
MarkTx ==
  /\ epc = "markTxs"
  /\ \/ /\ \E t \in LowestOf(todo) :
             /\ txStatus' = [txStatus EXCEPT ![t] = "batching"]
             /\ txBatch' = [txBatch EXCEPT ![t] = bnum]
             /\ todo' = todo \ {t}
        /\ UNCHANGED <<epc, bdeps, btxs, bpc>>
     \/ /\ AllMarked
        /\ epc' = "idle" /\ bdeps' = {} /\ btxs' = {}
        /\ bpc' = "prove"
        /\ UNCHANGED <<todo, txVars>>
  /\ UNCHANGED <<chainVars, batches, depVars, depCursor, confirmed, leaves,
                 procVars, tree, bnum, watcherVars, boundVars>>

-----------------------------------------------------------------------------
(* The batcher: prove, submit, confirm.                                    *)

(* On boot, the batch in flight is taken up where its status says.         *)
Resume ==
  /\ EngineIdle /\ bpc = "boot"
  /\ IF Inflight = {}
     THEN bpc' = "tick" /\ UNCHANGED <<batches, depVars, txVars, bnum>>
     ELSE \E n \in Inflight :
            /\ bnum' = n
            /\ IF batches[n].status = "proving"
               THEN Requeue(n) /\ bpc' = "tick"
               ELSE /\ batches[n].proof
                    /\ batches' = [batches EXCEPT ![n].status = "submitting"]
                    /\ bpc' = "mark"
                    /\ UNCHANGED <<depVars, txVars>>
  /\ UNCHANGED <<chainVars, depCursor, confirmed, leaves, procVars,
                 engineVars, watcherVars, boundVars>>

(* The prover returns and record_proof stores the proof with the envelope. *)
RecordProof ==
  /\ EngineIdle /\ bpc = "prove"
  /\ batches[bnum].status # "none"
  /\ batches' = [batches EXCEPT ![bnum].proof = TRUE, ![bnum].status = "proved"]
  /\ bpc' = "mark"
  /\ UNCHANGED <<chainVars, depVars, txVars, depCursor, confirmed, leaves,
                 procVars, engineVars, bnum, watcherVars, boundVars>>

(* It fails, or the proof is not the batch's: fail_batch requeues.         *)
ProveFails ==
  /\ EngineIdle /\ bpc = "prove"
  /\ Requeue(bnum)
  /\ bpc' = "tick"
  /\ UNCHANGED <<chainVars, depCursor, confirmed, leaves, procVars,
                 engineVars, bnum, watcherVars, boundVars>>

(* mark_submitting, before the CLI is called.                              *)
MarkSubmitting ==
  /\ EngineIdle /\ bpc = "mark"
  /\ batches[bnum].proof
  /\ batches' = [batches EXCEPT ![bnum].status = "submitting"]
  /\ bpc' = "send"
  /\ UNCHANGED <<chainVars, depVars, txVars, depCursor, confirmed, leaves,
                 procVars, engineVars, bnum, watcherVars, boundVars>>

(* The CLI is started: the envelope is on the network from here on.        *)
Submit ==
  /\ proc = "up" /\ bpc = "send"
  /\ sent' = sent \cup {EnvelopeOf(batches[bnum])}
  /\ bpc' = "sending"
  /\ UNCHANGED <<root, batchNum, depHead, depTail, landed, dbVars, procVars,
                 engineVars, bnum, watcherVars, boundVars>>

(* It exits with success, which implies that the batch was applied.        *)
SubmitOk ==
  /\ EngineIdle /\ bpc = "sending"
  /\ \E b \in landed : EnvelopeOf(b) = EnvelopeOf(batches[bnum])
  /\ batches' = [batches EXCEPT ![bnum].status = "submitted"]
  /\ bpc' = "confirm"
  /\ UNCHANGED <<chainVars, depVars, txVars, depCursor, confirmed, leaves,
                 procVars, engineVars, bnum, watcherVars, boundVars>>

MutantErrRequeues ==
  /\ proc = "up" /\ bpc = "sending" /\ Requeue(bnum)
  /\ bpc' = "tick"
  /\ UNCHANGED <<chainVars, depCursor, confirmed, leaves, procVars,
                 engineVars, bnum, watcherVars, boundVars>>

(* It exits with an error, which says nothing about what landed.           *)
SubmitErr ==
  /\ proc = "up" /\ bpc = "sending"
  /\ bpc' = "confirm"
  /\ UNCHANGED <<chainVars, dbVars, procVars, engineVars, bnum, watcherVars,
                 boundVars>>

MutantTrustSubmit == TRUE
MutantOneShort == batchNum + 1 >= bnum
(* The poll's test compares batch numbers, not roots.                      *)
ReachedOnChain == batchNum >= bnum

(* The replay of a stored blob on the engine's tree gives the stored root; *)
(* it cannot if the tree already holds one of the inputs.                  *)
Replays(row) ==
  /\ tree.deps \cap row.deps = {} /\ tree.txs \cap row.txs = {}
  /\ Apply(tree, row.deps, row.txs) = row.new

(* A poll finds the contract at this batch's number: confirm_batch replays *)
(* the blob on a clone and, if the root is the stored one, swaps the tree. *)
PollConfirm ==
  LET row == batches[bnum] IN
  /\ EngineIdle /\ bpc = "confirm"
  /\ ReachedOnChain
  /\ IF row.status # "none" /\ Replays(row)
     THEN tree' = row.new /\ epc' = "commit" /\ bpc' = "confirming"
     ELSE bpc' = "tick" /\ UNCHANGED <<tree, epc>>
  /\ UNCHANGED <<chainVars, dbVars, procVars, todo, bdeps, btxs, bnum,
                 watcherVars, boundVars>>

MutantPruneRow == batches' = [batches EXCEPT ![bnum] = NoRow]
KeepRowConfirmed == batches' = [batches EXCEPT ![bnum].status = "confirmed"]

(* The SQL transaction that follows: leaves, confirmed_batch_num and the   *)
(* terminal statuses change together.                                      *)
ConfirmCommit ==
  LET row == batches[bnum] IN
  /\ epc = "commit"
  /\ leaves' = tree
  /\ confirmed' = bnum
  /\ depStatus' = [d \in Dep |-> IF d \in row.deps THEN "consumed" ELSE depStatus[d]]
  /\ depBatch'  = [d \in Dep |-> IF d \in row.deps THEN bnum ELSE depBatch[d]]
  /\ txStatus'  = [t \in Tx |-> IF t \in row.txs THEN "included" ELSE txStatus[t]]
  /\ txBatch'   = [t \in Tx |-> IF t \in row.txs THEN bnum ELSE txBatch[t]]
  /\ KeepRowConfirmed
  /\ epc' = "idle" /\ bpc' = "tick"
  /\ UNCHANGED <<chainVars, depCursor, procVars, tree, todo, bdeps, btxs, bnum,
                 watcherVars, boundVars>>

(* The confirmation loop gives up after its attempts.                      *)
PollTimeout ==
  /\ proc = "up" /\ bpc = "confirm" /\ timeouts < MaxTimeouts
  /\ timeouts' = timeouts + 1
  /\ bpc' = "tick"
  /\ UNCHANGED <<chainVars, dbVars, procVars, engineVars, bnum, watcherVars,
                 crashes, faults>>

-----------------------------------------------------------------------------
(* The watcher, and the engine's observed_deposits.                        *)

(* A tick reads dep_tail.                                                  *)
WatchTail ==
  /\ proc = "up" /\ wpc = "idle"
  /\ depTail > wcursor
  /\ wtail' = depTail /\ wobs' = 0 /\ wpc' = "fetch"
  /\ UNCHANGED <<chainVars, dbVars, procVars, engineVars, batcherVars,
                 wcursor, boundVars>>

MutantPastTail == wcursor + wobs <= wtail
MoreToFetch == wcursor + wobs < wtail

(* get_pending_deposit answers for a deposit still in the queue.           *)
WatchFetch ==
  /\ proc = "up" /\ wpc = "fetch"
  /\ MoreToFetch
  /\ wcursor + wobs >= depHead
  /\ wobs' = wobs + 1
  /\ UNCHANGED <<chainVars, dbVars, procVars, engineVars, batcherVars, wpc,
                 wcursor, wtail, boundVars>>

(* The scan is over, or a call fails: for want of an RPC answer, or        *)
(* because the deposit was dequeued and the getter traps.  What was read   *)
(* so far is reported.                                                     *)
WatchStop ==
  /\ proc = "up" /\ wpc = "fetch"
  /\ wpc' = IF wobs = 0 THEN "idle" ELSE "report"
  /\ UNCHANGED <<chainVars, dbVars, procVars, engineVars, batcherVars,
                 wcursor, wtail, wobs, boundVars>>

(* The engine takes the report up ...                                      *)
ObserveDeposits ==
  /\ EngineIdle /\ wpc = "report"
  /\ wpc' = "await" /\ epc' = "insertDeps"
  /\ todo' = Segment(wcursor, wobs)
  /\ UNCHANGED <<chainVars, dbVars, procVars, tree, bdeps, btxs, batcherVars,
                 wcursor, wtail, wobs, boundVars>>

MutantOrReplace(status) == "pending"
OrIgnore(status) == IF status = "none" THEN "pending" ELSE status

(* ... inserts the rows it does not have ...                               *)
InsertDeposit ==
  /\ epc = "insertDeps"
  /\ \E d \in LowestOf(todo) :
       /\ depStatus' = [depStatus EXCEPT ![d] = OrIgnore(@)]
       /\ todo' = todo \ {d}
  /\ UNCHANGED <<chainVars, batches, depBatch, txVars, depCursor, confirmed,
                 leaves, procVars, tree, epc, bdeps, btxs, batcherVars,
                 watcherVars, boundVars>>

MutantCursorAtTail == wtail
CursorAfterReport == wcursor + wobs

(* ... and only then moves the stored cursor; the watcher moves its own.   *)
SetCursor ==
  /\ epc = "insertDeps" /\ todo = {}
  /\ depCursor' = CursorAfterReport
  /\ epc' = "idle"
  /\ wcursor' = CursorAfterReport /\ wpc' = "idle"
  /\ UNCHANGED <<chainVars, batches, depVars, txVars, confirmed, leaves,
                 procVars, tree, todo, bdeps, btxs, batcherVars, wtail, wobs,
                 boundVars>>

-----------------------------------------------------------------------------
(* SQL errors: the handler returns Err where it stands, keeping what it    *)
(* already wrote, and its caller goes back to its loop.                    *)

BuildFault ==
  /\ epc \in {"select", "markDeps", "markTxs", "commit"} /\ faults < MaxFaults
  /\ faults' = faults + 1
  /\ epc' = "idle" /\ todo' = {} /\ bdeps' = {} /\ btxs' = {}
  /\ bpc' = "tick"
  /\ UNCHANGED <<chainVars, dbVars, procVars, tree, bnum, watcherVars,
                 crashes, timeouts>>

ObserveFault ==
  /\ epc = "insertDeps" /\ faults < MaxFaults
  /\ faults' = faults + 1
  /\ epc' = "idle" /\ todo' = {}
  /\ wpc' = "idle"
  /\ UNCHANGED <<chainVars, dbVars, procVars, tree, bdeps, btxs, batcherVars,
                 wcursor, wtail, wobs, crashes, timeouts>>

(* The resume, mark_submitting or fail_batch fails: the batcher gives the  *)
(* batch up and leaves it in flight.                                       *)
CommandFault ==
  /\ EngineIdle /\ bpc \in {"boot", "prove", "mark"} /\ faults < MaxFaults
  /\ faults' = faults + 1
  /\ bpc' = "tick"
  /\ UNCHANGED <<chainVars, dbVars, procVars, engineVars, bnum, watcherVars,
                 crashes, timeouts>>

-----------------------------------------------------------------------------
Environment ==
  \/ Deposit
  \/ \E e \in sent : Land(e)
  \/ \E count \in 0 .. DepositSlots, T \in SUBSET Tx : OtherLand(count, T)
  \/ \E t \in Tx : AdmitTx(t)

Process == Crash \/ BootReadRoot \/ BootUp \/ BootHalt

Build ==
  \/ TryBuild
  \/ \E t \in Tx : EvictTx(t)
  \/ BuildGivesUp \/ InsertBatch \/ MarkDeposit \/ MarkTx

Batcher ==
  \/ Resume \/ RecordProof \/ ProveFails \/ MarkSubmitting \/ Submit
  \/ SubmitOk \/ SubmitErr \/ PollConfirm \/ ConfirmCommit \/ PollTimeout

Watcher ==
  WatchTail \/ WatchFetch \/ WatchStop \/ ObserveDeposits \/ InsertDeposit \/ SetCursor

Fault == BuildFault \/ ObserveFault \/ CommandFault

Next == Environment \/ Process \/ Build \/ Batcher \/ Watcher \/ Fault

Spec == Init /\ [][Next]_vars

(* What liveness needs.  The engine thread, the tasks and the restart      *)
(* policy (docker-compose: unless-stopped) keep running; a submission in   *)
(* the network lands if the contract goes on accepting it; the prover, the *)
(* RPC reads, the builds and the reconciliation succeed if tried often     *)
(* enough.                                                                 *)
Fairness ==
  /\ WF_vars(BootReadRoot) /\ SF_vars(BootUp) /\ WF_vars(BootHalt)
  /\ WF_vars(TryBuild) /\ SF_vars(InsertBatch)
  /\ WF_vars(MarkDeposit) /\ WF_vars(MarkTx)
  /\ WF_vars(Resume) /\ SF_vars(RecordProof) /\ WF_vars(MarkSubmitting)
  /\ WF_vars(Submit) /\ WF_vars(SubmitErr)
  /\ WF_vars(PollConfirm) /\ WF_vars(ConfirmCommit)
  /\ WF_vars(\E e \in sent : Land(e))
  /\ WF_vars(WatchTail) /\ SF_vars(WatchFetch) /\ WF_vars(WatchStop)
  /\ WF_vars(ObserveDeposits) /\ WF_vars(InsertDeposit) /\ WF_vars(SetCursor)

FairSpec == Spec /\ Fairness

-----------------------------------------------------------------------------
(* Correctness.                                                            *)

(* Every variable keeps its type.                                          *)
TypeOK ==
  /\ root \in Root /\ batchNum \in 0 .. MaxBatches
  /\ depHead \in 0 .. MaxDeposits /\ depTail \in 0 .. MaxDeposits
  /\ sent \subseteq Envelope /\ landed \subseteq LandedBatch
  /\ batches \in [BatchNo -> Row]
  /\ depStatus \in [Dep -> {"none", "pending", "batching", "consumed"}]
  /\ depBatch \in [Dep -> 0 .. MaxBatches]
  /\ txStatus \in [Tx -> {"none", "pending", "batching", "included", "rejected"}]
  /\ txBatch \in [Tx -> 0 .. MaxBatches]
  /\ depCursor \in 0 .. MaxDeposits
  /\ confirmed \in 0 .. MaxBatches /\ leaves \in Root
  /\ proc \in {"down", "booting", "up"} /\ bootRoot \in Root /\ halted \in BOOLEAN
  /\ tree \in Root
  /\ epc \in {"idle", "select", "markDeps", "markTxs", "commit", "insertDeps"}
  /\ todo \subseteq Int /\ bdeps \subseteq Dep /\ btxs \subseteq Tx
  /\ bpc \in {"boot", "tick", "building", "prove", "mark", "send", "sending",
              "confirm", "confirming"}
  /\ bnum \in 0 .. MaxBatches
  /\ wpc \in {"idle", "fetch", "report", "await"}
  /\ wcursor \in 0 .. MaxDeposits /\ wtail \in 0 .. MaxDeposits
  /\ wobs \in 0 .. MaxDeposits
  /\ crashes \in 0 .. MaxCrashes /\ faults \in 0 .. MaxFaults
  /\ timeouts \in 0 .. MaxTimeouts

(* The contract is never out of the sequencer's reach: whatever was lost,  *)
(* delayed, sent twice or interrupted, a boot that reads the contract as   *)
(* it now stands reconciles (load_and_reconcile takes neither of its "halt"*)
(* branches), because at most one batch has landed beyond the database and *)
(* that one is the batch in flight.                                        *)
AlwaysRecoverable ==
  /\ Reconciles(root, batchNum)
  /\ batchNum = confirmed + 1 =>
       \E n \in Inflight : /\ n = batchNum
                          /\ batches[n].old = leaves
                          /\ batches[n].status \in {"submitting", "submitted"}

(* What has landed is held: a deposit the contract has dequeued, or a      *)
(* transaction whose effect is in the root, is never again up for a batch  *)
(* nor reported rejected, in any interleaving of fail_batch, boot and      *)
(* landing.                                                                *)
LandedInputsHeld ==
  /\ \A d \in root.deps : depStatus[d] \in {"batching", "consumed"}
  /\ \A t \in root.txs : txStatus[t] \in {"batching", "included"}

(* Statuses served to users tell the truth: "consumed" and "included" rows *)
(* are exactly those whose effect is in the leaves table and in a root the *)
(* contract has accepted, and a rejected transaction never takes effect.   *)
StatusTellsTruth ==
  /\ {d \in Dep : depStatus[d] = "consumed"} = leaves.deps
  /\ {t \in Tx : txStatus[t] = "included"} = leaves.txs
  /\ leaves.deps \subseteq root.deps /\ leaves.txs \subseteq root.txs
  /\ \A t \in Tx : txStatus[t] = "rejected" => t \notin root.txs

(* No input is orphaned: a row marked batching belongs to the batch in     *)
(* flight, whose failure or confirmation will move it on; none is left     *)
(* behind by a crash or an SQL error between the statements of a build.    *)
NoOrphanedInputs ==
  /\ \A d \in Dep : depStatus[d] = "batching" =>
       \E n \in Inflight : depBatch[d] = n /\ d \in batches[n].deps
  /\ \A t \in Tx : txStatus[t] = "batching" =>
       \E n \in Inflight : txBatch[t] = n /\ t \in batches[n].txs

(* Once a batch may be on the network its inputs are all reserved, so no   *)
(* other batch can be built from them.                                     *)
SubmittedInputsReserved ==
  \A n \in Inflight : batches[n].status # "proving" =>
    /\ \A d \in batches[n].deps : depStatus[d] = "batching"
    /\ \A t \in batches[n].txs : txStatus[t] = "batching"

(* Every envelope on the network is one the contract accepts until it      *)
(* lands, and never again after: its deposits are the queue's next prefix  *)
(* and its root is current, so nothing but delivery is needed to make      *)
(* progress, and a second delivery is refused.                             *)
SentAcceptedUntilLanded ==
  \A e \in sent :
    Accepts(e) <=> ~ \E b \in landed : EnvelopeOf(b) = e

(* Exactly once: two landed batches share no deposit, no transaction and   *)
(* no number, and together they are the root.                              *)
AppliedOnce ==
  /\ \A a, b \in landed : a # b =>
       a.num # b.num /\ a.deps \cap b.deps = {} /\ a.txs \cap b.txs = {}
  /\ root.deps = UNION {b.deps : b \in landed}
  /\ root.txs = UNION {b.txs : b \in landed}

(* Data availability: for every batch the contract ever applied the        *)
(* database holds the row with its number and its exact contents, so       *)
(* get_da can serve the blob (once it is confirmed) and the account        *)
(* openings can be rebuilt.                                                *)
BlobKeptForLanded ==
  \A b \in landed :
    /\ batches[b.num].status \in {"submitting", "submitted", "confirmed"}
    /\ EnvelopeOf(batches[b.num]) = EnvelopeOf(b)

(* The queue is served in order: what the contract has credited is exactly *)
(* the deposits before its head.                                           *)
CreditedInOrder == root.deps = {d \in Dep : d < depHead}

(* The engine's tree is the confirmed one, or, while a confirmation whose  *)
(* commit has not (or could not) be made is pending, the contract's.       *)
TreeIsConfirmedOrLanded ==
  proc = "up" => tree = leaves \/ (batchNum = confirmed + 1 /\ tree = root)

(* A reconciliation error always reports a real divergence: the process    *)
(* never stops at "manual repair needed" while contract and database agree.*)
HaltsOnlyOnDivergence == halted => ~Reconciles(root, batchNum)

-----------------------------------------------------------------------------
(* Steps that must never be taken.                                         *)

(* A batch that has been on the network is only ever confirmed as it is:   *)
(* its row is not deleted, requeued, rebuilt or taken back before its      *)
(* submission.                                                             *)
SubmittedNeverUndone ==
  [][\A n \in BatchNo :
       batches[n].status \in {"submitting", "submitted", "confirmed"} =>
         /\ EnvelopeOf(batches[n]') = EnvelopeOf(batches[n])
         /\ batches[n]'.status \in {"submitting", "submitted", "confirmed"}
         /\ batches[n].status = "confirmed" => batches[n]'.status = "confirmed"]_vars

(* A settled row stays settled, with its batch number.                     *)
TerminalIsFinal ==
  [][/\ \A d \in Dep : depStatus[d] = "consumed" =>
          depStatus[d]' = "consumed" /\ depBatch[d]' = depBatch[d]
     /\ \A t \in Tx : txStatus[t] \in {"included", "rejected"} =>
          txStatus[t]' = txStatus[t] /\ txBatch[t]' = txBatch[t]]_vars

(* The root confirmed locally is the contract's: confirm_batch is reached  *)
(* only when the contract's root equals this batch's new_root.             *)
ConfirmsTheChainRoot ==
  [][confirmed' # confirmed => leaves' = root]_vars

-----------------------------------------------------------------------------
(* Progress.                                                               *)

(* Every deposit the sequencer has recorded is eventually credited and     *)
(* confirmed, crashes included.                                            *)
RecordedDepositsSettle ==
  \A d \in Dep : (depStatus[d] # "none") ~> (depStatus[d] = "consumed")

(* Every admitted transaction is eventually included or rejected.          *)
AdmittedTxsSettle ==
  \A t \in Tx : (txStatus[t] # "none") ~> (txStatus[t] \in {"included", "rejected"})

(* Every deposit in the contract's queue is eventually recorded: a restart *)
(* with a stale cursor is harmless.                                        *)
QueuedDepositsRecorded ==
  \A d \in Dep : (d < depTail) ~> (depStatus[d] # "none")

(* The one exception: the watcher scans from a deposit that was dequeued.  *)
CursorPassed == proc = "up" /\ wcursor < depHead

(* Every queued deposit is eventually recorded, unless a crash left the    *)
(* stored cursor behind the head of the queue.                             *)
QueuedRecordedUnlessPassed ==
  \A d \in Dep : (d < depTail) ~> (depStatus[d] # "none" \/ CursorPassed)
=============================================================================

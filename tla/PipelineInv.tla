---------------------------- MODULE PipelineInv ----------------------------
(***************************************************************************)
(* The inductive invariant of the pipeline when nobody else submits, and   *)
(* the mapping under which the pipeline implements Settlement.             *)
(***************************************************************************)
EXTENDS Pipeline

(* The contract's queue and the deposits the database knows.               *)
QueueInv ==
  /\ root.deps = Prefix(depHead)
  /\ depHead <= depTail

(* The deposits with a row are a prefix of the queue: the first k, which   *)
(* include every dequeued one and everything before the cursors.           *)
KnownInv ==
  \E k \in 0 .. depTail :
    /\ \A d \in Dep : depStatus[d] # "none" <=> d < k
    /\ depHead <= k /\ depCursor <= k
    /\ proc = "up" => wcursor <= k
    /\ epc = "insertDeps" =>
         \A d \in Segment(wcursor, wobs) : d \in todo \/ d < k

(* What the watcher reports is in the queue it has seen, and a report is   *)
(* in the engine's hands only while the watcher awaits the answer.         *)
WatcherInv ==
  /\ wpc # "idle" => wcursor + wobs <= wtail /\ wtail <= depTail
  /\ epc = "insertDeps" => wpc = "await" /\ todo \subseteq Segment(wcursor, wobs)

(* Which rows exist: the confirmed ones, and at most the next.             *)
RowsInv ==
  \A n \in BatchNo :
    /\ batches[n].status = "confirmed" <=> n <= confirmed
    /\ batches[n].status # "none" => n <= confirmed + 1
    /\ batches[n].status \notin {"none", "proving"} => batches[n].proof

(* The batch in flight extends the confirmed tree with inputs it does not  *)
(* have, is not empty, and holds its inputs.                               *)
InflightInv ==
  \A n \in NonTerminal :
    LET row == batches[n] IN
    /\ row.old = leaves
    /\ row.new = Apply(leaves, row.deps, row.txs)
    /\ row.deps \cup row.txs # {}
    /\ \A d \in row.deps :
         depStatus[d] = "batching" \/ (row.status = "proving" /\ depStatus[d] = "pending")
    /\ \A t \in row.txs :
         \/ txStatus[t] = "batching"
         \/ row.status = "proving" /\ txStatus[t] = "pending"

(* Contract and database: in step, or one landed batch apart.              *)
AgreementInv ==
  \/ /\ batchNum = confirmed
     /\ root = leaves
     /\ \A n \in NonTerminal : Accepts(EnvelopeOf(batches[n]))
  \/ /\ batchNum = confirmed + 1
     /\ batchNum \in BatchNo
     /\ batches[batchNum].status \in {"submitting", "submitted"}
     /\ batches[batchNum].new = root

(* A deposit row is consumed exactly when the confirmed tree has credited  *)
(* it, and batching only for a batch in flight that has it.                *)
DepositInv ==
  \A d \in Dep :
    /\ depStatus[d] = "consumed" <=> d \in leaves.deps
    /\ depStatus[d] = "batching" =>
         \E n \in NonTerminal : depBatch[d] = n /\ d \in batches[n].deps

(* The same for transactions.                                              *)
TxInv ==
  \A t \in Tx :
    /\ txStatus[t] = "included" <=> t \in leaves.txs
    /\ txStatus[t] = "batching" =>
         \E n \in NonTerminal : txBatch[t] = n /\ t \in batches[n].txs

(* What has landed is what the rows say, in order, each batch above the    *)
(* ones before it.                                                         *)
LandedInv ==
  /\ \A b \in landed :
       /\ b.num <= batchNum
       /\ b = Stamped(b.num, batches[b.num])
       /\ batches[b.num].status # "none"
       /\ b.new = Apply(b.old, b.deps, b.txs)
       /\ b.deps \cap b.old.deps = {} /\ b.txs \cap b.old.txs = {}
       /\ b.deps \cup b.txs # {}
       /\ b.new.deps \subseteq root.deps /\ b.new.txs \subseteq root.txs
  /\ \A a, b \in landed : a.num < b.num =>
       a.new.deps \subseteq b.old.deps /\ a.new.txs \subseteq b.old.txs
  /\ root.deps = UNION {b.deps : b \in landed}
  /\ root.txs = UNION {b.txs : b \in landed}
  /\ batchNum # 0 => \E b \in landed : b.num = batchNum

(* Whatever is on the network is the batch in flight or has landed.        *)
SentInv ==
  \A e \in sent :
    \/ \E n \in NonTerminal :
         e = EnvelopeOf(batches[n]) /\ batches[n].status \in {"submitting", "submitted"}
    \/ \E b \in landed : EnvelopeOf(b) = e

(* What relates the contract, the network and the database.                *)
CoreInv ==
  /\ QueueInv /\ RowsInv /\ InflightInv /\ AgreementInv
  /\ DepositInv /\ TxInv /\ LandedInv /\ SentInv

(* The engine's build in progress.                                         *)
BuildInv ==
  /\ epc = "select" =>
       /\ NonTerminal = {}
       /\ confirmed < MaxBatches
       /\ \A d \in bdeps : depStatus[d] = "pending"
       /\ \A t \in btxs : txStatus[t] = "pending"
       /\ bdeps = Segment(depHead, Cardinality(bdeps))
       /\ depHead + Cardinality(bdeps) <= depTail
       /\ bdeps \cup btxs # {}
  /\ epc \in {"markDeps", "markTxs"} =>
       /\ bnum \in NonTerminal /\ batches[bnum].status = "proving"
       /\ bdeps = batches[bnum].deps /\ btxs = batches[bnum].txs
  /\ epc = "markDeps" =>
       /\ todo \subseteq bdeps
       /\ \A d \in bdeps \ todo : depStatus[d] = "batching"
  /\ epc = "markTxs" =>
       /\ todo \subseteq btxs
       /\ \A d \in bdeps : depStatus[d] = "batching"
       /\ \A t \in btxs \ todo : txStatus[t] = "batching"

(* The batcher's place in the life of its batch.                           *)
BatcherInv ==
  /\ bpc = "prove" =>
       /\ bnum \in NonTerminal
       /\ \A d \in batches[bnum].deps : depStatus[d] = "batching"
       /\ \A t \in batches[bnum].txs : txStatus[t] = "batching"
       /\ batches[bnum].status = "proving"
  /\ bpc = "mark" =>
       bnum \in NonTerminal /\ batches[bnum].status \in {"proved", "submitting", "submitted"}
  /\ bpc \in {"send", "sending", "confirm", "confirming"} =>
       bnum \in NonTerminal /\ batches[bnum].status \in {"submitting", "submitted"}
  /\ epc = "commit" => batchNum = confirmed + 1 /\ tree = root

(* Which handler the engine runs for which step of the batcher, and that   *)
(* nothing runs in a process that is not up.                               *)
ControlInv ==
  /\ proc # "up" => epc = "idle" /\ bpc = "boot" /\ wpc = "idle"
  /\ epc \in {"select", "markDeps", "markTxs"} <=> bpc = "building"
  /\ epc = "commit" <=> bpc = "confirming"

(* The inductive invariant.                                                *)
IInv ==
  /\ TypeOK /\ CoreInv
  /\ KnownInv /\ WatcherInv
  /\ BuildInv /\ BatcherInv /\ ControlInv
  /\ TreeIsConfirmedOrLanded

-----------------------------------------------------------------------------
(* The user's view of a pipeline state.                                    *)
Admitted == {t \in Tx : txStatus[t] # "none"}
Rejected == {t \in Tx : txStatus[t] = "rejected"}

Abstract == INSTANCE Settlement WITH
  queued   <- depTail,
  admitted <- Admitted,
  rejected <- Rejected,
  settled  <- root,
  recorded <- leaves

(* The pipeline implements Settlement: with crashes, retries, duplicate    *)
(* deliveries and SQL errors in any order, what users can observe is only  *)
(* that queued deposits settle in order, that transactions settle once or  *)
(* are rejected without effect, and that the record follows.               *)
ImplementsSettlement == Abstract!Spec
=============================================================================

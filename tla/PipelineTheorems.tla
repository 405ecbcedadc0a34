-------------------------- MODULE PipelineTheorems --------------------------
(***************************************************************************)
(* What the pipeline guarantees for every number of deposits, transactions *)
(* and batches, every batch shape, and any number of crashes, SQL errors   *)
(* and confirmation timeouts, when nobody else submits batches.            *)
(***************************************************************************)
EXTENDS PipelineProofs

(* The initial states satisfy the invariant.                               *)
LEMMA InitInv == Init => IInv
<1> SUFFICES ASSUME Init PROVE IInv
  OBVIOUS
<1> USE BoundsAssumption
<1>1. EmptyRoot \in Root /\ NoRow \in Row
  BY DataTypes
<1>2. TypeOK
  <2>1. /\ depStatus \in [Dep -> {"none", "pending", "batching", "consumed"}]
        /\ depBatch \in [Dep -> 0 .. MaxBatches]
    BY DEF Init
  <2>2. /\ txStatus \in [Tx -> {"none", "pending", "batching", "included", "rejected"}]
        /\ txBatch \in [Tx -> 0 .. MaxBatches]
    BY DEF Init
  <2>3. batches \in [BatchNo -> Row]
    BY <1>1 DEF Init
  <2>4. /\ root = EmptyRoot /\ leaves = EmptyRoot /\ bootRoot = EmptyRoot /\ tree = EmptyRoot
        /\ batchNum = 0 /\ depHead = 0 /\ depTail = 0 /\ depCursor = 0 /\ confirmed = 0
        /\ bnum = 0 /\ wcursor = 0 /\ wtail = 0 /\ wobs = 0
        /\ crashes = 0 /\ faults = 0 /\ timeouts = 0
        /\ sent = {} /\ landed = {} /\ todo = {} /\ bdeps = {} /\ btxs = {}
        /\ proc = "down" /\ halted = FALSE /\ epc = "idle" /\ bpc = "boot" /\ wpc = "idle"
    BY DEF Init
  <2>5. /\ batchNum \in 0 .. MaxBatches /\ depHead \in 0 .. MaxDeposits
        /\ depTail \in 0 .. MaxDeposits /\ depCursor \in 0 .. MaxDeposits
        /\ confirmed \in 0 .. MaxBatches /\ bnum \in 0 .. MaxBatches
        /\ wcursor \in 0 .. MaxDeposits /\ wtail \in 0 .. MaxDeposits
        /\ wobs \in 0 .. MaxDeposits /\ crashes \in 0 .. MaxCrashes
        /\ faults \in 0 .. MaxFaults /\ timeouts \in 0 .. MaxTimeouts
    BY <2>4
  <2>6. /\ root \in Root /\ leaves \in Root /\ bootRoot \in Root /\ tree \in Root
        /\ sent \subseteq Envelope /\ landed \subseteq LandedBatch
        /\ todo \subseteq Int /\ bdeps \subseteq Dep /\ btxs \subseteq Tx
    BY <1>1, <2>4
  <2> QED BY <2>1, <2>2, <2>3, <2>4, <2>5, <2>6 DEF TypeOK
<1>3. \A n \in BatchNo : batches[n] = NoRow
  BY DEF Init
<1>4. NonTerminal = {}
  BY <1>3 DEF NonTerminal, NoRow
<1>5. QueueInv
  BY DEF Init, QueueInv, Prefix, Dep, EmptyRoot
<1>6. RowsInv
  BY <1>3 DEF Init, RowsInv, NoRow, BatchNo
<1>7. InflightInv /\ AgreementInv
  BY <1>4 DEF Init, InflightInv, AgreementInv
<1>8. DepositInv /\ TxInv
  BY DEF Init, DepositInv, TxInv, EmptyRoot
<1>9. LandedInv /\ SentInv
  BY DEF Init, LandedInv, SentInv, EmptyRoot
<1>10. KnownInv
  <2>1. 0 \in 0 .. depTail
    BY DEF Init
  <2>2. \A d \in Dep : depStatus[d] # "none" <=> d < 0
    BY DEF Init, Dep
  <2> QED BY <2>1, <2>2 DEF Init, KnownInv
<1>11. WatcherInv /\ BuildInv /\ BatcherInv /\ ControlInv /\ TreeIsConfirmedOrLanded
  BY DEF Init, WatcherInv, BuildInv, BatcherInv, ControlInv, TreeIsConfirmedOrLanded
<1> QED BY <1>2, <1>5, <1>6, <1>7, <1>8, <1>9, <1>10, <1>11 DEF IInv, CoreInv

(* IInv is inductive.                                                      *)
LEMMA NextInv ==
  ASSUME ~ OtherSubmitters, IInv, [Next]_vars
  PROVE  IInv'
<1>1. TypeOK /\ StepInv
  BY DEF IInv, StepInv
<1>2. TypeOK'
  BY <1>1, TypeStep DEF StepInv
<1>3. CASE UNCHANGED vars
  <2>1. UNCHANGED <<root, batchNum, depHead, depTail, sent, landed, batches, depStatus,
                    depBatch, txStatus, txBatch, depCursor, confirmed, leaves, proc,
                    bootRoot, halted, tree, epc, todo, bdeps, btxs, bpc, bnum, wpc,
                    wcursor, wtail, wobs, crashes, faults, timeouts>>
    BY <1>3 DEF vars, chainVars, dbVars, depVars, txVars, procVars, engineVars,
                batcherVars, watcherVars, boundVars
  <2>2. depTail' \in Nat /\ depTail <= depTail'
    BY <1>1, <2>1 DEF TypeOK
  <2>3. CoreInv'
    BY <1>1, <2>1, <2>2, CoreStable DEF StepInv
  <2>4. KnownInv' /\ WatcherInv'
    BY <1>1, <2>1 DEF StepInv, KnownInv, WatcherInv, Segment
  <2>5. NonTerminal' = NonTerminal
    BY <2>1 DEF NonTerminal
  <2>6. BuildInv' /\ BatcherInv'
    BY <1>1, <2>1, <2>5 DEF StepInv, BuildInv, BatcherInv, Segment
  <2>7. ControlInv' /\ TreeIsConfirmedOrLanded'
    BY <1>1, <2>1 DEF StepInv, ControlInv, TreeIsConfirmedOrLanded
  <2> QED BY <1>2, <2>3, <2>4, <2>6, <2>7 DEF IInv
<1>4. CASE Next
  <2>1. ASSUME Environment PROVE StepInv'
    <3>1. \A count \in 0 .. DepositSlots, T \in SUBSET Tx : ~ OtherLand(count, T)
      BY DEF OtherLand
    <3> QED BY <1>1, <1>2, <2>1, <3>1, DepositStep, LandStep, AdmitStep DEF Environment
  <2>2. ASSUME Build PROVE StepInv'
    BY <1>1, <1>2, <2>2, TryBuildStep, EvictStep, AbandonStep, InsertBatchStep,
       MarkDepositStep, MarkTxStep DEF Build
  <2>3. StepInv'
    BY <1>1, <1>2, <1>4, <2>1, <2>2, ProcessStep, BatcherStep, WatcherStep, FaultStep
       DEF Next
  <2> QED BY <1>2, <2>3 DEF IInv, StepInv
<1> QED BY <1>3, <1>4

(* The invariant of the batch pipeline: contract, network, database and    *)
(* the three tasks stay related as IInv says in every reachable state.     *)
THEOREM InvariantHolds ==
  ASSUME ~ OtherSubmitters
  PROVE  Spec => []IInv
<1>1. IInv /\ [Next]_vars => IInv'
  BY NextInv
<1> QED BY <1>1, InitInv, PTL DEF Spec

(* Every variable keeps its type.                                          *)
THEOREM TypeCorrect ==
  ASSUME ~ OtherSubmitters
  PROVE  Spec => []TypeOK
<1>1. IInv => TypeOK
  BY DEF IInv
<1> QED BY <1>1, InvariantHolds, PTL

-----------------------------------------------------------------------------
(* Safety.                                                                 *)

(* load_and_reconcile takes neither of its "halt" branches: whatever was   *)
(* lost, duplicated or interrupted, a boot reading the contract as it now  *)
(* stands reconciles, and what has landed beyond the database is the batch *)
(* in flight, marked submitting or later.                                  *)
THEOREM Recoverable ==
  ASSUME ~ OtherSubmitters
  PROVE  Spec => []AlwaysRecoverable
<1>1. ASSUME IInv PROVE AlwaysRecoverable
  <2>1. TypeOK /\ CoreInv
    BY <1>1 DEF IInv
  <2>2. CASE batchNum = confirmed /\ root = leaves
    <3>1. batchNum # confirmed + 1
      BY <2>1, <2>2 DEF TypeOK
    <3> QED BY <2>2, <3>1 DEF AlwaysRecoverable, Reconciles, InStep
  <2>3. CASE /\ batchNum = confirmed + 1 /\ batchNum \in BatchNo
             /\ batches[batchNum].status \in {"submitting", "submitted"}
             /\ batches[batchNum].new = root
    <3>1. batchNum \in NonTerminal
      BY <2>3 DEF NonTerminal
    <3>2. batchNum \in Inflight
      BY <2>1, <3>1, InflightIsNext
    <3>3. batches[batchNum].old = leaves
      BY <2>1, <3>1 DEF CoreInv, InflightInv
    <3> QED BY <2>3, <3>2, <3>3 DEF AlwaysRecoverable, Reconciles, LandedBeforeCrash
  <2> QED BY <2>1, <2>2, <2>3 DEF CoreInv, AgreementInv
<1> QED BY <1>1, InvariantHolds, PTL

(* The contract's state, where it differs from the database's, is the      *)
(* batch in flight's.                                                      *)
LEMMA RootIsRecordedOrInflight ==
  ASSUME TypeOK, CoreInv
  PROVE  \/ root = leaves
         \/ \E n \in NonTerminal :
              /\ batches[n].status \in {"submitting", "submitted"}
              /\ root.deps = leaves.deps \cup batches[n].deps
              /\ root.txs = leaves.txs \cup batches[n].txs
              /\ \A d \in batches[n].deps : depStatus[d] = "batching"
              /\ \A t \in batches[n].txs : txStatus[t] = "batching"
<1>1. CASE /\ batchNum \in BatchNo
           /\ batches[batchNum].status \in {"submitting", "submitted"}
           /\ batches[batchNum].new = root
  <2>1. batchNum \in NonTerminal
    BY <1>1 DEF NonTerminal
  <2>2. batches[batchNum].new = Apply(leaves, batches[batchNum].deps, batches[batchNum].txs)
    BY <2>1 DEF CoreInv, InflightInv
  <2>3. /\ \A d \in batches[batchNum].deps : depStatus[d] = "batching"
        /\ \A t \in batches[batchNum].txs : txStatus[t] = "batching"
    BY <1>1, <2>1 DEF CoreInv, InflightInv
  <2> QED BY <1>1, <2>1, <2>2, <2>3 DEF Apply
<1> QED BY <1>1 DEF CoreInv, AgreementInv

(* A deposit the contract has dequeued, or a transaction whose effect is   *)
(* in the root, is never again pending nor rejected: no interleaving of    *)
(* fail_batch, boot, eviction and landing releases it.                     *)
THEOREM LandedHeld ==
  ASSUME ~ OtherSubmitters
  PROVE  Spec => []LandedInputsHeld
<1>1. ASSUME IInv PROVE LandedInputsHeld
  <2>1. TypeOK /\ CoreInv
    BY <1>1 DEF IInv
  <2>2. root.deps \subseteq Dep /\ root.txs \subseteq Tx
    BY <2>1 DEF TypeOK, Root
  <2>3. ASSUME NEW d \in root.deps PROVE depStatus[d] \in {"batching", "consumed"}
    <3>1. d \in leaves.deps => depStatus[d] = "consumed"
      BY <2>1, <2>2 DEF CoreInv, DepositInv
    <3> QED BY <2>1, <3>1, RootIsRecordedOrInflight
  <2>4. ASSUME NEW t \in root.txs PROVE txStatus[t] \in {"batching", "included"}
    <3>1. t \in leaves.txs => txStatus[t] = "included"
      BY <2>1, <2>2 DEF CoreInv, TxInv
    <3> QED BY <2>1, <3>1, RootIsRecordedOrInflight
  <2> QED BY <2>3, <2>4 DEF LandedInputsHeld
<1> QED BY <1>1, InvariantHolds, PTL

(* The statuses served to users are the truth about the confirmed tree and *)
(* the contract's root.                                                    *)
THEOREM StatusesTrue ==
  ASSUME ~ OtherSubmitters
  PROVE  Spec => []StatusTellsTruth
<1>1. ASSUME IInv PROVE StatusTellsTruth
  <2>1. TypeOK /\ CoreInv
    BY <1>1 DEF IInv
  <2>2. leaves.deps \subseteq Dep /\ leaves.txs \subseteq Tx /\ root.txs \subseteq Tx
    BY <2>1 DEF TypeOK, Root
  <2>3. /\ {d \in Dep : depStatus[d] = "consumed"} = leaves.deps
        /\ {t \in Tx : txStatus[t] = "included"} = leaves.txs
    BY <2>1, <2>2 DEF CoreInv, DepositInv, TxInv
  <2>4. leaves.deps \subseteq root.deps /\ leaves.txs \subseteq root.txs
    BY <2>1, RootIsRecordedOrInflight
  <2>5. ASSUME NEW t \in Tx, txStatus[t] = "rejected", t \in root.txs PROVE FALSE
    <3>1. t \notin leaves.txs
      BY <2>1, <2>5 DEF CoreInv, TxInv
    <3> QED BY <2>1, <2>5, <3>1, RootIsRecordedOrInflight
  <2> QED BY <2>3, <2>4, <2>5 DEF StatusTellsTruth
<1> QED BY <1>1, InvariantHolds, PTL

(* A row marked batching belongs to the batch in flight.                   *)
THEOREM NoOrphans ==
  ASSUME ~ OtherSubmitters
  PROVE  Spec => []NoOrphanedInputs
<1>1. ASSUME IInv PROVE NoOrphanedInputs
  <2>1. TypeOK /\ CoreInv /\ Inflight = NonTerminal
    BY <1>1, InflightIsNext DEF IInv
  <2> QED BY <2>1 DEF NoOrphanedInputs, CoreInv, DepositInv, TxInv
<1> QED BY <1>1, InvariantHolds, PTL

(* A batch that may be on the network has all its inputs reserved.         *)
THEOREM InputsReserved ==
  ASSUME ~ OtherSubmitters
  PROVE  Spec => []SubmittedInputsReserved
<1>1. ASSUME IInv PROVE SubmittedInputsReserved
  <2>1. TypeOK /\ CoreInv /\ Inflight = NonTerminal
    BY <1>1, InflightIsNext DEF IInv
  <2> QED BY <2>1 DEF SubmittedInputsReserved, CoreInv, InflightInv
<1> QED BY <1>1, InvariantHolds, PTL

(* Every envelope on the network is accepted until it lands and refused    *)
(* ever after, so that delivery may be repeated and delayed at will.       *)
THEOREM SentIsValidOnce ==
  ASSUME ~ OtherSubmitters
  PROVE  Spec => []SentAcceptedUntilLanded
<1>1. ASSUME IInv PROVE SentAcceptedUntilLanded
  <2>1. TypeOK /\ CoreInv
    BY <1>1 DEF IInv
  <2>2. ASSUME NEW e \in sent, Accepts(e), NEW b \in landed, EnvelopeOf(b) = e
        PROVE  FALSE
    <3>1. /\ b.new = Apply(b.old, b.deps, b.txs)
          /\ b.deps \cap b.old.deps = {} /\ b.txs \cap b.old.txs = {}
          /\ b.deps \cup b.txs # {}
          /\ b.new.deps \subseteq root.deps /\ b.new.txs \subseteq root.txs
      BY <2>1 DEF CoreInv, LandedInv
    <3>2. b.old = root
      BY <2>2 DEF EnvelopeOf, Accepts
    <3> QED BY <3>1, <3>2 DEF Apply
  <2>3. ASSUME NEW e \in sent, ~ \E b \in landed : EnvelopeOf(b) = e
        PROVE  Accepts(e)
    <3>1. PICK n \in NonTerminal :
                e = EnvelopeOf(batches[n]) /\ batches[n].status \in {"submitting", "submitted"}
      BY <2>1, <2>3 DEF CoreInv, SentInv
    <3>2. n = confirmed + 1 /\ n \in BatchNo
      BY <2>1, InflightIsNext DEF NonTerminal
    <3>3. batchNum # confirmed + 1
      <4>1. ASSUME batchNum = confirmed + 1 PROVE FALSE
        <5>1. PICK b \in landed : b.num = n
          BY <2>1, <3>2, <4>1 DEF CoreInv, LandedInv, BatchNo
        <5>2. b = Stamped(n, batches[n])
          BY <2>1, <5>1 DEF CoreInv, LandedInv
        <5>3. EnvelopeOf(b) = EnvelopeOf(batches[n])
          BY <5>2 DEF EnvelopeOf, Stamped
        <5> QED BY <2>3, <3>1, <5>3
      <4> QED BY <4>1
    <3> QED BY <2>1, <3>1, <3>3 DEF CoreInv, AgreementInv
  <2> QED BY <2>2, <2>3 DEF SentAcceptedUntilLanded
<1> QED BY <1>1, InvariantHolds, PTL

(* No deposit and no transaction takes effect twice.                       *)
THEOREM ExactlyOnce ==
  ASSUME ~ OtherSubmitters
  PROVE  Spec => []AppliedOnce
<1>1. ASSUME IInv PROVE AppliedOnce
  <2>1. TypeOK /\ CoreInv
    BY <1>1 DEF IInv
  <2>2. ASSUME NEW a \in landed, NEW b \in landed, a.num < b.num
        PROVE  a.deps \cap b.deps = {} /\ a.txs \cap b.txs = {}
    <3>1. a.new = Apply(a.old, a.deps, a.txs)
      BY <2>1 DEF CoreInv, LandedInv
    <3>2. a.new.deps \subseteq b.old.deps /\ a.new.txs \subseteq b.old.txs
      BY <2>1, <2>2 DEF CoreInv, LandedInv
    <3>3. b.deps \cap b.old.deps = {} /\ b.txs \cap b.old.txs = {}
      BY <2>1 DEF CoreInv, LandedInv
    <3> QED BY <3>1, <3>2, <3>3 DEF Apply
  <2>3. ASSUME NEW a \in landed, NEW b \in landed, a # b
        PROVE  a.num # b.num /\ a.deps \cap b.deps = {} /\ a.txs \cap b.txs = {}
    <3>1. a = Stamped(a.num, batches[a.num]) /\ b = Stamped(b.num, batches[b.num])
      BY <2>1 DEF CoreInv, LandedInv
    <3>2. a.num # b.num
      BY <2>3, <3>1
    <3>3. a.num \in Nat /\ b.num \in Nat
      BY <2>1 DEF TypeOK, LandedBatch, BatchNo
    <3>4. a.num < b.num \/ b.num < a.num
      BY <3>2, <3>3
    <3> QED BY <2>2, <3>2, <3>4
  <2> QED BY <2>1, <2>3 DEF AppliedOnce, CoreInv, LandedInv
<1> QED BY <1>1, InvariantHolds, PTL

(* Every batch the contract ever applied is in the table batches, with its *)
(* number and its exact contents.                                          *)
THEOREM BlobsKept ==
  ASSUME ~ OtherSubmitters
  PROVE  Spec => []BlobKeptForLanded
<1>1. ASSUME IInv PROVE BlobKeptForLanded
  <2>1. TypeOK /\ CoreInv
    BY <1>1 DEF IInv
  <2>2. ASSUME NEW b \in landed
        PROVE  /\ batches[b.num].status \in {"submitting", "submitted", "confirmed"}
               /\ EnvelopeOf(batches[b.num]) = EnvelopeOf(b)
    <3>1. /\ b.num \in BatchNo /\ b.num <= batchNum
          /\ b = Stamped(b.num, batches[b.num]) /\ batches[b.num].status # "none"
      BY <2>1 DEF TypeOK, LandedBatch, CoreInv, LandedInv
    <3>2. EnvelopeOf(batches[b.num]) = EnvelopeOf(b)
      BY <3>1 DEF EnvelopeOf, Stamped
    <3>3. CASE b.num <= confirmed
      BY <2>1, <3>1, <3>2, <3>3 DEF CoreInv, RowsInv
    <3>4. CASE ~ (b.num <= confirmed)
      <4>1. batchNum = confirmed + 1 /\ b.num = batchNum
        BY <2>1, <3>1, <3>4 DEF TypeOK, CoreInv, AgreementInv, BatchNo
      <4>2. batchNum # confirmed
        BY <2>1, <4>1 DEF TypeOK
      <4>3. batches[batchNum].status \in {"submitting", "submitted"}
        BY <2>1, <4>2 DEF CoreInv, AgreementInv
      <4> QED BY <3>2, <4>1, <4>3
    <3> QED BY <3>3, <3>4
  <2> QED BY <2>2 DEF BlobKeptForLanded
<1> QED BY <1>1, InvariantHolds, PTL

(* What the contract has credited is exactly the queue before its head.    *)
THEOREM InOrder ==
  ASSUME ~ OtherSubmitters
  PROVE  Spec => []CreditedInOrder
<1>1. IInv => CreditedInOrder
  BY DEF IInv, CoreInv, QueueInv, CreditedInOrder, Prefix
<1> QED BY <1>1, InvariantHolds, PTL

(* The engine's tree is the confirmed one or the contract's.               *)
THEOREM TreeInStep ==
  ASSUME ~ OtherSubmitters
  PROVE  Spec => []TreeIsConfirmedOrLanded
<1>1. IInv => TreeIsConfirmedOrLanded
  BY DEF IInv
<1> QED BY <1>1, InvariantHolds, PTL

-----------------------------------------------------------------------------
(* Steps.                                                                  *)

(* What a step can do to the tables.                                       *)
LEMMA TableSteps ==
  ASSUME ~ OtherSubmitters, IInv, [Next]_vars
  PROVE  \/ UNCHANGED <<batches, depVars, txVars, confirmed, leaves>>
         \/ \E t \in Tx : AdmitTx(t) \/ EvictTx(t)
         \/ \E n \in NonTerminal :
              /\ batches[n].status = "proving" /\ Requeue(n)
              /\ UNCHANGED <<chainVars, confirmed, leaves>>
         \/ InsertBatch \/ MarkDeposit \/ MarkTx \/ InsertDeposit
         \/ \E n \in NonTerminal :
              /\ batches'[n].status \in {"proved", "submitting", "submitted"}
              /\ batches[n].status = "proving" \/ batches'[n].status # "proved"
              /\ EnvelopeOf(batches'[n]) = EnvelopeOf(batches[n])
              /\ \A m \in BatchNo \ {n} : batches'[m] = batches[m]
              /\ UNCHANGED <<chainVars, depVars, txVars, confirmed, leaves>>
         \/ ConfirmCommit
<1> USE DEF dbVars
<1>1. TypeOK /\ CoreInv /\ BatcherInv
  BY DEF IInv
<1>2. ASSUME NEW n \in NonTerminal, NEW s \in {"proved", "submitting", "submitted"},
             \/ batches' = [batches EXCEPT ![n].status = s]
             \/ batches' = [batches EXCEPT ![n].proof = TRUE, ![n].status = s]
      PROVE  /\ batches'[n].status = s
             /\ EnvelopeOf(batches'[n]) = EnvelopeOf(batches[n])
             /\ \A m \in BatchNo \ {n} : batches'[m] = batches[m]
  <2>1. n \in BatchNo /\ batches[n] \in Row
    BY <1>1 DEF NonTerminal, TypeOK
  <2> QED BY <1>1, <1>2, <2>1 DEF TypeOK, Row, EnvelopeOf
<1>3. ASSUME Environment PROVE \/ UNCHANGED <<batches, depVars, txVars, confirmed, leaves>>
                               \/ \E t \in Tx : AdmitTx(t) \/ EvictTx(t)
  BY <1>3 DEF Environment, Deposit, Land, LandEffect, OtherLand
<1>4. ASSUME Process
      PROVE  \/ UNCHANGED <<batches, depVars, txVars, confirmed, leaves>>
             \/ \E n \in NonTerminal :
                  /\ batches[n].status = "proving" /\ Requeue(n)
                  /\ UNCHANGED <<chainVars, confirmed, leaves>>
  <2>1. CASE BootUp
    BY <2>1 DEF BootUp, InterruptedProve, Inflight
  <2>2. CASE Crash \/ BootReadRoot \/ BootHalt
    BY <2>2 DEF Crash, BootReadRoot, BootHalt
  <2> QED BY <1>4, <2>1, <2>2 DEF Process
<1>5. ASSUME Resume
      PROVE  \/ UNCHANGED <<batches, depVars, txVars, confirmed, leaves>>
             \/ \E n \in NonTerminal :
                  /\ batches[n].status = "proving" /\ Requeue(n)
                  /\ UNCHANGED <<chainVars, confirmed, leaves>>
             \/ \E n \in NonTerminal :
                  /\ batches'[n].status = "submitting"
                  /\ EnvelopeOf(batches'[n]) = EnvelopeOf(batches[n])
                  /\ \A m \in BatchNo \ {n} : batches'[m] = batches[m]
                  /\ UNCHANGED <<chainVars, depVars, txVars, confirmed, leaves>>
  <2>1. CASE Inflight = {}
    BY <1>5, <2>1 DEF Resume
  <2>2. CASE Inflight # {}
    <3>1. PICK n \in Inflight :
            IF batches[n].status = "proving"
            THEN Requeue(n)
            ELSE /\ batches' = [batches EXCEPT ![n].status = "submitting"]
                 /\ UNCHANGED <<depVars, txVars>>
      BY <1>5, <2>2 DEF Resume
    <3>2. n \in NonTerminal /\ UNCHANGED <<chainVars, confirmed, leaves>>
      BY <1>5 DEF Inflight, Resume
    <3> QED BY <1>2, <3>1, <3>2
  <2> QED BY <2>1, <2>2
<1>6. ASSUME RecordProof
      PROVE  /\ batches[bnum].status = "proving" /\ bnum \in NonTerminal
             /\ batches'[bnum].status = "proved"
             /\ EnvelopeOf(batches'[bnum]) = EnvelopeOf(batches[bnum])
             /\ \A m \in BatchNo \ {bnum} : batches'[m] = batches[m]
             /\ UNCHANGED <<chainVars, depVars, txVars, confirmed, leaves>>
  <2>1. bnum' = bnum /\ bnum \in NonTerminal /\ batches[bnum].status = "proving"
    BY <1>1, <1>6 DEF RecordProof, BatcherInv
  <2> QED BY <1>2, <1>6, <2>1 DEF RecordProof
<1>7. ASSUME ProveFails
      PROVE  /\ bnum \in NonTerminal /\ batches[bnum].status = "proving" /\ Requeue(bnum)
             /\ UNCHANGED <<chainVars, confirmed, leaves>>
  BY <1>1, <1>7 DEF ProveFails, BatcherInv
<1>8. ASSUME MarkSubmitting \/ SubmitOk
      PROVE  /\ bnum \in NonTerminal
             /\ batches'[bnum].status \in {"submitting", "submitted"}
             /\ EnvelopeOf(batches'[bnum]) = EnvelopeOf(batches[bnum])
             /\ \A m \in BatchNo \ {bnum} : batches'[m] = batches[m]
             /\ UNCHANGED <<chainVars, depVars, txVars, confirmed, leaves>>
  <2>1. bnum' = bnum /\ bnum \in NonTerminal
    BY <1>1, <1>8 DEF MarkSubmitting, SubmitOk, BatcherInv
  <2> QED BY <1>2, <1>8, <2>1 DEF MarkSubmitting, SubmitOk
<1>9. ASSUME Batcher, ~ Resume, ~ RecordProof, ~ ProveFails, ~ MarkSubmitting, ~ SubmitOk,
             ~ ConfirmCommit
      PROVE  UNCHANGED <<batches, depVars, txVars, confirmed, leaves>>
  BY <1>9 DEF Batcher, Submit, SubmitErr, PollConfirm, PollTimeout
<1>10. ASSUME Watcher, ~ InsertDeposit
       PROVE  UNCHANGED <<batches, depVars, txVars, confirmed, leaves>>
  BY <1>10 DEF Watcher, WatchTail, WatchFetch, WatchStop, ObserveDeposits, SetCursor
<1>11. ASSUME Fault \/ TryBuild \/ BuildGivesUp
       PROVE  UNCHANGED <<batches, depVars, txVars, confirmed, leaves>>
  BY <1>11 DEF Fault, BuildFault, ObserveFault, CommandFault, TryBuild, BuildGivesUp
<1>12. ASSUME UNCHANGED vars
       PROVE  UNCHANGED <<batches, depVars, txVars, confirmed, leaves>>
  BY <1>12 DEF vars
<1>13. CASE Batcher
  <2>1. CASE RecordProof
    BY <1>6, <2>1
  <2>2. CASE ProveFails
    BY <1>7, <2>2
  <2>3. CASE MarkSubmitting \/ SubmitOk
    BY <1>8, <2>3
  <2>4. CASE Resume
    BY <1>5, <2>4
  <2> QED BY <1>9, <1>13, <2>1, <2>2, <2>3, <2>4
<1>14. CASE Build
  BY <1>11, <1>14 DEF Build
<1> QED BY <1>3, <1>4, <1>10, <1>11, <1>12, <1>13, <1>14 DEF Next

(* A batch that has been on the network is only ever confirmed as it is:   *)
(* neither deleted nor requeued, rebuilt or taken back before submission.  *)
THEOREM NeverUndone ==
  ASSUME ~ OtherSubmitters
  PROVE  Spec => SubmittedNeverUndone
<1> DEFINE Kept(n) ==
             batches[n].status \in {"submitting", "submitted", "confirmed"} =>
               /\ EnvelopeOf(batches[n]') = EnvelopeOf(batches[n])
               /\ batches[n]'.status \in {"submitting", "submitted", "confirmed"}
               /\ batches[n].status = "confirmed" => batches[n]'.status = "confirmed"
           Step == \A n \in BatchNo : Kept(n)
<1>1. ASSUME IInv, [Next]_vars PROVE Step
  <2>1. TypeOK /\ CoreInv
    BY <1>1 DEF IInv
  <2>2. ASSUME UNCHANGED batches PROVE Step
    BY <2>2
  <2>3. ASSUME NEW n \in NonTerminal, batches[n].status = "proving", Requeue(n) PROVE Step
    <3>1. \A m \in BatchNo : m # n => batches'[m] = batches[m]
      BY <2>1, <2>3 DEF Requeue, DropRow, TypeOK
    <3> QED BY <2>3, <3>1
  <2>4. ASSUME InsertBatch PROVE Step
    <3>1. batches[confirmed + 1].status = "none"
      BY <2>4 DEF InsertBatch
    <3>2. \A m \in BatchNo : m # confirmed + 1 => batches'[m] = batches[m]
      BY <2>1, <2>4 DEF InsertBatch, TypeOK
    <3> QED BY <3>1, <3>2
  <2>5. ASSUME NEW n \in NonTerminal,
               batches'[n].status \in {"proved", "submitting", "submitted"},
               batches[n].status = "proving" \/ batches'[n].status # "proved",
               EnvelopeOf(batches'[n]) = EnvelopeOf(batches[n]),
               \A m \in BatchNo \ {n} : batches'[m] = batches[m]
        PROVE  Step
    <3>1. batches[n].status # "confirmed"
      BY DEF NonTerminal
    <3>2. ASSUME NEW m \in BatchNo PROVE Kept(m)
      <4>1. CASE m = n
        BY <2>5, <3>1, <4>1
      <4>2. CASE m # n
        BY <2>5, <4>2
      <4> QED BY <4>1, <4>2
    <3> QED BY <3>2
  <2>6. ASSUME ConfirmCommit PROVE Step
    <3>1. bnum \in BatchNo
      BY <1>1, <2>6 DEF IInv, ConfirmCommit, BatcherInv, ControlInv, NonTerminal
    <3>2. batches' = [batches EXCEPT ![bnum].status = "confirmed"]
      BY <2>6 DEF ConfirmCommit, KeepRowConfirmed
    <3>3. ASSUME NEW m \in BatchNo
          PROVE  /\ EnvelopeOf(batches'[m]) = EnvelopeOf(batches[m])
                 /\ batches'[m].status \in {batches[m].status, "confirmed"}
      BY <2>1, <3>1, <3>2 DEF TypeOK, Row, EnvelopeOf
    <3> QED BY <3>3
  <2>7. (MarkDeposit \/ MarkTx \/ InsertDeposit \/ \E t \in Tx : AdmitTx(t) \/ EvictTx(t))
          => UNCHANGED batches
    BY DEF MarkDeposit, MarkTx, InsertDeposit, AdmitTx, EvictTx
  <2> HIDE DEF Step
  <2> QED BY <1>1, <2>2, <2>3, <2>4, <2>5, <2>6, <2>7, TableSteps
<1>2. IInv /\ [Next]_vars => [Step]_vars
  BY <1>1
<1> QED BY <1>2, InvariantHolds, PTL DEF Spec, SubmittedNeverUndone

(* A consumed deposit, an included and a rejected transaction stay what    *)
(* they are, with their batch number.                                      *)
THEOREM Settled ==
  ASSUME ~ OtherSubmitters
  PROVE  Spec => TerminalIsFinal
<1> DEFINE DepsKept == \A d \in Dep : depStatus[d] = "consumed" =>
                         depStatus[d]' = "consumed" /\ depBatch[d]' = depBatch[d]
           TxsKept == \A t \in Tx : txStatus[t] \in {"included", "rejected"} =>
                        txStatus[t]' = txStatus[t] /\ txBatch[t]' = txBatch[t]
           Step == DepsKept /\ TxsKept
<1> USE DEF depVars, txVars
<1>1. ASSUME IInv, [Next]_vars PROVE Step
  <2>1. TypeOK /\ CoreInv
    BY <1>1 DEF IInv
  <2>2. ASSUME UNCHANGED depVars PROVE DepsKept
    BY <2>2
  <2>3. ASSUME UNCHANGED txVars PROVE TxsKept
    BY <2>3
  <2>4. ASSUME NEW t \in Tx, AdmitTx(t) \/ EvictTx(t) PROVE Step
    <3>1. txStatus[t] \in {"none", "pending"}
      BY <1>1, <2>4 DEF AdmitTx, EvictTx, IInv, BuildInv
    <3>2. \A u \in Tx : u # t => txStatus'[u] = txStatus[u] /\ txBatch'[u] = txBatch[u]
      BY <2>1, <2>4 DEF AdmitTx, EvictTx, TypeOK
    <3>3. UNCHANGED depVars
      BY <2>4 DEF AdmitTx, EvictTx
    <3>4. TxsKept
      BY <3>1, <3>2
    <3> QED BY <2>2, <3>3, <3>4
  <2>5. ASSUME NEW n \in NonTerminal, Requeue(n) PROVE Step
    BY <2>5 DEF Requeue, RequeueDeps, RequeueTxs
  <2>6. ASSUME MarkDeposit PROVE Step
    <3>1. UNCHANGED txVars
      BY <2>6 DEF MarkDeposit
    <3>2. CASE \E d \in LowestOf(todo) :
                 /\ depStatus' = [depStatus EXCEPT ![d] = "batching"]
                 /\ depBatch' = [depBatch EXCEPT ![d] = bnum]
      <4>1. PICK d \in LowestOf(todo) :
                   /\ depStatus' = [depStatus EXCEPT ![d] = "batching"]
                   /\ depBatch' = [depBatch EXCEPT ![d] = bnum]
        BY <3>2
      <4>2. bnum \in NonTerminal /\ d \in batches[bnum].deps
        BY <1>1, <2>6 DEF IInv, BuildInv, MarkDeposit, LowestOf
      <4>3. depStatus[d] # "consumed"
        BY <2>1, <4>2 DEF CoreInv, InflightInv
      <4>4. \A c \in Dep : c # d => depStatus'[c] = depStatus[c] /\ depBatch'[c] = depBatch[c]
        BY <2>1, <4>1 DEF TypeOK
      <4>5. DepsKept
        BY <4>3, <4>4
      <4> QED BY <2>3, <3>1, <4>5
    <3>3. CASE UNCHANGED depVars
      BY <2>2, <2>3, <3>1, <3>3
    <3> QED BY <2>6, <3>2, <3>3 DEF MarkDeposit
  <2>7. ASSUME MarkTx PROVE Step
    <3>1. UNCHANGED depVars
      BY <2>7 DEF MarkTx
    <3>2. CASE \E t \in LowestOf(todo) :
                 /\ txStatus' = [txStatus EXCEPT ![t] = "batching"]
                 /\ txBatch' = [txBatch EXCEPT ![t] = bnum]
      <4>1. PICK t \in LowestOf(todo) :
                   /\ txStatus' = [txStatus EXCEPT ![t] = "batching"]
                   /\ txBatch' = [txBatch EXCEPT ![t] = bnum]
        BY <3>2
      <4>2. bnum \in NonTerminal /\ t \in batches[bnum].txs
        BY <1>1, <2>7 DEF IInv, BuildInv, MarkTx, LowestOf
      <4>3. txStatus[t] \notin {"included", "rejected"}
        BY <2>1, <4>2 DEF CoreInv, InflightInv
      <4>4. \A u \in Tx : u # t => txStatus'[u] = txStatus[u] /\ txBatch'[u] = txBatch[u]
        BY <2>1, <4>1 DEF TypeOK
      <4>5. TxsKept
        BY <4>3, <4>4
      <4> QED BY <2>2, <3>1, <4>5
    <3>3. CASE UNCHANGED txVars
      BY <2>2, <2>3, <3>1, <3>3
    <3> QED BY <2>7, <3>2, <3>3 DEF MarkTx
  <2>8. ASSUME InsertDeposit PROVE Step
    <3>1. PICK d \in LowestOf(todo) : depStatus' = [depStatus EXCEPT ![d] = OrIgnore(@)]
      BY <2>8 DEF InsertDeposit
    <3>2. UNCHANGED <<depBatch, txVars>>
      BY <2>8 DEF InsertDeposit
    <3>3. \A c \in Dep : depStatus[c] = "consumed" => depStatus'[c] = "consumed"
      BY <2>1, <3>1 DEF OrIgnore, TypeOK
    <3> QED BY <2>3, <3>2, <3>3
  <2>9. ASSUME ConfirmCommit PROVE Step
    <3> DEFINE row == batches[bnum]
    <3>1. bnum \in NonTerminal /\ row.status \in {"submitting", "submitted"}
      BY <1>1, <2>9 DEF IInv, ConfirmCommit, BatcherInv, ControlInv
    <3>2. /\ \A d \in row.deps : depStatus[d] = "batching"
          /\ \A t \in row.txs : txStatus[t] = "batching"
      BY <2>1, <3>1 DEF CoreInv, InflightInv
    <3>3. /\ \A d \in Dep : d \notin row.deps =>
               depStatus'[d] = depStatus[d] /\ depBatch'[d] = depBatch[d]
          /\ \A t \in Tx : t \notin row.txs =>
               txStatus'[t] = txStatus[t] /\ txBatch'[t] = txBatch[t]
      BY <2>9 DEF ConfirmCommit
    <3> HIDE DEF row
    <3> QED BY <3>2, <3>3
  <2>10. InsertBatch => UNCHANGED <<depVars, txVars>>
    BY DEF InsertBatch
  <2> HIDE DEF DepsKept, TxsKept
  <2> QED BY <1>1, <2>2, <2>3, <2>4, <2>5, <2>6, <2>7, <2>8, <2>9, <2>10, TableSteps
<1>2. IInv /\ [Next]_vars => [Step]_vars
  BY <1>1
<1> QED BY <1>2, InvariantHolds, PTL DEF Spec, TerminalIsFinal

(* confirm_batch commits the contract's root and no other.                 *)
THEOREM ConfirmsRoot ==
  ASSUME ~ OtherSubmitters
  PROVE  Spec => ConfirmsTheChainRoot
<1>1. ASSUME IInv, [Next]_vars PROVE confirmed' # confirmed => leaves' = root
  <2>1. TypeOK /\ CoreInv /\ BatcherInv /\ ControlInv
    BY <1>1 DEF IInv
  <2>2. ConfirmCommit => leaves' = root
    BY <2>1, CoreConfirm
  <2>3. (MarkDeposit \/ MarkTx \/ InsertDeposit \/ InsertBatch
           \/ \E t \in Tx : AdmitTx(t) \/ EvictTx(t)) => confirmed' = confirmed
    BY DEF MarkDeposit, MarkTx, InsertDeposit, InsertBatch, AdmitTx, EvictTx
  <2> QED BY <1>1, <2>2, <2>3, TableSteps
<1>2. IInv /\ [Next]_vars => [confirmed' # confirmed => leaves' = root]_vars
  BY <1>1
<1> QED BY <1>2, InvariantHolds, PTL DEF Spec, ConfirmsTheChainRoot

-----------------------------------------------------------------------------
(* Refinement.                                                             *)

(* A deposit is queued.                                                    *)
LEMMA DepositQueues ==
  ASSUME TypeOK, Deposit
  PROVE  Abstract!Queue
<1>1. depTail \in Dep
  BY BoundsAssumption DEF Deposit, Dep, TypeOK
<1> QED BY <1>1 DEF Deposit, Admitted, Rejected, Abstract!Queue, dbVars, txVars

(* A batch that lands settles its inputs: the next deposits, and           *)
(* transactions that are neither settled nor rejected.                     *)
LEMMA LandSettles ==
  ASSUME TypeOK, CoreInv, NEW e \in sent, Land(e)
  PROVE  \E D \in SUBSET Dep, T \in SUBSET Tx : Abstract!Settle(D, T)
<1>1. PICK n \in NonTerminal :
        /\ e = EnvelopeOf(batches[n])
        /\ batches[n].status \in {"submitting", "submitted"}
        /\ n = confirmed + 1 /\ batchNum = confirmed /\ root = leaves
  BY AcceptedIsInflight DEF Land
<1> DEFINE row == batches[n]
<1>2. row \in Row /\ row.deps \subseteq Dep /\ row.txs \subseteq Tx
  BY DEF NonTerminal, TypeOK, Row
<1>3. e.deps = row.deps /\ e.txs = row.txs /\ e.new = row.new
  BY <1>1 DEF EnvelopeOf
<1>4. /\ row.new.deps = root.deps \cup row.deps /\ row.new.txs = root.txs \cup row.txs
      /\ row.deps \cup row.txs # {}
      /\ row.new = Apply(root, row.deps, row.txs)
  BY <1>1 DEF CoreInv, InflightInv, Apply
<1>5. /\ row.deps \cap root.deps = {} /\ row.txs \cap root.txs = {}
      /\ \A t \in row.txs : txStatus[t] = "batching"
  BY <1>1, InflightIsNew DEF CoreInv, InflightInv
<1> DEFINE c == Cardinality(e.deps)
<1>6. c \in Nat
  BY <1>2, <1>3, FiniteDeps
<1>7. depHead + c <= depTail /\ row.deps = Segment(depHead, c) /\ root.deps = Prefix(depHead)
  BY <1>3 DEF Land, Accepts, CoreInv, QueueInv
<1> HIDE DEF c
<1>8. \A d \in row.deps : d < depTail
  BY <1>6, <1>7, BoundsAssumption DEF Segment, TypeOK, Dep
<1>9. \A d \in row.deps, b \in Dep : b < d => b \in root.deps \cup row.deps
  BY <1>6, <1>7, BoundsAssumption DEF Segment, Prefix, TypeOK, Dep
<1>10. /\ root' = row.new
       /\ UNCHANGED <<depTail, txStatus, leaves>>
  BY <1>3 DEF Land, LandEffect, dbVars, txVars
<1>11. root' = [deps |-> root.deps \cup row.deps, txs |-> root.txs \cup row.txs]
  BY <1>4, <1>10 DEF Apply
<1> HIDE DEF row
<1>12. Abstract!Settle(row.deps, row.txs)
  BY <1>1, <1>2, <1>4, <1>5, <1>8, <1>9, <1>10, <1>11
     DEF Admitted, Rejected, Abstract!Settle
<1> QED BY <1>2, <1>12

(* Admission.                                                              *)
LEMMA AdmitRefines ==
  ASSUME TypeOK, NEW t \in Tx, AdmitTx(t)
  PROVE  Abstract!Admit(t)
<1>1. /\ txStatus[t] = "none" /\ txStatus'[t] = "pending"
      /\ \A u \in Tx \ {t} : txStatus'[u] = txStatus[u]
      /\ UNCHANGED <<depTail, root, leaves>>
  BY DEF AdmitTx, TypeOK, chainVars
<1>2. Admitted' = Admitted \cup {t} /\ Rejected' = Rejected /\ t \notin Admitted
  BY <1>1 DEF Admitted, Rejected
<1> QED BY <1>1, <1>2 DEF Admitted, Rejected, Abstract!Admit

(* Eviction is rejection, of a transaction that has no effect.             *)
LEMMA EvictRefines ==
  ASSUME IInv, NEW t \in Tx, EvictTx(t)
  PROVE  Abstract!Reject(t)
<1>1. TypeOK /\ CoreInv
  BY DEF IInv
<1>2. /\ txStatus[t] = "pending" /\ txStatus'[t] = "rejected"
      /\ \A u \in Tx \ {t} : txStatus'[u] = txStatus[u]
      /\ UNCHANGED <<depTail, root, leaves>>
      /\ NonTerminal = {}
  BY <1>1 DEF EvictTx, TypeOK, chainVars, IInv, BuildInv
<1>3. t \notin root.txs
  BY <1>1, <1>2, NoneInflight DEF CoreInv, TxInv
<1>4. /\ Admitted' = Admitted /\ Rejected' = Rejected \cup {t}
      /\ t \in Admitted \ (root.txs \cup Rejected)
  BY <1>2, <1>3 DEF Admitted, Rejected
<1> QED BY <1>2, <1>4 DEF Admitted, Rejected, Abstract!Reject

(* The commit of a confirmation records what has settled.                  *)
LEMMA ConfirmRecords ==
  ASSUME IInv, ConfirmCommit
  PROVE  Abstract!Record
<1>1. TypeOK /\ CoreInv /\ BatcherInv /\ ControlInv
  BY DEF IInv
<1>2. leaves' = root /\ UNCHANGED <<root, depTail>>
  BY <1>1, CoreConfirm DEF ConfirmCommit, chainVars
<1>3. bnum \in NonTerminal /\ batchNum = confirmed + 1
      /\ batches[bnum].status \in {"submitting", "submitted"}
  BY <1>1 DEF ConfirmCommit, BatcherInv, ControlInv
<1>4. leaves # root
  <2>1. batchNum # confirmed
    BY <1>1, <1>3 DEF TypeOK
  <2>2. batches[batchNum].new = root
    BY <1>1, <2>1 DEF CoreInv, AgreementInv
  <2> QED BY <1>1, <1>3, <2>2, InflightIsNext, InflightIsNew
<1>5. \A t \in batches[bnum].txs : txStatus[t] = "batching"
  BY <1>1, <1>3 DEF CoreInv, InflightInv
<1>6. \A t \in Tx : txStatus'[t] = IF t \in batches[bnum].txs THEN "included" ELSE txStatus[t]
  BY DEF ConfirmCommit
<1>7. Admitted' = Admitted /\ Rejected' = Rejected
  BY <1>5, <1>6 DEF Admitted, Rejected
<1> QED BY <1>2, <1>4, <1>7 DEF Admitted, Rejected, Abstract!Record

(* Every other step is one the user cannot see.                            *)
LEMMA Stutters ==
  ASSUME IInv, UNCHANGED <<depTail, root, leaves>>,
         \A t \in Tx : /\ txStatus'[t] = "none" <=> txStatus[t] = "none"
                       /\ txStatus'[t] = "rejected" <=> txStatus[t] = "rejected"
  PROVE  UNCHANGED Abstract!vars
<1>1. Admitted' = Admitted /\ Rejected' = Rejected
  BY DEF Admitted, Rejected
<1> QED BY <1>1 DEF Admitted, Rejected, Abstract!vars

(* Every step of the pipeline is a step of Settlement or none.             *)
LEMMA StepRefines ==
  ASSUME ~ OtherSubmitters, IInv, [Next]_vars
  PROVE  [Abstract!Next]_(Abstract!vars)
<1>1. TypeOK /\ CoreInv
  BY DEF IInv
<1>2. CASE Deposit \/ \E e \in sent : Land(e)
  BY <1>1, <1>2, DepositQueues, LandSettles DEF Abstract!Next
<1>3. CASE \E t \in Tx : AdmitTx(t) \/ EvictTx(t)
  BY <1>1, <1>3, AdmitRefines, EvictRefines DEF Abstract!Next
<1>4. CASE ConfirmCommit
  BY <1>4, ConfirmRecords DEF Abstract!Next
<1>5. CASE ~ Deposit /\ ~ (\E e \in sent : Land(e)) /\ ~ (\E t \in Tx : AdmitTx(t) \/ EvictTx(t))
           /\ ~ ConfirmCommit
  <2>1. UNCHANGED <<depTail, root>>
    BY <1>5 DEF Next, Environment, Process, Build, Batcher, Watcher, Fault, OtherLand,
         Crash, BootReadRoot, BootUp, BootHalt, TryBuild, BuildGivesUp, InsertBatch,
         MarkDeposit, MarkTx, Resume, RecordProof, ProveFails, MarkSubmitting, Submit,
         SubmitOk, SubmitErr, PollConfirm, PollTimeout, WatchTail, WatchFetch, WatchStop,
         ObserveDeposits, InsertDeposit, SetCursor, BuildFault, ObserveFault,
         CommandFault, chainVars, vars
  <2>2. UNCHANGED leaves
    BY <1>5, TableSteps DEF InsertBatch, MarkDeposit, MarkTx, InsertDeposit
  <2>3. ASSUME NEW t \in Tx
        PROVE  /\ txStatus'[t] = "none" <=> txStatus[t] = "none"
               /\ txStatus'[t] = "rejected" <=> txStatus[t] = "rejected"
    <3>1. CASE UNCHANGED txVars
      BY <3>1 DEF txVars
    <3>2. CASE \E n \in NonTerminal : Requeue(n)
      BY <3>2 DEF Requeue, RequeueTxs
    <3>3. CASE MarkTx /\ ~ UNCHANGED txVars
      <4>1. PICK u \in LowestOf(todo) : txStatus' = [txStatus EXCEPT ![u] = "batching"]
        BY <3>3 DEF MarkTx, txVars
      <4>2. bnum \in NonTerminal /\ u \in batches[bnum].txs
        BY <3>3 DEF IInv, BuildInv, MarkTx, LowestOf
      <4>3. txStatus[u] \in {"pending", "batching"}
        BY <1>1, <4>2 DEF CoreInv, InflightInv
      <4> QED BY <1>1, <4>1, <4>3 DEF TypeOK
    <3>4. (InsertBatch \/ MarkDeposit \/ InsertDeposit) => UNCHANGED txVars
      BY DEF InsertBatch, MarkDeposit, InsertDeposit
    <3> QED BY <1>5, <3>1, <3>2, <3>3, <3>4, TableSteps
  <2> QED BY <2>1, <2>2, <2>3, Stutters
<1> QED BY <1>2, <1>3, <1>4, <1>5

(* The pipeline implements Settlement: what users can see of it is that    *)
(* deposits settle in queue order, that transactions settle once or are    *)
(* rejected without effect, and that the record follows, one settlement    *)
(* behind at most.                                                         *)
THEOREM Implements ==
  ASSUME ~ OtherSubmitters
  PROVE  Spec => ImplementsSettlement
<1>1. Init => Abstract!Init
  BY DEF Init, Admitted, Rejected, Abstract!Init, EmptyRoot
<1>2. IInv /\ [Next]_vars => [Abstract!Next]_(Abstract!vars)
  BY StepRefines
<1> QED BY <1>1, <1>2, InvariantHolds, PTL DEF Spec, ImplementsSettlement, Abstract!Spec
=============================================================================

------------------------- MODULE PipelineCoreProofs -------------------------
(***************************************************************************)
(* Facts about the data of the pipeline; that every step keeps the types,  *)
(* and what relates the contract, the network and the database (CoreInv),  *)
(* for every value of the constants.                                       *)
(***************************************************************************)
EXTENDS PipelineInv, FiniteSetTheorems, WellFoundedInduction, TLAPS

-----------------------------------------------------------------------------
(* Facts about the queue, its stretches and the selections from it.        *)

(* A non-empty set of naturals has a least member.                         *)
LEMMA LeastExists ==
  ASSUME NEW S \in SUBSET Nat, S # {}
  PROVE  \E m \in S : \A x \in S : m <= x
<1>1. \E m \in S : \A x \in S : <<x, m>> \notin OpToRel(<, Nat)
  BY NatLessThanWellFounded, WFMin
<1>2. PICK m \in S : \A x \in S : <<x, m>> \notin OpToRel(<, Nat)
  BY <1>1
<1>3. ASSUME NEW x \in S PROVE m <= x
  <2>1. ~ (x < m)
    BY <1>2 DEF OpToRel
  <2> QED BY <2>1
<1> QED BY <1>3

(* Sets of deposits are finite.                                            *)
LEMMA FiniteDeps ==
  ASSUME NEW D \in SUBSET Dep
  PROVE  IsFiniteSet(D) /\ Cardinality(D) \in Nat
<1>1. IsFiniteSet(Dep)
  BY FS_Interval, BoundsAssumption DEF Dep
<1>2. IsFiniteSet(D)
  BY <1>1, FS_Subset
<1> QED BY <1>2, FS_CardinalityType

(* A limited selection from something is not nothing.                      *)
LEMMA LimitedNonempty ==
  ASSUME NEW S \in SUBSET Nat, S # {}, NEW k \in Nat \ {0}
  PROVE  LimitedTo(S, k) # {}
<1>1. PICK m \in S : \A x \in S : m <= x
  BY LeastExists
<1>2. {y \in S : y < m} = {}
  <2>1. \A y \in S : ~ (y < m)
    BY <1>1
  <2> QED BY <2>1
<1>3. Cardinality({y \in S : y < m}) < k
  BY <1>2, FS_EmptySet
<1> QED BY <1>3 DEF LimitedTo

(* The first k of an interval are an interval again.                       *)
LEMMA LimitedInterval ==
  ASSUME NEW h \in Nat, NEW t \in Nat, h <= t, NEW k \in Nat
  PROVE  \E c \in Nat : /\ LimitedTo(h .. t - 1, k) = h .. h + c - 1
                        /\ h + c <= t
                        /\ c = Cardinality(LimitedTo(h .. t - 1, k))
<1> DEFINE S == h .. t - 1
<1>1. PICK c \in Nat : c <= k /\ h + c <= t /\ (c = k \/ h + c = t)
  <2>1. CASE t - h < k
    <3> WITNESS t - h \in Nat
    <3> QED BY <2>1
  <2>2. CASE ~ (t - h < k)
    <3> WITNESS k \in Nat
    <3> QED BY <2>2
  <2> QED BY <2>1, <2>2
<1>2. ASSUME NEW x \in S PROVE Cardinality({y \in S : y < x}) = x - h
  <2>1. \A y : (y \in S /\ y < x) <=> y \in h .. x - 1
    BY <1>2
  <2>2. x \in Int /\ x - 1 \in Int /\ h <= x
    BY <1>2
  <2>3. Cardinality(h .. x - 1) = IF h > x - 1 THEN 0 ELSE (x - 1) - h + 1
    BY <2>2, FS_Interval
  <2>4. Cardinality(h .. x - 1) = x - h
    BY <2>2, <2>3
  <2>5. {y \in S : y < x} = h .. x - 1
    BY <2>1
  <2> QED BY <2>4, <2>5
<1>3. LimitedTo(S, k) = {x \in S : x - h < k}
  BY <1>2 DEF LimitedTo
<1>4. {x \in S : x - h < k} = h .. h + c - 1
  BY <1>1
<1>5. Cardinality(h .. h + c - 1) = c
  <2>1. h + c - 1 \in Int
    OBVIOUS
  <2>2. Cardinality(h .. h + c - 1) = IF h > h + c - 1 THEN 0 ELSE (h + c - 1) - h + 1
    BY <2>1, FS_Interval
  <2> QED BY <2>2
<1> QED BY <1>1, <1>3, <1>4, <1>5

-----------------------------------------------------------------------------
(* Types of the data.                                                      *)

(* Types of the constructors.                                              *)
LEMMA DataTypes ==
  /\ EmptyRoot \in Root /\ NoRow \in Row
  /\ \A r \in Root, D \in SUBSET Dep, T \in SUBSET Tx : Apply(r, D, T) \in Root
  /\ \A row \in Row : EnvelopeOf(row) \in Envelope
  /\ \A e \in Envelope, n \in BatchNo : Stamped(n, e) \in LandedBatch
BY DEF EmptyRoot, NoRow, Root, Row, BatchStatus, Apply, EnvelopeOf, Envelope,
       Stamped, LandedBatch

(* A stretch within the bound has the length it is given.                  *)
LEMMA SegmentSize ==
  ASSUME NEW h \in Nat, NEW c \in Nat, h + c <= MaxDeposits
  PROVE  Cardinality(Segment(h, c)) = c
<1>1. \A d : d \in Segment(h, c) <=> d \in h .. h + c - 1
  BY BoundsAssumption DEF Segment, Dep
<1>2. Segment(h, c) = h .. h + c - 1
  BY <1>1
<1>3. h + c - 1 \in Int
  OBVIOUS
<1>4. Cardinality(h .. h + c - 1) = IF h > h + c - 1 THEN 0 ELSE (h + c - 1) - h + 1
  BY <1>3, FS_Interval
<1> QED BY <1>2, <1>4

(* Requeueing keeps the types of the tables.                               *)
LEMMA RequeueTypes ==
  ASSUME TypeOK, NEW n \in BatchNo, Requeue(n)
  PROVE  /\ batches' \in [BatchNo -> Row]
         /\ depStatus' \in [Dep -> {"none", "pending", "batching", "consumed"}]
         /\ depBatch' \in [Dep -> 0 .. MaxBatches]
         /\ txStatus' \in [Tx -> {"none", "pending", "batching", "included", "rejected"}]
         /\ txBatch' \in [Tx -> 0 .. MaxBatches]
<1>1. 0 \in 0 .. MaxBatches
  BY BoundsAssumption
<1>2. NoRow \in Row
  BY DataTypes
<1> QED BY <1>1, <1>2 DEF TypeOK, Requeue, RequeueDeps, RequeueTxs, DropRow

(* Every step keeps the types.  Where a handler is, says which row it uses *)
(* and how far the watcher has read.                                       *)
LEMMA TypeStep ==
  ASSUME TypeOK, WatcherInv, BuildInv, BatcherInv, ControlInv, [Next]_vars
  PROVE  TypeOK'
<1> USE BoundsAssumption
<1> USE DEF chainVars, depVars, txVars, dbVars, procVars, engineVars,
            batcherVars, watcherVars, boundVars
<1>1. ASSUME Deposit PROVE TypeOK'
  BY <1>1  DEF TypeOK, Deposit
<1>2. ASSUME NEW e \in sent, Land(e) PROVE TypeOK'
  <2>1. e \in Envelope /\ e.deps \in SUBSET Dep /\ e.new \in Root
    BY <1>2 DEF TypeOK, Envelope
  <2>2. Cardinality(e.deps) \in Nat
    BY <2>1, FiniteDeps
  <2>3. batchNum + 1 \in BatchNo
    BY <1>2 DEF TypeOK, Land, LandEffect, BatchNo
  <2>4. Stamped(batchNum + 1, e) \in LandedBatch
    BY <2>1, <2>3, DataTypes
  <2> QED BY <1>2, <2>1, <2>2, <2>3, <2>4
          DEF TypeOK, Land, LandEffect, Accepts, Dequeued, BatchNo
<1>3. ASSUME NEW count \in 0 .. DepositSlots, NEW T \in SUBSET Tx,
             OtherLand(count, T)
      PROVE  TypeOK'
  <2> DEFINE deps == Segment(depHead, count)
             e == [old |-> root, new |-> Apply(root, deps, T), deps |-> deps, txs |-> T]
  <2>1. deps \in SUBSET Dep
    BY DEF Segment
  <2>2. Apply(root, deps, T) \in Root
    BY <2>1, DataTypes DEF TypeOK
  <2>3. e \in Envelope
    BY <2>1, <2>2 DEF TypeOK, Envelope
  <2>4. LandEffect(e) /\ depHead + count <= depTail
    BY <1>3 DEF OtherLand
  <2>5. Cardinality(deps) = count
    BY <1>3, <2>4, SegmentSize DEF TypeOK
  <2>6. e.deps = deps /\ e.new \in Root
    BY <2>2
  <2>7. batchNum + 1 \in BatchNo
    BY <2>4 DEF TypeOK, LandEffect, BatchNo
  <2>8. Stamped(batchNum + 1, e) \in LandedBatch
    BY <2>3, <2>7, DataTypes
  <2> HIDE DEF e, deps
  <2> QED BY <1>3, <2>4, <2>5, <2>6, <2>7, <2>8
          DEF TypeOK, LandEffect, Dequeued, BatchNo
<1>4. ASSUME NEW t \in Tx, AdmitTx(t) PROVE TypeOK'
  BY <1>4 DEF TypeOK, AdmitTx, EngineIdle
<1>5. ASSUME Crash PROVE TypeOK'
  BY <1>5, DataTypes DEF TypeOK, Crash
<1>6. ASSUME BootReadRoot PROVE TypeOK'
  BY <1>6 DEF TypeOK, BootReadRoot
<1>7. ASSUME BootUp PROVE TypeOK'
  <2>1. CASE batchNum = confirmed /\ InterruptedProve # {}
    <3>1. PICK n \in BatchNo : Requeue(n)
      BY <1>7, <2>1 DEF BootUp, InterruptedProve, Inflight, NonTerminal
    <3> QED BY <1>7, <3>1, RequeueTypes, DataTypes DEF TypeOK, BootUp
  <2>2. CASE ~ (batchNum = confirmed /\ InterruptedProve # {})
    BY <1>7, <2>2, DataTypes DEF TypeOK, BootUp
  <2> QED BY <2>1, <2>2
<1>8. ASSUME BootHalt PROVE TypeOK'
  BY <1>8, DataTypes DEF TypeOK, BootHalt
<1>9. ASSUME TryBuild PROVE TypeOK'
  <2>1. LimitedTo(PendingDeps, DepositSlots) \subseteq Dep /\ Selected \subseteq Tx
    BY DEF LimitedTo, PendingDeps, Selected, WithinCap, Candidates, PendingTxs
  <2> QED BY <1>9, <2>1 DEF TypeOK, TryBuild
<1>10. ASSUME NEW t \in Tx, EvictTx(t) PROVE TypeOK'
  BY <1>10 DEF TypeOK, EvictTx
<1>11. ASSUME BuildGivesUp PROVE TypeOK'
  BY <1>11 DEF TypeOK, BuildGivesUp
<1>12. ASSUME InsertBatch PROVE TypeOK'
  <2>1. confirmed + 1 \in BatchNo
    BY <1>12 DEF TypeOK, InsertBatch, BuildInv, BatchNo
  <2>2. [old |-> tree, new |-> Apply(tree, bdeps, btxs), deps |-> bdeps,
         txs |-> btxs, proof |-> FALSE, status |-> "proving"] \in Row
    BY DataTypes DEF TypeOK, Row, BatchStatus
  <2> QED BY <1>12, <2>1, <2>2 DEF TypeOK, InsertBatch, BatchNo, Dep
<1>13. ASSUME MarkDeposit PROVE TypeOK'
  <2>1. CASE UNCHANGED epc
    BY <1>13, <2>1 DEF TypeOK, MarkDeposit, LowestOf
  <2>2. CASE epc' = "markTxs" /\ todo' = btxs /\ UNCHANGED depVars
    <3>1. Tx \subseteq Int
      BY DEF Tx
    <3> QED BY <1>13, <2>2, <3>1 DEF TypeOK, MarkDeposit
  <2> QED BY <1>13, <2>1, <2>2 DEF MarkDeposit
<1>14. ASSUME MarkTx PROVE TypeOK'
  BY <1>14 DEF TypeOK, MarkTx, LowestOf
<1>15. ASSUME Resume PROVE TypeOK'
  <2>1. CASE Inflight = {}
    BY <1>15, <2>1 DEF TypeOK, Resume
  <2>2. CASE Inflight # {}
    <3>1. PICK n \in Inflight :
            /\ bnum' = n
            /\ IF batches[n].status = "proving"
               THEN Requeue(n) /\ bpc' = "tick"
               ELSE /\ batches[n].proof
                    /\ batches' = [batches EXCEPT ![n].status = "submitting"]
                    /\ bpc' = "mark"
                    /\ UNCHANGED <<depVars, txVars>>
      BY <1>15, <2>2 DEF Resume
    <3>2. n \in BatchNo
      BY DEF Inflight, NonTerminal
    <3> DEFINE frame == UNCHANGED <<chainVars, depCursor, confirmed, leaves,
                          procVars, engineVars, watcherVars, boundVars>>
    <3>7. frame
      BY <1>15 DEF Resume
    <3>3. CASE Requeue(n) /\ bpc' = "tick"
      <4>1. bnum' = n
        BY <3>1
      <4> QED BY <3>2, <3>3, <3>7, <4>1, RequeueTypes DEF TypeOK, BatchNo
    <3>4. CASE batches' = [batches EXCEPT ![n].status = "submitting"] /\ bpc' = "mark"
                 /\ UNCHANGED <<depVars, txVars>>
      <4>1. batches' \in [BatchNo -> Row]
        BY <3>2, <3>4 DEF TypeOK, Row, BatchStatus
      <4>2. bnum' = n
        BY <3>1
      <4>3. UNCHANGED <<depStatus, depBatch, txStatus, txBatch>> /\ bpc' = "mark"
        BY <3>4
      <4> QED BY <3>2, <3>7, <4>1, <4>2, <4>3 DEF TypeOK, BatchNo
    <3>5. CASE batches[n].status = "proving"
      BY <3>1, <3>3, <3>5
    <3>6. CASE batches[n].status # "proving"
      BY <3>1, <3>4, <3>6
    <3> QED BY <3>5, <3>6
  <2> QED BY <2>1, <2>2
<1>16. ASSUME RecordProof PROVE TypeOK'
  <2>1. bnum \in BatchNo
    BY <1>16 DEF RecordProof, BatcherInv, NonTerminal
  <2>2. [batches[bnum] EXCEPT !.proof = TRUE, !.status = "proved"] \in Row
    BY <2>1 DEF TypeOK, Row, BatchStatus
  <2>3. batches' = [batches EXCEPT ![bnum] =
                      [batches[bnum] EXCEPT !.proof = TRUE, !.status = "proved"]]
    BY <1>16, <2>1 DEF RecordProof, TypeOK, Row
  <2>4. batches' \in [BatchNo -> Row]
    BY <2>1, <2>2, <2>3 DEF TypeOK
  <2> QED BY <1>16, <2>4 DEF TypeOK, RecordProof
<1>17. ASSUME ProveFails PROVE TypeOK'
  <2>1. bnum \in BatchNo
    BY <1>17 DEF ProveFails, BatcherInv, NonTerminal
  <2> QED BY <1>17, <2>1, RequeueTypes DEF TypeOK, ProveFails
<1>18. ASSUME MarkSubmitting PROVE TypeOK'
  <2>1. bnum \in BatchNo
    BY <1>18 DEF MarkSubmitting, BatcherInv, NonTerminal
  <2>2. batches' \in [BatchNo -> Row]
    BY <1>18, <2>1 DEF TypeOK, MarkSubmitting, Row, BatchStatus
  <2> QED BY <1>18, <2>2 DEF TypeOK, MarkSubmitting
<1>19. ASSUME Submit PROVE TypeOK'
  <2>1. bnum \in BatchNo
    BY <1>19 DEF Submit, BatcherInv, NonTerminal
  <2>2. EnvelopeOf(batches[bnum]) \in Envelope
    BY <2>1, DataTypes DEF TypeOK
  <2> QED BY <1>19, <2>2 DEF TypeOK, Submit
<1>20. ASSUME SubmitOk PROVE TypeOK'
  <2>1. bnum \in BatchNo
    BY <1>20 DEF SubmitOk, BatcherInv, NonTerminal
  <2>2. batches' = [batches EXCEPT ![bnum].status = "submitted"]
    BY <1>20 DEF SubmitOk
  <2>3. batches' \in [BatchNo -> Row]
    BY <2>1, <2>2 DEF TypeOK, Row, BatchStatus
  <2> QED BY <1>20, <2>3 DEF TypeOK, SubmitOk
<1>21. ASSUME SubmitErr PROVE TypeOK'
  BY <1>21 DEF TypeOK, SubmitErr
<1>22. ASSUME PollConfirm PROVE TypeOK'
  <2>1. batches[bnum].new \in Root
    BY <1>22 DEF TypeOK, PollConfirm, BatcherInv, NonTerminal, Row
  <2> QED BY <1>22, <2>1 DEF TypeOK, PollConfirm
<1>23. ASSUME ConfirmCommit PROVE TypeOK'
  <2>1. bnum \in BatchNo
    BY <1>23 DEF ConfirmCommit, ControlInv, BatcherInv, NonTerminal
  <2>2. batches' \in [BatchNo -> Row]
    BY <1>23, <2>1 DEF TypeOK, ConfirmCommit, KeepRowConfirmed, Row, BatchStatus
  <2> QED BY <1>23, <2>2 DEF TypeOK, ConfirmCommit
<1>24. ASSUME PollTimeout PROVE TypeOK'
  BY <1>24 DEF TypeOK, PollTimeout
<1>25. ASSUME WatchTail PROVE TypeOK'
  BY <1>25 DEF TypeOK, WatchTail
<1>26. ASSUME WatchFetch PROVE TypeOK'
  BY <1>26 DEF TypeOK, WatchFetch, MoreToFetch
<1>27. ASSUME WatchStop PROVE TypeOK'
  BY <1>27 DEF TypeOK, WatchStop
<1>28. ASSUME ObserveDeposits PROVE TypeOK'
  BY <1>28 DEF TypeOK, ObserveDeposits, Segment, Dep
<1>29. ASSUME InsertDeposit PROVE TypeOK'
  BY <1>29 DEF TypeOK, InsertDeposit, OrIgnore
<1>30. ASSUME SetCursor PROVE TypeOK'
  BY <1>30 DEF TypeOK, SetCursor, CursorAfterReport, WatcherInv
<1>31. ASSUME BuildFault PROVE TypeOK'
  BY <1>31 DEF TypeOK, BuildFault
<1>32. ASSUME ObserveFault PROVE TypeOK'
  BY <1>32 DEF TypeOK, ObserveFault
<1>33. ASSUME CommandFault PROVE TypeOK'
  BY <1>33 DEF TypeOK, CommandFault
<1>34. ASSUME UNCHANGED vars PROVE TypeOK'
  BY <1>34 DEF TypeOK, vars
<1> QED
  BY <1>1, <1>2, <1>3, <1>4, <1>5, <1>6, <1>7, <1>8, <1>9, <1>10, <1>11, <1>12, <1>13, <1>14, <1>15, <1>16, <1>17, <1>18, <1>19, <1>20, <1>21, <1>22, <1>23, <1>24, <1>25, <1>26, <1>27, <1>28, <1>29, <1>30, <1>31, <1>32, <1>33, <1>34
     DEF Next, Environment, Process, Build, Batcher, Watcher, Fault

-----------------------------------------------------------------------------
(* What the invariant says of the batch in flight.                         *)

(* There is at most one, the next number.                                  *)
LEMMA InflightIsNext ==
  ASSUME TypeOK, CoreInv
  PROVE  /\ \A n \in NonTerminal : n = confirmed + 1
         /\ Inflight = NonTerminal
<1>1. ASSUME NEW n \in NonTerminal PROVE n = confirmed + 1
  BY <1>1 DEF TypeOK, CoreInv, RowsInv, NonTerminal, BatchNo
<1>2. \A n, m \in NonTerminal : m <= n
  <2>1. ASSUME NEW n \in NonTerminal, NEW m \in NonTerminal PROVE m <= n
    <3>1. n = confirmed + 1 /\ m = confirmed + 1
      BY <1>1
    <3> QED BY <3>1 DEF TypeOK
  <2> QED BY <2>1
<1> QED BY <1>1, <1>2 DEF Inflight

(* Its inputs are not in the confirmed tree, so its root is another one.   *)
LEMMA InflightIsNew ==
  ASSUME TypeOK, CoreInv, NEW n \in NonTerminal
  PROVE  /\ batches[n].deps \cap leaves.deps = {}
         /\ batches[n].txs \cap leaves.txs = {}
         /\ batches[n].new # leaves
<1>1. n \in BatchNo /\ batches[n] \in Row
  BY DEF NonTerminal, TypeOK
<1>2. batches[n].deps \subseteq Dep /\ batches[n].txs \subseteq Tx
  BY <1>1 DEF Row
<1>3. batches[n].deps \cap leaves.deps = {}
  BY <1>2 DEF CoreInv, InflightInv, DepositInv
<1>4. batches[n].txs \cap leaves.txs = {}
  BY <1>2 DEF CoreInv, InflightInv, TxInv
<1>5. /\ batches[n].new.deps = leaves.deps \cup batches[n].deps
      /\ batches[n].new.txs = leaves.txs \cup batches[n].txs
      /\ batches[n].deps \cup batches[n].txs # {}
  <2>1. /\ batches[n].new = Apply(leaves, batches[n].deps, batches[n].txs)
        /\ batches[n].deps \cup batches[n].txs # {}
    BY DEF CoreInv, InflightInv
  <2> QED BY <2>1 DEF Apply
<1>6. ASSUME batches[n].new = leaves PROVE FALSE
  <2>1. PICK x : x \in batches[n].deps \/ x \in batches[n].txs
    BY <1>5
  <2>2. batches[n].deps \subseteq leaves.deps /\ batches[n].txs \subseteq leaves.txs
    BY <1>5, <1>6
  <2> QED BY <1>3, <1>4, <2>1, <2>2
<1> QED BY <1>3, <1>4, <1>6

(* A batch that is not proved yet has not landed.                          *)
LEMMA ProvingNotLanded ==
  ASSUME TypeOK, CoreInv, NEW n \in NonTerminal,
         batches[n].status \notin {"submitting", "submitted"}
  PROVE  batchNum = confirmed /\ root = leaves
BY InflightIsNext DEF CoreInv, AgreementInv

(* With nothing in flight the contract and the database are in step.       *)
LEMMA NoneInflight ==
  ASSUME TypeOK, CoreInv, NonTerminal = {}
  PROVE  batchNum = confirmed /\ root = leaves
BY DEF CoreInv, AgreementInv, NonTerminal

(* An envelope the contract accepts is the one in flight, and the contract *)
(* has nothing the database has not recorded.                              *)
LEMMA AcceptedIsInflight ==
  ASSUME TypeOK, CoreInv, NEW e \in sent, Accepts(e)
  PROVE  \E n \in NonTerminal :
           /\ e = EnvelopeOf(batches[n])
           /\ batches[n].status \in {"submitting", "submitted"}
           /\ n = confirmed + 1 /\ batchNum = confirmed /\ root = leaves
<1>1. ASSUME NEW b \in landed, EnvelopeOf(b) = e PROVE FALSE
  <2>1. /\ b.new = Apply(b.old, b.deps, b.txs)
        /\ b.deps \cap b.old.deps = {} /\ b.txs \cap b.old.txs = {}
        /\ b.deps \cup b.txs # {}
        /\ b.new.deps \subseteq root.deps /\ b.new.txs \subseteq root.txs
    BY DEF CoreInv, LandedInv
  <2>2. b.old = root
    BY <1>1 DEF EnvelopeOf, Accepts
  <2>3. b.new.deps = b.old.deps \cup b.deps /\ b.new.txs = b.old.txs \cup b.txs
    BY <2>1 DEF Apply
  <2> QED BY <2>1, <2>2, <2>3
<1>2. PICK n \in NonTerminal : /\ e = EnvelopeOf(batches[n])
                               /\ batches[n].status \in {"submitting", "submitted"}
  BY <1>1 DEF CoreInv, SentInv
<1>3. e.old = root
  BY DEF Accepts
<1>4. e.old = leaves
  BY <1>2 DEF EnvelopeOf, CoreInv, InflightInv
<1>5. n = confirmed + 1
  BY InflightIsNext
<1>6. batchNum = confirmed
  <2>1. CASE batchNum = confirmed + 1 /\ batches[batchNum].new = root
    BY <1>3, <1>4, <1>5, <2>1, InflightIsNew
  <2> QED BY <2>1 DEF CoreInv, AgreementInv
<1> QED BY <1>2, <1>3, <1>4, <1>5, <1>6

-----------------------------------------------------------------------------
(* How the steps that change the chain or the rows keep CoreInv.           *)

(* A step that leaves them alone, but for new deposits in the queue, keeps *)
(* it.                                                                     *)
LEMMA CoreStable ==
  ASSUME TypeOK, CoreInv, depTail' \in Nat, depTail <= depTail',
         UNCHANGED <<root, batchNum, depHead, sent, landed, batches, depStatus,
                     depBatch, txStatus, txBatch, confirmed, leaves>>
  PROVE  CoreInv'
<1>1. QueueInv'
  BY DEF CoreInv, QueueInv, Prefix, TypeOK
<1>2. RowsInv' /\ InflightInv' /\ DepositInv' /\ TxInv' /\ NonTerminal' = NonTerminal
  BY DEF CoreInv, RowsInv, InflightInv, DepositInv, TxInv, NonTerminal
<1>3. AgreementInv'
  <2>1. ASSUME NEW n \in NonTerminal, Accepts(EnvelopeOf(batches[n]))
        PROVE  Accepts(EnvelopeOf(batches[n]))'
    <3> DEFINE e == EnvelopeOf(batches[n])
    <3>1. Cardinality(e.deps) \in Nat
      BY FiniteDeps DEF NonTerminal, TypeOK, Row, EnvelopeOf
    <3> QED BY <2>1, <3>1 DEF Accepts, TypeOK, EnvelopeOf
  <2> QED BY <1>2, <2>1 DEF CoreInv, AgreementInv
<1>4. LandedInv'
  BY DEF CoreInv, LandedInv
<1>5. SentInv'
  BY <1>2 DEF CoreInv, SentInv
<1> QED BY <1>1, <1>2, <1>3, <1>4, <1>5 DEF CoreInv

(* A transaction row that is neither batched nor included may change among *)
(* the statuses that are neither, unless the batch in flight claims it.    *)
LEMMA CoreTxChange ==
  ASSUME TypeOK, CoreInv, NEW t \in Tx,
         txStatus[t] \in {"none", "pending"},
         \A n \in NonTerminal : t \notin batches[n].txs,
         (txStatus[t])' \in {"pending", "rejected"},
         \A u \in Tx \ {t} : txStatus'[u] = txStatus[u] /\ txBatch'[u] = txBatch[u],
         UNCHANGED <<root, batchNum, depHead, depTail, sent, landed, batches,
                     depStatus, depBatch, confirmed, leaves>>
  PROVE  CoreInv'
<1>1. QueueInv' /\ RowsInv' /\ AgreementInv' /\ LandedInv' /\ NonTerminal' = NonTerminal
  BY DEF CoreInv, QueueInv, Prefix, RowsInv, AgreementInv, LandedInv, NonTerminal, Accepts, EnvelopeOf
<1>2. SentInv'
  BY <1>1 DEF CoreInv, SentInv
<1>3. InflightInv'
  BY <1>1 DEF CoreInv, InflightInv, TypeOK, Row, NonTerminal
<1>4. DepositInv'
  BY <1>1 DEF CoreInv, DepositInv
<1>5. TxInv'
  <2>1. ASSUME NEW u \in Tx PROVE /\ txStatus'[u] = "included" <=> u \in leaves'.txs
                                  /\ txStatus'[u] = "batching" =>
                                       \E n \in NonTerminal' : txBatch'[u] = n /\ u \in batches'[n].txs
    <3>1. CASE u = t
      BY <3>1 DEF CoreInv, TxInv
    <3>2. CASE u # t
      BY <1>1, <3>2 DEF CoreInv, TxInv
    <3> QED BY <3>1, <3>2
  <2> QED BY <2>1 DEF TxInv
<1> QED BY <1>1, <1>2, <1>3, <1>4, <1>5 DEF CoreInv

(* The contract applies the batch in flight.                               *)
LEMMA CoreLand ==
  ASSUME TypeOK, CoreInv, NEW e \in sent, Land(e)
  PROVE  CoreInv'
<1> USE DEF chainVars, dbVars, depVars, txVars
<1>1. PICK n \in NonTerminal :
        /\ e = EnvelopeOf(batches[n])
        /\ batches[n].status \in {"submitting", "submitted"}
        /\ n = confirmed + 1 /\ batchNum = confirmed /\ root = leaves
  BY AcceptedIsInflight DEF Land
<1> DEFINE row == batches[n]
<1>2. n \in BatchNo /\ row \in Row
  BY DEF NonTerminal, TypeOK
<1>3. /\ e.old = row.old /\ e.new = row.new /\ e.deps = row.deps /\ e.txs = row.txs
      /\ EnvelopeOf(row) = e
  BY <1>1 DEF EnvelopeOf
<1>4. /\ row.old = leaves
      /\ row.new.deps = leaves.deps \cup row.deps
      /\ row.new.txs = leaves.txs \cup row.txs
      /\ row.new = Apply(leaves, row.deps, row.txs)
      /\ row.deps \cup row.txs # {}
  <2>1. row.old = leaves /\ row.new = Apply(leaves, row.deps, row.txs) /\ row.deps \cup row.txs # {}
    BY DEF CoreInv, InflightInv
  <2> QED BY <2>1 DEF Apply
<1>5. row.deps \cap leaves.deps = {} /\ row.txs \cap leaves.txs = {}
  BY InflightIsNew
<1> DEFINE c == Cardinality(e.deps)
<1>6. c \in Nat
  BY <1>2, <1>3, FiniteDeps DEF Row
<1>7. /\ depHead + c <= depTail /\ row.deps = Segment(depHead, c)
      /\ root' = row.new /\ depHead' = depHead + c /\ batchNum' = n
      /\ landed' = landed \cup {Stamped(n, e)}
      /\ UNCHANGED <<depTail, sent, batches, depStatus, depBatch, txStatus, txBatch, confirmed, leaves>>
  BY <1>1, <1>3 DEF Land, Accepts, LandEffect, Dequeued
<1>8. Stamped(n, e) = Stamped(n, row)
  BY <1>3 DEF Stamped
<1>9. NonTerminal' = NonTerminal
  BY <1>7 DEF NonTerminal
<1> DEFINE b0 == Stamped(n, row)
<1>10. /\ b0.num = n /\ b0.old = row.old /\ b0.new = row.new
       /\ b0.deps = row.deps /\ b0.txs = row.txs
  BY DEF Stamped
<1> HIDE DEF c, row, b0
<1>11. QueueInv'
  <2>1. root.deps = Prefix(depHead) /\ depHead \in Nat
    BY DEF CoreInv, QueueInv, TypeOK
  <2>2. Prefix(depHead + c) = Prefix(depHead) \cup Segment(depHead, c)
    BY <2>1, <1>6 DEF Prefix, Segment, Dep
  <2> QED BY <1>1, <1>4, <1>7, <2>1, <2>2 DEF QueueInv
<1>12. RowsInv' /\ InflightInv' /\ DepositInv' /\ TxInv'
  BY <1>7, <1>9 DEF CoreInv, RowsInv, InflightInv, DepositInv, TxInv
<1>13. AgreementInv'
  BY <1>1, <1>2, <1>7 DEF AgreementInv, row
<1>14. LandedInv'
  <2>1. landed' = landed \cup {b0}
    BY <1>7, <1>8 DEF b0
  <2>2. \A b \in landed : b.num <= batchNum /\ b.new.deps \subseteq root.deps /\ b.new.txs \subseteq root.txs
    BY DEF CoreInv, LandedInv
  <2>3. ASSUME NEW b \in landed'
        PROVE  /\ b.num <= batchNum'
               /\ b = Stamped(b.num, batches'[b.num])
               /\ batches'[b.num].status # "none"
               /\ b.new = Apply(b.old, b.deps, b.txs)
               /\ b.deps \cap b.old.deps = {} /\ b.txs \cap b.old.txs = {}
               /\ b.deps \cup b.txs # {}
               /\ b.new.deps \subseteq root'.deps /\ b.new.txs \subseteq root'.txs
    <3>1. CASE b \in landed
      <4>1. /\ b.num <= batchNum'
            /\ b = Stamped(b.num, batches'[b.num])
            /\ batches'[b.num].status # "none"
            /\ b.new = Apply(b.old, b.deps, b.txs)
            /\ b.deps \cap b.old.deps = {} /\ b.txs \cap b.old.txs = {}
            /\ b.deps \cup b.txs # {}
        <5>1. b.num \in Int /\ batchNum' = batchNum + 1
          BY <1>1, <1>7, <3>1 DEF TypeOK, LandedBatch, BatchNo
        <5> QED BY <1>7, <3>1, <5>1 DEF CoreInv, LandedInv, TypeOK
      <4>2. b.new.deps \subseteq root'.deps /\ b.new.txs \subseteq root'.txs
        BY <1>1, <1>4, <1>7, <2>2, <3>1
      <4> QED BY <4>1, <4>2
    <3>2. CASE b = b0
      <4>1. n <= n /\ batches'[n].status # "none"
        BY <1>2, <1>7 DEF NonTerminal, BatchNo
      <4> QED BY <1>4, <1>5, <1>7, <1>10, <3>2, <4>1 DEF b0, row
    <3> QED BY <2>1, <3>1, <3>2
  <2>4. ASSUME NEW a \in landed', NEW b \in landed', a.num < b.num
        PROVE  a.new.deps \subseteq b.old.deps /\ a.new.txs \subseteq b.old.txs
    <3>1. CASE a \in landed /\ b \in landed
      BY <2>4, <3>1 DEF CoreInv, LandedInv
    <3>2. CASE a \in landed /\ b = b0
      BY <1>1, <1>4, <1>10, <2>2, <3>2
    <3>3. CASE a = b0
      <4>1. b.num <= n
        BY <2>3, <1>7
      <4> QED BY <1>2, <1>10, <2>4, <3>3, <4>1, <2>1 DEF TypeOK, LandedBatch, BatchNo
    <3> QED BY <2>1, <3>1, <3>2, <3>3
  <2>5. root'.deps = UNION {b.deps : b \in landed'} /\ root'.txs = UNION {b.txs : b \in landed'}
    <3>1. root.deps = UNION {b.deps : b \in landed} /\ root.txs = UNION {b.txs : b \in landed}
      BY DEF CoreInv, LandedInv
    <3>2. root'.deps = root.deps \cup b0.deps /\ root'.txs = root.txs \cup b0.txs
      BY <1>1, <1>4, <1>7, <1>10
    <3> QED BY <2>1, <3>1, <3>2
  <2>6. \E b \in landed' : b.num = batchNum'
    BY <1>7, <1>10, <2>1
  <2> QED BY <2>3, <2>4, <2>5, <2>6 DEF LandedInv
<1>15. SentInv'
  BY <1>7, <1>9 DEF CoreInv, SentInv
<1> QED BY <1>11, <1>12, <1>13, <1>14, <1>15 DEF CoreInv

(* Requeueing a batch that is not proved yet.                              *)
LEMMA CoreRequeue ==
  ASSUME TypeOK, CoreInv, NEW n \in NonTerminal, batches[n].status = "proving",
         Requeue(n), UNCHANGED <<chainVars, confirmed, leaves>>
  PROVE  /\ CoreInv'
         /\ NonTerminal' = {}
         /\ \A d \in Dep : depStatus'[d] # "none" <=> depStatus[d] # "none"
<1> USE DEF chainVars
<1>1. n = confirmed + 1 /\ n \in BatchNo /\ NonTerminal = {n}
  BY InflightIsNext DEF NonTerminal
<1>2. batchNum = confirmed /\ root = leaves
  BY ProvingNotLanded
<1>3. /\ batches'[n] = NoRow
      /\ \A m \in BatchNo \ {n} : batches'[m] = batches[m]
  BY <1>1 DEF Requeue, DropRow, TypeOK
<1>4. NonTerminal' = {}
  <2>1. batches'[n].status = "none"
    BY <1>3 DEF NoRow
  <2>2. ASSUME NEW m \in BatchNo, batches'[m].status \notin {"none", "confirmed"}
        PROVE  FALSE
    <3>1. m # n
      BY <2>1, <2>2
    <3>2. m \in NonTerminal
      BY <1>3, <2>2, <3>1 DEF NonTerminal
    <3> QED BY <1>1, <3>1, <3>2
  <2> QED BY <2>2 DEF NonTerminal
<1>5. \A d \in Dep : depStatus'[d] = IF depStatus[d] = "batching" /\ depBatch[d] = n
                                     THEN "pending" ELSE depStatus[d]
  BY DEF Requeue, RequeueDeps, TypeOK
<1>6. \A t \in Tx : txStatus'[t] = IF txStatus[t] = "batching" /\ txBatch[t] = n
                                   THEN "pending" ELSE txStatus[t]
  BY DEF Requeue, RequeueTxs, TypeOK
<1>7. /\ \A d \in Dep : depStatus[d] = "batching" => depBatch[d] = n
      /\ \A t \in Tx : txStatus[t] = "batching" => txBatch[t] = n
  BY <1>1 DEF CoreInv, DepositInv, TxInv
<1>8. QueueInv' /\ InflightInv' /\ AgreementInv'
  BY <1>2, <1>4 DEF CoreInv, QueueInv, Prefix, InflightInv, AgreementInv
<1>9. RowsInv'
  <2>1. ~ (n <= confirmed)
    BY <1>1 DEF TypeOK
  <2> QED BY <1>1, <1>3, <2>1 DEF CoreInv, RowsInv, NoRow, TypeOK
<1>10. DepositInv'
  BY <1>5, <1>7 DEF CoreInv, DepositInv
<1>11. TxInv'
  BY <1>6, <1>7 DEF CoreInv, TxInv
<1>12. ASSUME NEW b \in landed PROVE b.num \in BatchNo \ {n}
  <2>1. b.num \in BatchNo /\ b.num <= confirmed
    BY <1>2 DEF CoreInv, LandedInv, TypeOK, LandedBatch
  <2> QED BY <1>1, <2>1 DEF BatchNo, TypeOK
<1>13. LandedInv'
  BY <1>3, <1>12 DEF CoreInv, LandedInv
<1>14. SentInv'
  BY <1>1 DEF CoreInv, SentInv
<1> QED BY <1>4, <1>5, <1>8, <1>9, <1>10, <1>11, <1>13, <1>14 DEF CoreInv

(* The batch in flight goes on to a later status: its inputs are marked    *)
(* and its proof is there.                                                 *)
LEMMA CoreAdvance ==
  ASSUME TypeOK, CoreInv, NEW n \in NonTerminal,
         NEW s \in {"proved", "submitting", "submitted"},
         (batches[n])'.status = s, (batches[n])'.proof,
         batches[n].status \in {"submitting", "submitted"} => s \in {"submitting", "submitted"},
         \A d \in batches[n].deps : depStatus[d] = "batching",
         \A t \in batches[n].txs : txStatus[t] = "batching",
         EnvelopeOf(batches[n])' = EnvelopeOf(batches[n]),
         \A m \in BatchNo \ {n} : batches'[m] = batches[m],
         UNCHANGED <<chainVars, depVars, txVars, confirmed, leaves>>
  PROVE  CoreInv' /\ NonTerminal' = NonTerminal
<1> USE DEF chainVars, depVars, txVars
<1>1. n \in BatchNo /\ NonTerminal = {n} /\ n = confirmed + 1
  BY InflightIsNext DEF NonTerminal
<1> DEFINE row == batches[n]
           new == batches'[n]
<1>2. /\ new.old = row.old /\ new.new = row.new /\ new.deps = row.deps /\ new.txs = row.txs
      /\ new.status = s /\ new.proof
  BY DEF EnvelopeOf
<1>3. row.status \notin {"none", "confirmed"}
  BY DEF NonTerminal
<1>4. NonTerminal' = NonTerminal
  <2>1. n \in NonTerminal'
    BY <1>1, <1>2 DEF NonTerminal
  <2>2. \A m \in BatchNo \ {n} : m \in NonTerminal' <=> m \in NonTerminal
    BY DEF NonTerminal
  <2> QED BY <2>1, <2>2 DEF NonTerminal
<1>5. QueueInv'
  BY DEF CoreInv, QueueInv, Prefix
<1>6. RowsInv'
  BY <1>1, <1>2, <1>3 DEF CoreInv, RowsInv
<1>7. InflightInv'
  BY <1>1, <1>2, <1>4 DEF CoreInv, InflightInv
<1>8. AgreementInv'
  <2>1. CASE /\ batchNum = confirmed /\ root = leaves
             /\ \A m \in NonTerminal : Accepts(EnvelopeOf(batches[m]))
    <3>1. Accepts(EnvelopeOf(batches[n]))
      BY <2>1
    <3>2. Accepts(EnvelopeOf(batches[n]))'
      BY <3>1 DEF Accepts
    <3> QED BY <1>1, <1>4, <2>1, <3>2 DEF AgreementInv
  <2>2. CASE /\ batchNum = confirmed + 1 /\ batchNum \in BatchNo
             /\ batches[batchNum].status \in {"submitting", "submitted"}
             /\ batches[batchNum].new = root
    BY <1>1, <1>2, <2>2 DEF AgreementInv
  <2> QED BY <2>1, <2>2 DEF CoreInv, AgreementInv
<1>9. DepositInv'
  BY <1>1, <1>2, <1>4 DEF CoreInv, DepositInv
<1>10. TxInv'
  BY <1>1, <1>2, <1>4 DEF CoreInv, TxInv
<1>11. LandedInv'
  <2>1. ASSUME NEW b \in landed
        PROVE  b = Stamped(b.num, batches'[b.num]) /\ batches'[b.num].status # "none"
    <3>1. b.num \in BatchNo /\ b = Stamped(b.num, batches[b.num]) /\ batches[b.num].status # "none"
      BY DEF CoreInv, LandedInv, TypeOK, LandedBatch
    <3>2. CASE b.num = n
      BY <1>2, <3>1, <3>2 DEF Stamped
    <3>3. CASE b.num # n
      BY <3>1, <3>3
    <3> QED BY <3>2, <3>3
  <2> QED BY <2>1 DEF CoreInv, LandedInv
<1>12. SentInv'
  <2>1. ASSUME NEW e \in sent, e = EnvelopeOf(batches[n]), batches[n].status \in {"submitting", "submitted"}
        PROVE  e = EnvelopeOf(batches[n])' /\ (batches[n])'.status \in {"submitting", "submitted"}
    BY <2>1
  <2> QED BY <1>1, <1>4, <2>1 DEF CoreInv, SentInv
<1> QED BY <1>4, <1>5, <1>6, <1>7, <1>8, <1>9, <1>10, <1>11, <1>12 DEF CoreInv

(* A batch whose envelope may be on the network is submitted once more.    *)
LEMMA CoreSubmit ==
  ASSUME TypeOK, CoreInv, NEW n \in NonTerminal,
         batches[n].status \in {"submitting", "submitted"},
         sent' = sent \cup {EnvelopeOf(batches[n])},
         UNCHANGED <<root, batchNum, depHead, depTail, landed, batches, depStatus,
                     depBatch, txStatus, txBatch, confirmed, leaves>>
  PROVE  CoreInv'
<1>1. QueueInv' /\ RowsInv' /\ InflightInv' /\ AgreementInv' /\ DepositInv' /\ TxInv'
      /\ LandedInv' /\ NonTerminal' = NonTerminal
  BY DEF CoreInv, QueueInv, Prefix, RowsInv, InflightInv, AgreementInv, DepositInv,
         TxInv, LandedInv, NonTerminal, Accepts
<1>2. SentInv'
  BY <1>1 DEF CoreInv, SentInv
<1> QED BY <1>1, <1>2 DEF CoreInv

(* A deposit row appears.                                                  *)
LEMMA CoreDepositRow ==
  ASSUME TypeOK, CoreInv, NEW d \in Dep,
         depStatus[d] # "none" => (depStatus[d])' = depStatus[d],
         depStatus[d] = "none" => (depStatus[d])' = "pending",
         \A c \in Dep \ {d} : depStatus'[c] = depStatus[c],
         UNCHANGED <<root, batchNum, depHead, depTail, sent, landed, batches,
                     depBatch, txStatus, txBatch, confirmed, leaves>>
  PROVE  CoreInv'
<1>1. QueueInv' /\ RowsInv' /\ AgreementInv' /\ LandedInv' /\ NonTerminal' = NonTerminal
  BY DEF CoreInv, QueueInv, Prefix, RowsInv, AgreementInv, LandedInv, NonTerminal, Accepts, EnvelopeOf
<1>2. SentInv'
  BY <1>1 DEF CoreInv, SentInv
<1>3. ASSUME NEW c \in Dep, depStatus[c] # "none" PROVE depStatus'[c] = depStatus[c]
  BY <1>3
<1>4. InflightInv'
  <2>1. ASSUME NEW n \in NonTerminal, NEW c \in batches[n].deps
        PROVE  c \in Dep /\ depStatus[c] # "none"
    BY DEF CoreInv, InflightInv, TypeOK, Row, NonTerminal
  <2> QED BY <1>1, <1>3, <2>1 DEF CoreInv, InflightInv
<1>5. ASSUME NEW c \in Dep PROVE /\ depStatus'[c] = "consumed" <=> depStatus[c] = "consumed"
                                /\ depStatus'[c] = "batching" <=> depStatus[c] = "batching"
  <2>1. CASE depStatus[c] = "none"
    <3>1. depStatus'[c] \in {"none", "pending"}
      BY <2>1
    <3> QED BY <2>1, <3>1
  <2> QED BY <1>3, <2>1
<1>6. DepositInv'
  BY <1>1, <1>5 DEF CoreInv, DepositInv
<1>7. TxInv'
  BY <1>1 DEF CoreInv, TxInv
<1> QED BY <1>1, <1>2, <1>4, <1>6, <1>7 DEF CoreInv

(* An input of the batch being built is marked.                            *)
LEMMA CoreMarkDeposit ==
  ASSUME TypeOK, CoreInv, NEW n \in NonTerminal, batches[n].status = "proving",
         NEW d \in batches[n].deps,
         depStatus' = [depStatus EXCEPT ![d] = "batching"],
         depBatch' = [depBatch EXCEPT ![d] = n],
         UNCHANGED <<chainVars, batches, txStatus, txBatch, confirmed, leaves>>
  PROVE  CoreInv' /\ NonTerminal' = NonTerminal
<1> USE DEF chainVars
<1>1. NonTerminal = {n} /\ d \in Dep
  BY InflightIsNext DEF NonTerminal, TypeOK, Row
<1>2. depStatus[d] \in {"pending", "batching"}
  BY DEF CoreInv, InflightInv
<1>3. QueueInv' /\ RowsInv' /\ AgreementInv' /\ LandedInv' /\ NonTerminal' = NonTerminal
  BY DEF CoreInv, QueueInv, Prefix, RowsInv, AgreementInv, LandedInv, NonTerminal, Accepts, EnvelopeOf
<1>4. SentInv'
  BY <1>3 DEF CoreInv, SentInv
<1>5. \A c \in Dep : depStatus'[c] = IF c = d THEN "batching" ELSE depStatus[c]
  BY <1>1 DEF TypeOK
<1>6. \A c \in Dep : depBatch'[c] = IF c = d THEN n ELSE depBatch[c]
  BY <1>1 DEF TypeOK
<1>7. batches[n].deps \subseteq Dep
  BY DEF NonTerminal, TypeOK, Row
<1>8. InflightInv'
  BY <1>1, <1>3, <1>5, <1>7 DEF CoreInv, InflightInv
<1>9. DepositInv'
  BY <1>1, <1>2, <1>3, <1>5, <1>6 DEF CoreInv, DepositInv
<1>10. TxInv'
  BY <1>3 DEF CoreInv, TxInv
<1> QED BY <1>3, <1>4, <1>8, <1>9, <1>10 DEF CoreInv

(* The same for a transaction.                                             *)
LEMMA CoreMarkTx ==
  ASSUME TypeOK, CoreInv, NEW n \in NonTerminal, batches[n].status = "proving",
         NEW t \in batches[n].txs,
         txStatus' = [txStatus EXCEPT ![t] = "batching"],
         txBatch' = [txBatch EXCEPT ![t] = n],
         UNCHANGED <<chainVars, batches, depStatus, depBatch, confirmed, leaves>>
  PROVE  CoreInv' /\ NonTerminal' = NonTerminal
<1> USE DEF chainVars
<1>1. NonTerminal = {n} /\ t \in Tx
  BY InflightIsNext DEF NonTerminal, TypeOK, Row
<1>2. txStatus[t] \in {"pending", "batching"}
  BY DEF CoreInv, InflightInv
<1>3. QueueInv' /\ RowsInv' /\ AgreementInv' /\ LandedInv' /\ NonTerminal' = NonTerminal
  BY DEF CoreInv, QueueInv, Prefix, RowsInv, AgreementInv, LandedInv, NonTerminal, Accepts, EnvelopeOf
<1>4. SentInv'
  BY <1>3 DEF CoreInv, SentInv
<1>5. \A u \in Tx : txStatus'[u] = IF u = t THEN "batching" ELSE txStatus[u]
  BY <1>1 DEF TypeOK
<1>6. \A u \in Tx : txBatch'[u] = IF u = t THEN n ELSE txBatch[u]
  BY <1>1 DEF TypeOK
<1>7. batches[n].txs \subseteq Tx
  BY DEF NonTerminal, TypeOK, Row
<1>8. InflightInv'
  BY <1>1, <1>3, <1>5, <1>7 DEF CoreInv, InflightInv
<1>9. TxInv'
  BY <1>1, <1>2, <1>3, <1>5, <1>6 DEF CoreInv, TxInv
<1>10. DepositInv'
  BY <1>3 DEF CoreInv, DepositInv
<1> QED BY <1>3, <1>4, <1>8, <1>9, <1>10 DEF CoreInv

(* The engine builds on the confirmed tree, which is the contract's.       *)
LEMMA SelectState ==
  ASSUME TypeOK, CoreInv, BuildInv, ControlInv, TreeIsConfirmedOrLanded, epc = "select"
  PROVE  NonTerminal = {} /\ batchNum = confirmed /\ root = leaves /\ tree = leaves
<1>1. NonTerminal = {}
  BY DEF BuildInv
<1>2. batchNum = confirmed /\ root = leaves
  BY <1>1, NoneInflight
<1>3. proc = "up"
  BY DEF ControlInv
<1>4. batchNum # confirmed + 1
  BY <1>2 DEF TypeOK
<1> QED BY <1>1, <1>2, <1>3, <1>4 DEF TreeIsConfirmedOrLanded

(* The row of a new batch goes in.                                         *)
LEMMA CoreInsertBatch ==
  ASSUME TypeOK, CoreInv, BuildInv, ControlInv, TreeIsConfirmedOrLanded, InsertBatch
  PROVE  /\ CoreInv' /\ NonTerminal' = {confirmed + 1}
         /\ batches'[confirmed + 1].deps = bdeps /\ batches'[confirmed + 1].txs = btxs
         /\ batches'[confirmed + 1].status = "proving"
<1> USE DEF chainVars, depVars, txVars
<1> DEFINE n == confirmed + 1
           row == [old |-> tree, new |-> Apply(tree, bdeps, btxs), deps |-> bdeps,
                   txs |-> btxs, proof |-> FALSE, status |-> "proving"]
<1>1. NonTerminal = {} /\ batchNum = confirmed /\ root = leaves /\ tree = leaves
  BY SelectState DEF InsertBatch
<1>2. /\ n \in BatchNo /\ batches[n].status = "none"
      /\ batches' = [batches EXCEPT ![n] = row]
      /\ UNCHANGED <<root, batchNum, depHead, depTail, sent, landed, depStatus,
                     depBatch, txStatus, txBatch, confirmed, leaves>>
  <2>1. n \in BatchNo
    BY BoundsAssumption DEF InsertBatch, BuildInv, BatchNo, TypeOK
  <2> QED BY <2>1 DEF InsertBatch
<1>3. /\ bdeps \subseteq Dep /\ btxs \subseteq Tx
      /\ \A d \in bdeps : depStatus[d] = "pending"
      /\ \A t \in btxs : txStatus[t] = "pending"
      /\ bdeps = Segment(depHead, Cardinality(bdeps))
      /\ depHead + Cardinality(bdeps) <= depTail
      /\ bdeps \cup btxs # {}
  BY DEF InsertBatch, BuildInv, TypeOK
<1>4. /\ batches'[n] = row
      /\ \A m \in BatchNo \ {n} : batches'[m] = batches[m]
  BY <1>2 DEF TypeOK
<1>5. NonTerminal' = {n}
  <2>1. n \in NonTerminal'
    BY <1>2, <1>4 DEF NonTerminal
  <2>2. ASSUME NEW m \in NonTerminal' PROVE m = n
    BY <1>1, <1>4 DEF NonTerminal
  <2> QED BY <2>1, <2>2
<1>6. /\ row.old = leaves /\ row.new = Apply(leaves, bdeps, btxs) /\ row.deps = bdeps
      /\ row.txs = btxs /\ row.status = "proving" /\ row.proof = FALSE
  BY <1>1
<1> HIDE DEF row
<1>7. QueueInv'
  BY <1>2 DEF CoreInv, QueueInv, Prefix
<1>8. RowsInv'
  <2>1. ~ (n <= confirmed) /\ n <= confirmed + 1
    BY DEF TypeOK
  <2> QED BY <1>2, <1>4, <1>6, <2>1 DEF CoreInv, RowsInv
<1>9. InflightInv'
  BY <1>2, <1>3, <1>4, <1>5, <1>6 DEF InflightInv
<1>10. AgreementInv'
  <2>1. Accepts(EnvelopeOf(batches[n]))'
    BY <1>1, <1>2, <1>3, <1>4, <1>6 DEF Accepts, EnvelopeOf
  <2> QED BY <1>1, <1>2, <1>5, <2>1 DEF AgreementInv
<1>11. DepositInv' /\ TxInv'
  BY <1>1, <1>2 DEF CoreInv, DepositInv, TxInv
<1>12. LandedInv'
  <2>1. ASSUME NEW b \in landed PROVE b.num \in BatchNo \ {n}
    <3>1. b.num \in BatchNo /\ batches[b.num].status # "none"
      BY DEF CoreInv, LandedInv, TypeOK, LandedBatch
    <3> QED BY <1>2, <3>1
  <2> QED BY <1>2, <1>4, <2>1 DEF CoreInv, LandedInv
<1>13. SentInv'
  BY <1>1, <1>2 DEF CoreInv, SentInv
<1> QED BY <1>4, <1>5, <1>6, <1>7, <1>8, <1>9, <1>10, <1>11, <1>12, <1>13 DEF CoreInv

(* The commit of a confirmation.                                           *)
LEMMA CoreConfirm ==
  ASSUME TypeOK, CoreInv, BatcherInv, ControlInv, ConfirmCommit
  PROVE  /\ CoreInv' /\ NonTerminal' = {}
         /\ leaves' = root /\ leaves' = tree
         /\ \A d \in Dep : depStatus'[d] # "none" <=> depStatus[d] # "none"
<1> USE DEF chainVars
<1> DEFINE row == batches[bnum]
<1>1. /\ bnum \in NonTerminal /\ row.status \in {"submitting", "submitted"}
      /\ batchNum = confirmed + 1 /\ tree = root
  BY DEF ConfirmCommit, BatcherInv, ControlInv
<1>2. NonTerminal = {bnum} /\ bnum = confirmed + 1 /\ bnum \in BatchNo /\ bnum = batchNum
  BY <1>1, InflightIsNext DEF NonTerminal
<1>3. /\ root.deps = leaves.deps \cup row.deps /\ root.txs = leaves.txs \cup row.txs
      /\ row.deps \subseteq Dep /\ row.txs \subseteq Tx
  <2>1. row.new = root
    BY <1>2 DEF CoreInv, AgreementInv, TypeOK
  <2>2. row.new = Apply(leaves, row.deps, row.txs)
    BY <1>1 DEF CoreInv, InflightInv
  <2>3. row \in Row
    BY <1>2 DEF TypeOK
  <2> QED BY <2>1, <2>2, <2>3 DEF Apply, Row
<1>4. /\ UNCHANGED <<root, batchNum, depHead, depTail, sent, landed>>
      /\ leaves' = root /\ confirmed' = bnum
      /\ \A d \in Dep : depStatus'[d] = IF d \in row.deps THEN "consumed" ELSE depStatus[d]
      /\ \A t \in Tx : txStatus'[t] = IF t \in row.txs THEN "included" ELSE txStatus[t]
      /\ batches' = [batches EXCEPT ![bnum].status = "confirmed"]
  BY <1>1 DEF ConfirmCommit, KeepRowConfirmed
<1>5. /\ batches'[bnum].status = "confirmed" /\ batches'[bnum].proof = row.proof
      /\ EnvelopeOf(batches'[bnum]) = EnvelopeOf(row)
      /\ \A m : Stamped(m, batches'[bnum]) = Stamped(m, row)
      /\ \A m \in BatchNo \ {bnum} : batches'[m] = batches[m]
  BY <1>2, <1>4 DEF TypeOK, Row, EnvelopeOf, Stamped
<1>6. NonTerminal' = {}
  <2>1. ASSUME NEW m \in BatchNo, batches'[m].status \notin {"none", "confirmed"} PROVE FALSE
    <3>1. m # bnum
      BY <1>5, <2>1
    <3>2. m \in NonTerminal
      BY <1>5, <2>1, <3>1 DEF NonTerminal
    <3> QED BY <1>2, <3>1, <3>2
  <2> QED BY <2>1 DEF NonTerminal
<1> HIDE DEF row
<1>7. QueueInv'
  BY <1>4 DEF CoreInv, QueueInv, Prefix
<1>8. RowsInv'
  <2>1. row.proof
    BY <1>1, <1>2 DEF CoreInv, RowsInv, row
  <2>2. ASSUME NEW m \in BatchNo, m # bnum
        PROVE  (m <= bnum <=> m <= confirmed) /\ (m <= confirmed + 1 => m <= bnum + 1)
    BY <1>2, <2>2 DEF BatchNo, TypeOK
  <2>3. bnum <= bnum /\ bnum <= bnum + 1
    BY <1>2 DEF BatchNo
  <2>4. ASSUME NEW m \in BatchNo
        PROVE  /\ batches'[m].status = "confirmed" <=> m <= confirmed'
               /\ batches'[m].status # "none" => m <= confirmed' + 1
               /\ batches'[m].status \notin {"none", "proving"} => batches'[m].proof
    <3>1. CASE m = bnum
      BY <1>4, <1>5, <2>1, <2>3, <3>1
    <3>2. CASE m # bnum
      BY <1>4, <1>5, <2>2, <3>2 DEF CoreInv, RowsInv
    <3> QED BY <3>1, <3>2
  <2> QED BY <2>4 DEF RowsInv
<1>9. InflightInv' /\ AgreementInv'
  BY <1>2, <1>4, <1>6 DEF InflightInv, AgreementInv
<1>10. DepositInv'
  <2>1. \A d \in Dep : depStatus[d] = "batching" => d \in row.deps
    BY <1>2 DEF CoreInv, DepositInv, row
  <2> QED BY <1>3, <1>4, <2>1 DEF CoreInv, DepositInv
<1>11. TxInv'
  <2>1. \A t \in Tx : txStatus[t] = "batching" => t \in row.txs
    BY <1>2 DEF CoreInv, TxInv, row
  <2> QED BY <1>3, <1>4, <2>1 DEF CoreInv, TxInv
<1>12. LandedInv'
  <2>1. ASSUME NEW b \in landed
        PROVE  b = Stamped(b.num, batches'[b.num]) /\ batches'[b.num].status # "none"
    <3>1. b.num \in BatchNo /\ b = Stamped(b.num, batches[b.num]) /\ batches[b.num].status # "none"
      BY DEF CoreInv, LandedInv, TypeOK, LandedBatch
    <3>2. CASE b.num = bnum
      <4>1. Stamped(b.num, batches'[b.num]) = Stamped(b.num, batches[b.num])
        BY <1>5, <3>2 DEF row
      <4> QED BY <1>5, <3>1, <3>2, <4>1
    <3>3. CASE b.num # bnum
      BY <1>5, <3>1, <3>3
    <3> QED BY <3>2, <3>3
  <2> QED BY <1>4, <2>1 DEF CoreInv, LandedInv
<1>13. SentInv'
  <2>1. PICK b \in landed : b.num = bnum
    BY <1>2 DEF CoreInv, LandedInv, BatchNo
  <2>2. b = Stamped(bnum, row)
    BY <2>1 DEF CoreInv, LandedInv, row
  <2>3. EnvelopeOf(b) = EnvelopeOf(row)
    BY <2>2 DEF EnvelopeOf, Stamped
  <2>4. ASSUME NEW e \in sent PROVE \E a \in landed : EnvelopeOf(a) = e
    BY <1>2, <2>1, <2>3 DEF CoreInv, SentInv, row
  <2> QED BY <1>4, <2>4 DEF SentInv
<1>14. \A d \in Dep : depStatus'[d] # "none" <=> depStatus[d] # "none"
  <2>1. \A d \in row.deps : depStatus[d] # "none"
    BY <1>1 DEF CoreInv, InflightInv, row
  <2> QED BY <1>3, <1>4, <2>1
<1> QED BY <1>1, <1>4, <1>6, <1>7, <1>8, <1>9, <1>10, <1>11, <1>12, <1>13, <1>14 DEF CoreInv
=============================================================================

--------------------------- MODULE PipelineProofs ---------------------------
(***************************************************************************)
(* The inductive invariant of the pipeline and what follows from it, for   *)
(* every value of the constants, when nobody else submits batches.         *)
(***************************************************************************)
EXTENDS PipelineCoreProofs

-----------------------------------------------------------------------------
(* Steps that leave the known deposits and the watcher's reading alone.    *)

(* The deposits with a row stay a prefix of the queue that covers the      *)
(* cursors.                                                                *)
LEMMA KnownStable ==
  ASSUME TypeOK, KnownInv,
         depTail' \in Nat, depTail <= depTail',
         \A d \in Dep : depStatus'[d] # "none" <=> depStatus[d] # "none",
         UNCHANGED <<depHead, depCursor>>,
         proc' = "up" => (proc = "up" /\ wcursor' = wcursor) \/ wcursor' = depCursor,
         epc' = "insertDeps" => epc = "insertDeps" /\ UNCHANGED <<todo, wcursor, wobs>>
  PROVE  KnownInv'
<1>1. PICK k \in 0 .. depTail :
        /\ \A d \in Dep : depStatus[d] # "none" <=> d < k
        /\ depHead <= k /\ depCursor <= k
        /\ proc = "up" => wcursor <= k
        /\ epc = "insertDeps" =>
             \A d \in Segment(wcursor, wobs) : d \in todo \/ d < k
  BY DEF KnownInv
<1>2. k \in 0 .. depTail'
  BY DEF TypeOK
<1>3. \A d \in Dep : depStatus'[d] # "none" <=> d < k
  BY <1>1
<1>4. depHead' <= k /\ depCursor' <= k
  BY <1>1
<1>5. proc' = "up" => wcursor' <= k
  BY <1>1
<1>6. epc' = "insertDeps" => \A d \in Segment(wcursor', wobs') : d \in todo' \/ d < k
  BY <1>1
<1> QED BY <1>2, <1>3, <1>4, <1>5, <1>6 DEF KnownInv, Segment

(* What the watcher has read stays within the queue.                       *)
LEMMA WatcherStable ==
  ASSUME TypeOK, WatcherInv,
         depTail' \in Nat, depTail <= depTail',
         wpc' # "idle" => wpc # "idle" /\ UNCHANGED <<wcursor, wobs, wtail>>,
         epc' = "insertDeps" =>
           epc = "insertDeps" /\ UNCHANGED <<wpc, todo, wcursor, wobs>>
  PROVE  WatcherInv'
<1>1. wpc' # "idle" => wcursor' + wobs' <= wtail' /\ wtail' <= depTail'
  BY DEF WatcherInv, TypeOK
<1>2. epc' = "insertDeps" => wpc' = "await" /\ todo' \subseteq Segment(wcursor', wobs')
  BY DEF WatcherInv, Segment
<1> QED BY <1>1, <1>2 DEF WatcherInv

-----------------------------------------------------------------------------
(* The invariant without its types, step by step.                          *)

StepInv ==
  /\ CoreInv /\ KnownInv /\ WatcherInv
  /\ BuildInv /\ BatcherInv /\ ControlInv
  /\ TreeIsConfirmedOrLanded

(* A deposit joins the queue.                                              *)
LEMMA DepositStep ==
  ASSUME TypeOK, StepInv, TypeOK', Deposit
  PROVE  StepInv'
<1> USE DEF chainVars, dbVars, depVars, txVars, procVars, engineVars, batcherVars,
            watcherVars, boundVars, StepInv
<1>1. depTail' \in Nat /\ depTail <= depTail'
  BY DEF TypeOK, Deposit
<1>2. CoreInv'
  BY <1>1, CoreStable DEF Deposit
<1>3. KnownInv'
  BY <1>1, KnownStable DEF Deposit
<1>4. WatcherInv'
  BY <1>1, WatcherStable DEF Deposit
<1>5. BuildInv'
  <2>1. Cardinality(bdeps) \in Nat
    BY FiniteDeps DEF TypeOK
  <2>2. depHead + Cardinality(bdeps) <= depTail => depHead + Cardinality(bdeps) <= depTail'
    BY <1>1, <2>1 DEF TypeOK
  <2> QED BY <2>2 DEF BuildInv, Deposit, NonTerminal, Segment
<1>6. BatcherInv' /\ ControlInv' /\ TreeIsConfirmedOrLanded'
  BY DEF BatcherInv, ControlInv, TreeIsConfirmedOrLanded, Deposit, NonTerminal
<1> QED BY <1>2, <1>3, <1>4, <1>5, <1>6

(* A batch lands; no build and no commit can be under way.                 *)
LEMMA LandStep ==
  ASSUME TypeOK, StepInv, TypeOK', NEW e \in sent, Land(e)
  PROVE  StepInv'
<1> USE DEF chainVars, dbVars, depVars, txVars, procVars, engineVars, batcherVars,
            watcherVars, boundVars, StepInv
<1>1. PICK n \in NonTerminal :
        /\ e = EnvelopeOf(batches[n])
        /\ batches[n].status \in {"submitting", "submitted"}
        /\ n = confirmed + 1 /\ batchNum = confirmed /\ root = leaves
  BY AcceptedIsInflight DEF Land
<1>2. CoreInv'
  BY CoreLand
<1>3. WatcherInv'
  BY WatcherStable DEF Land, LandEffect, TypeOK
<1>4. KnownInv'
  <2>1. PICK k \in 0 .. depTail :
          /\ \A d \in Dep : depStatus[d] # "none" <=> d < k
          /\ depHead <= k /\ depCursor <= k
          /\ proc = "up" => wcursor <= k
          /\ epc = "insertDeps" =>
               \A d \in Segment(wcursor, wobs) : d \in todo \/ d < k
    BY DEF KnownInv
  <2> DEFINE c == Cardinality(e.deps)
  <2>2. batches[n] \in Row /\ e.deps = batches[n].deps
    BY <1>1 DEF TypeOK, NonTerminal, EnvelopeOf
  <2>3. c \in Nat
    BY <2>2, FiniteDeps DEF Row
  <2>4. /\ depHead + c <= depTail /\ e.deps = Segment(depHead, c)
        /\ depHead' = depHead + c
    BY DEF Land, Accepts, LandEffect, Dequeued
  <2>5. \A d \in e.deps : d \in Dep /\ depStatus[d] # "none"
    BY <2>2 DEF CoreInv, InflightInv, Row
  <2> HIDE DEF c
  <2>6. depHead' <= k
    <3>1. CASE c = 0
      BY <2>1, <2>4, <3>1 DEF TypeOK
    <3>2. CASE c # 0
      <4>1. depHead + c - 1 \in Segment(depHead, c)
        BY <2>3, <2>4, <3>2, BoundsAssumption DEF Segment, Dep, TypeOK
      <4>2. depHead + c - 1 < k
        BY <2>1, <2>4, <2>5, <4>1
      <4> QED BY <2>3, <2>4, <4>2 DEF TypeOK
    <3> QED BY <3>1, <3>2
  <2>7. UNCHANGED <<depTail, depStatus, depCursor, proc, epc, todo, wcursor, wobs>>
    BY DEF Land, LandEffect
  <2> QED BY <2>1, <2>6, <2>7 DEF KnownInv, Segment
<1>5. NonTerminal' = NonTerminal
  BY DEF Land, LandEffect, NonTerminal
<1>6. batchNum # confirmed + 1
  BY <1>1 DEF TypeOK
<1>7. epc # "select" /\ epc # "commit"
  BY <1>6 DEF BuildInv, BatcherInv
<1>8. BuildInv' /\ BatcherInv'
  BY <1>5, <1>7 DEF BuildInv, BatcherInv, Land, LandEffect
<1>9. ControlInv' /\ TreeIsConfirmedOrLanded'
  BY <1>6 DEF ControlInv, TreeIsConfirmedOrLanded, Land, LandEffect
<1> QED BY <1>2, <1>3, <1>4, <1>8, <1>9

(* A transaction is admitted.                                              *)
LEMMA AdmitStep ==
  ASSUME TypeOK, StepInv, TypeOK', NEW t \in Tx, AdmitTx(t)
  PROVE  StepInv'
<1> USE DEF chainVars, dbVars, depVars, txVars, procVars, engineVars, batcherVars,
            watcherVars, boundVars, StepInv
<1>1. /\ txStatus[t] = "none" /\ txStatus'[t] = "pending"
      /\ \A u \in Tx \ {t} : txStatus'[u] = txStatus[u] /\ txBatch'[u] = txBatch[u]
      /\ epc = "idle"
  BY DEF AdmitTx, EngineIdle, TypeOK
<1>2. ASSUME NEW n \in NonTerminal PROVE t \notin batches[n].txs
  BY <1>1 DEF CoreInv, InflightInv
<1>3. CoreInv'
  BY <1>1, <1>2, CoreTxChange DEF AdmitTx
<1>4. KnownInv'
  BY KnownStable DEF AdmitTx, TypeOK
<1>5. WatcherInv'
  BY WatcherStable DEF AdmitTx, TypeOK
<1>6. BuildInv' /\ ControlInv' /\ TreeIsConfirmedOrLanded'
  BY <1>1 DEF BuildInv, ControlInv, TreeIsConfirmedOrLanded, AdmitTx
<1>7. BatcherInv'
  <2>1. NonTerminal' = NonTerminal
    BY DEF NonTerminal, AdmitTx
  <2>2. ASSUME NEW n \in NonTerminal, NEW u \in batches[n].txs
        PROVE  txStatus'[u] = txStatus[u]
    <3>1. u \in Tx
      BY DEF NonTerminal, TypeOK, Row
    <3> QED BY <1>1, <1>2, <3>1
  <2> QED BY <1>1, <2>1, <2>2 DEF BatcherInv, AdmitTx
<1> QED BY <1>3, <1>4, <1>5, <1>6, <1>7

(* Crashes and boots.                                                      *)
LEMMA BootUpStep ==
  ASSUME TypeOK, StepInv, TypeOK', BootUp
  PROVE  StepInv'
<1> USE DEF chainVars, dbVars, depVars, txVars, procVars, engineVars, batcherVars,
            watcherVars, boundVars, StepInv
<1>1. proc = "booting" /\ epc = "idle" /\ bpc = "boot" /\ wpc = "idle"
  BY DEF BootUp, ControlInv
<1>2. /\ proc' = "up" /\ tree' = leaves /\ wcursor' = depCursor
      /\ UNCHANGED <<chainVars, depCursor, confirmed, leaves, epc, todo, bdeps, btxs,
                     bpc, bnum, wpc, wtail, wobs>>
  BY DEF BootUp
<1>3. /\ CoreInv'
      /\ \A d \in Dep : depStatus'[d] # "none" <=> depStatus[d] # "none"
  <2>1. CASE batchNum = confirmed /\ InterruptedProve # {}
    <3>1. PICK n \in InterruptedProve : Requeue(n)
      BY <2>1 DEF BootUp
    <3>2. n \in NonTerminal /\ batches[n].status = "proving"
      BY DEF InterruptedProve, Inflight
    <3> QED BY <1>2, <3>1, <3>2, CoreRequeue
  <2>2. CASE ~ (batchNum = confirmed /\ InterruptedProve # {})
    <3>1. UNCHANGED <<batches, depVars, txVars>>
      BY <2>2 DEF BootUp
    <3>2. depTail' \in Nat /\ depTail <= depTail'
      BY <1>2 DEF TypeOK
    <3> QED BY <1>2, <3>1, <3>2, CoreStable
  <2> QED BY <2>1, <2>2
<1>4. KnownInv'
  <2>1. depTail' \in Nat /\ depTail <= depTail'
    BY <1>2 DEF TypeOK
  <2> QED BY <1>1, <1>2, <1>3, <2>1, KnownStable
<1>5. WatcherInv'
  BY <1>1, <1>2 DEF WatcherInv
<1>6. BuildInv' /\ BatcherInv' /\ ControlInv' /\ TreeIsConfirmedOrLanded'
  BY <1>1, <1>2 DEF BuildInv, BatcherInv, ControlInv, TreeIsConfirmedOrLanded
<1> QED BY <1>3, <1>4, <1>5, <1>6

(* The process dies, starts, or halts.                                     *)
LEMMA ProcessStep ==
  ASSUME TypeOK, StepInv, TypeOK', Process
  PROVE  StepInv'
<1> USE DEF chainVars, dbVars, depVars, txVars, procVars, engineVars, batcherVars,
            watcherVars, boundVars, StepInv
<1>1. ASSUME Crash PROVE StepInv'
  <2>1. depTail' \in Nat /\ depTail <= depTail'
    BY <1>1 DEF TypeOK, Crash
  <2>2. CoreInv'
    BY <1>1, <2>1, CoreStable DEF Crash
  <2>3. KnownInv'
    BY <1>1, <2>1, KnownStable DEF Crash
  <2>4. WatcherInv' /\ BuildInv' /\ BatcherInv' /\ ControlInv' /\ TreeIsConfirmedOrLanded'
    BY <1>1 DEF Crash, WatcherInv, BuildInv, BatcherInv, ControlInv, TreeIsConfirmedOrLanded
  <2> QED BY <2>2, <2>3, <2>4
<1>2. ASSUME BootReadRoot \/ BootHalt PROVE StepInv'
  <2>1. proc # "up" /\ proc' # "up"
    BY <1>2 DEF BootReadRoot, BootHalt
  <2>2. UNCHANGED <<chainVars, dbVars, engineVars, batcherVars, watcherVars>>
    BY <1>2 DEF BootReadRoot, BootHalt
  <2>3. depTail' \in Nat /\ depTail <= depTail'
    BY <2>2 DEF TypeOK
  <2>4. CoreInv'
    BY <2>2, <2>3, CoreStable
  <2>5. KnownInv'
    BY <2>1, <2>2, <2>3, KnownStable
  <2>6. WatcherInv' /\ BuildInv' /\ BatcherInv' /\ ControlInv' /\ TreeIsConfirmedOrLanded'
    BY <2>1, <2>2 DEF WatcherInv, BuildInv, BatcherInv, ControlInv, TreeIsConfirmedOrLanded
  <2> QED BY <2>4, <2>5, <2>6
<1> QED BY <1>1, <1>2, BootUpStep DEF Process

-----------------------------------------------------------------------------
(* The build.                                                              *)

(* The pending deposits are the queue's, from its head on.                 *)
LEMMA PendingIsQueueHead ==
  ASSUME TypeOK, CoreInv, KnownInv, NonTerminal = {}
  PROVE  \E k \in Nat : /\ depHead <= k /\ k <= depTail
                        /\ PendingDeps = depHead .. k - 1
<1>1. PICK k \in 0 .. depTail :
        /\ \A d \in Dep : depStatus[d] # "none" <=> d < k
        /\ depHead <= k
  BY DEF KnownInv
<1>2. leaves.deps = Prefix(depHead)
  BY NoneInflight DEF CoreInv, QueueInv
<1>3. ASSUME NEW d \in Dep PROVE d \in PendingDeps <=> depHead <= d /\ d < k
  <2>1. depStatus[d] = "consumed" <=> d < depHead
    BY <1>2 DEF CoreInv, DepositInv, Prefix
  <2>2. depStatus[d] # "batching"
    BY DEF CoreInv, DepositInv
  <2>3. depStatus[d] \in {"none", "pending", "batching", "consumed"}
    BY DEF TypeOK
  <2>4. d \in Int /\ depHead \in Int
    BY DEF Dep, TypeOK
  <2> QED BY <1>1, <2>1, <2>2, <2>3, <2>4 DEF PendingDeps
<1>4. \A d : d \in PendingDeps <=> d \in depHead .. k - 1
  <2>1. \A d : d \in depHead .. k - 1 => d \in Dep
    BY <1>1, BoundsAssumption DEF Dep, TypeOK
  <2>2. \A d : d \in PendingDeps => d \in Dep
    BY DEF PendingDeps
  <2>3. \A d \in Dep : depHead <= d /\ d < k <=> d \in depHead .. k - 1
    BY <1>1 DEF Dep, TypeOK
  <2> QED BY <1>3, <2>1, <2>2, <2>3
<1>5. PendingDeps = depHead .. k - 1
  BY <1>4
<1>6. k \in Nat /\ depHead <= k /\ k <= depTail
  BY <1>1, BoundsAssumption DEF TypeOK
<1> QED BY <1>5, <1>6, Zenon

(* Whatever is pending, something is selected: the oldest candidate is     *)
(* within the withdrawal cap.                                              *)
LEMMA SelectedNonempty ==
  ASSUME PendingTxs # {}
  PROVE  Selected # {}
<1> USE BoundsAssumption
<1>1. PendingTxs \subseteq Nat /\ Candidates \subseteq Nat /\ WithinCap \subseteq Nat
  BY DEF PendingTxs, Candidates, WithinCap, LimitedTo, Tx
<1>2. 4 * TxSlots \in Nat \ {0}
  OBVIOUS
<1>3. Candidates # {}
  BY <1>1, <1>2, LimitedNonempty DEF Candidates
<1>4. PICK m \in Candidates : \A x \in Candidates : m <= x
  BY <1>1, <1>3, LeastExists
<1>5. {u \in Candidates \cap Withdrawals : u < m} = {}
  <2>1. \A u \in Candidates : ~ (u < m)
    BY <1>1, <1>4
  <2> QED BY <2>1
<1>6. Cardinality({u \in Candidates \cap Withdrawals : u < m}) < WithdrawalCap
  BY <1>5, FS_EmptySet
<1>7. m \in WithinCap
  BY <1>6 DEF WithinCap
<1> QED BY <1>1, <1>7, LimitedNonempty DEF Selected

(* A build selects a non-empty prefix of the queue and some transactions.  *)
LEMMA TryBuildStep ==
  ASSUME TypeOK, StepInv, TypeOK', TryBuild
  PROVE  StepInv'
<1> USE DEF chainVars, dbVars, depVars, txVars, procVars, engineVars, batcherVars,
            watcherVars, boundVars, StepInv
<1>1. NonTerminal = {} /\ NonTerminal' = {}
  BY InflightIsNext DEF TryBuild, NonTerminal
<1>2. /\ UNCHANGED <<chainVars, dbVars, procVars, tree, todo, bnum, watcherVars>>
      /\ epc = "idle" /\ bpc = "tick" /\ epc' = "select" /\ bpc' = "building"
      /\ bdeps' = LimitedTo(PendingDeps, DepositSlots) /\ btxs' = Selected
      /\ confirmed < MaxBatches
      /\ PendingDeps # {} \/ PendingTxs # {}
      /\ proc = "up"
  BY DEF TryBuild, EngineIdle
<1>3. depTail' \in Nat /\ depTail <= depTail'
  BY <1>2 DEF TypeOK
<1>4. CoreInv'
  BY <1>2, <1>3, CoreStable
<1>5. KnownInv'
  BY <1>2, <1>3, KnownStable
<1>6. WatcherInv'
  BY <1>2, <1>3, WatcherStable
<1>7. PICK k \in Nat : depHead <= k /\ k <= depTail /\ PendingDeps = depHead .. k - 1
  BY <1>1, PendingIsQueueHead
<1>8. DepositSlots \in Nat \ {0}
  BY BoundsAssumption
<1>9. PICK c \in Nat : /\ bdeps' = depHead .. depHead + c - 1
                       /\ depHead + c <= k /\ c = Cardinality(bdeps')
  <2>1. depHead \in Nat
    BY BoundsAssumption DEF TypeOK
  <2>2. \E c \in Nat : /\ LimitedTo(depHead .. k - 1, DepositSlots) = depHead .. depHead + c - 1
                      /\ depHead + c <= k
                      /\ c = Cardinality(LimitedTo(depHead .. k - 1, DepositSlots))
    <3>1. DepositSlots \in Nat
      BY <1>8
    <3> HIDE DEF StepInv
    <3>2. depHead <= k
      BY <1>7
    <3>3. \A h, t, m \in Nat : h <= t =>
            \E c \in Nat : /\ LimitedTo(h .. t - 1, m) = h .. h + c - 1
                          /\ h + c <= t
                          /\ c = Cardinality(LimitedTo(h .. t - 1, m))
      BY LimitedInterval
    <3> QED BY <1>7, <2>1, <3>1, <3>2, <3>3, Zenon
  <2> QED BY <1>2, <1>7, <2>2, Zenon
<1>10. depHead + c <= depTail
  <2>1. depHead \in Nat /\ depTail \in Nat
    BY BoundsAssumption DEF TypeOK
  <2>2. depHead + c <= k /\ k <= depTail
    BY <1>7, <1>9
  <2> QED BY <2>1, <2>2
<1>11. bdeps' = Segment(depHead, c)
  <2>1. depHead \in Nat /\ depHead + c <= MaxDeposits
    BY <1>10, BoundsAssumption DEF TypeOK
  <2>2. \A d : d \in Segment(depHead, c) <=> d \in depHead .. depHead + c - 1
    BY <2>1, BoundsAssumption DEF Segment, Dep
  <2>3. Segment(depHead, c) = depHead .. depHead + c - 1
    BY <2>2
  <2> QED BY <1>9, <2>3
<1>12. bdeps' \cup btxs' # {}
  <2>1. CASE PendingDeps # {}
    <3>1. PendingDeps \subseteq Nat
      BY DEF PendingDeps, Dep
    <3> QED BY <1>2, <1>8, <2>1, <3>1, LimitedNonempty
  <2>2. CASE PendingTxs # {}
    BY <1>2, <2>2, SelectedNonempty
  <2> QED BY <1>2, <2>1, <2>2
<1>13. \A d \in bdeps' : depStatus'[d] = "pending"
  BY <1>2 DEF LimitedTo, PendingDeps
<1>14. \A t \in btxs' : txStatus'[t] = "pending"
  BY <1>2 DEF Selected, WithinCap, Candidates, LimitedTo, PendingTxs
<1>15. BuildInv'
  <2>1. UNCHANGED <<depHead, depTail, confirmed>>
    BY <1>2
  <2>2. bdeps' = Segment(depHead', Cardinality(bdeps'))
    BY <1>9, <1>11, <2>1 DEF Segment
  <2>3. depHead' + Cardinality(bdeps') <= depTail'
    BY <1>9, <1>10, <2>1
  <2>4. confirmed' < MaxBatches
    BY <1>2, <2>1
  <2>5. epc' = "select"
    BY <1>2
  <2> QED BY <1>1, <1>12, <1>13, <1>14, <2>2, <2>3, <2>4, <2>5 DEF BuildInv
<1>16. BatcherInv' /\ ControlInv' /\ TreeIsConfirmedOrLanded'
  BY <1>2 DEF BatcherInv, ControlInv, TreeIsConfirmedOrLanded
<1> QED BY <1>4, <1>5, <1>6, <1>15, <1>16

(* A build rejects a transaction, and keeps at least one input.            *)
LEMMA EvictStep ==
  ASSUME TypeOK, StepInv, TypeOK', NEW t \in Tx, EvictTx(t)
  PROVE  StepInv'
<1> USE DEF chainVars, dbVars, depVars, txVars, procVars, engineVars, batcherVars,
            watcherVars, boundVars, StepInv
<1>1. /\ epc = "select" /\ t \in btxs /\ txStatus[t] = "pending"
      /\ NonTerminal = {}
  BY DEF EvictTx, BuildInv
<1>2. /\ txStatus'[t] = "rejected"
      /\ \A u \in Tx \ {t} : txStatus'[u] = txStatus[u] /\ txBatch'[u] = txBatch[u]
  BY DEF EvictTx, TypeOK
<1>3. CoreInv'
  BY <1>1, <1>2, CoreTxChange DEF EvictTx
<1>4. epc' # "insertDeps" /\ epc' # "commit"
  BY <1>1 DEF EvictTx
<1>5. KnownInv'
  BY <1>4, KnownStable DEF EvictTx, TypeOK
<1>6. WatcherInv'
  BY <1>4, WatcherStable DEF EvictTx, TypeOK
<1>7. BuildInv'
  <2>1. CASE NothingLeftWithout(t)
    BY <2>1 DEF EvictTx, BuildInv
  <2>2. CASE ~ NothingLeftWithout(t)
    <3>1. btxs' = btxs \ {t} /\ epc' = "select" /\ bdeps' = bdeps
      BY <1>1, <2>2 DEF EvictTx
    <3>2. bdeps' \cup btxs' # {}
      BY <1>1, <2>2, <3>1 DEF NothingLeftWithout
    <3>3. \A u \in btxs' : txStatus'[u] = "pending"
      BY <1>1, <1>2, <3>1 DEF BuildInv, TypeOK
    <3>4. NonTerminal' = {}
      BY <1>1 DEF NonTerminal, EvictTx
    <3> QED BY <1>1, <3>1, <3>2, <3>3, <3>4 DEF BuildInv, EvictTx, Segment
  <2> QED BY <2>1, <2>2
<1>8. bpc = "building" /\ proc = "up" /\ wpc' = wpc /\ proc' = proc
  BY <1>1 DEF ControlInv, EvictTx
<1>9. BatcherInv' /\ ControlInv'
  BY <1>1, <1>4, <1>8 DEF BatcherInv, ControlInv, EvictTx
<1>10. TreeIsConfirmedOrLanded'
  BY DEF TreeIsConfirmedOrLanded, EvictTx
<1> QED BY <1>3, <1>5, <1>6, <1>7, <1>9, <1>10

(* A build or a confirmation abandoned by its engine handler.              *)
LEMMA AbandonStep ==
  ASSUME TypeOK, StepInv, TypeOK', BuildGivesUp \/ BuildFault
  PROVE  StepInv'
<1> USE DEF chainVars, dbVars, depVars, txVars, procVars, engineVars, batcherVars,
            watcherVars, boundVars, StepInv
<1>1. /\ epc # "insertDeps" /\ epc # "idle"
      /\ epc' = "idle" /\ bpc' = "tick"
      /\ UNCHANGED <<chainVars, dbVars, procVars, tree, bnum, watcherVars>>
  BY DEF BuildGivesUp, BuildFault
<1>2. depTail' \in Nat /\ depTail <= depTail'
  BY <1>1 DEF TypeOK
<1>3. CoreInv'
  BY <1>1, <1>2, CoreStable
<1>4. KnownInv'
  BY <1>1, <1>2, KnownStable
<1>5. WatcherInv'
  BY <1>1, <1>2, WatcherStable
<1>6. BuildInv' /\ BatcherInv' /\ ControlInv' /\ TreeIsConfirmedOrLanded'
  BY <1>1 DEF BuildInv, BatcherInv, ControlInv, TreeIsConfirmedOrLanded
<1> QED BY <1>3, <1>4, <1>5, <1>6

(* The new row is in flight and its deposits are to be marked.             *)
LEMMA InsertBatchStep ==
  ASSUME TypeOK, StepInv, TypeOK', InsertBatch
  PROVE  StepInv'
<1> USE DEF chainVars, dbVars, depVars, txVars, procVars, engineVars, batcherVars,
            watcherVars, boundVars, StepInv
<1>1. /\ CoreInv' /\ NonTerminal' = {confirmed + 1}
      /\ batches'[confirmed + 1].deps = bdeps /\ batches'[confirmed + 1].txs = btxs
      /\ batches'[confirmed + 1].status = "proving"
  BY CoreInsertBatch
<1>2. /\ epc = "select" /\ epc' = "markDeps" /\ bnum' = confirmed + 1 /\ todo' = bdeps
      /\ UNCHANGED <<depTail, depStatus, depHead, depCursor, procVars, watcherVars,
                     bdeps, btxs, bpc, tree, leaves, batchNum, confirmed, root>>
  BY DEF InsertBatch
<1>3. depTail' \in Nat /\ depTail <= depTail'
  BY <1>2 DEF TypeOK
<1>4. KnownInv'
  BY <1>2, <1>3, KnownStable
<1>5. WatcherInv'
  BY <1>2, <1>3, WatcherStable
<1>6. bnum' \in NonTerminal'
  BY <1>1, <1>2
<1>7. BuildInv'
  BY <1>1, <1>2, <1>6 DEF BuildInv
<1>8. bpc = "building" /\ bpc' = "building"
  BY <1>2 DEF ControlInv
<1>9. BatcherInv' /\ ControlInv' /\ TreeIsConfirmedOrLanded'
  BY <1>2, <1>8 DEF BatcherInv, ControlInv, TreeIsConfirmedOrLanded
<1> QED BY <1>1, <1>4, <1>5, <1>7, <1>9

(* A deposit is marked, or the last one was.                               *)
LEMMA MarkDepositStep ==
  ASSUME TypeOK, StepInv, TypeOK', MarkDeposit
  PROVE  StepInv'
<1> USE DEF chainVars, dbVars, depVars, txVars, procVars, engineVars, batcherVars,
            watcherVars, boundVars, StepInv
<1>1. /\ epc = "markDeps" /\ bpc = "building"
      /\ bnum \in NonTerminal /\ batches[bnum].status = "proving"
      /\ bdeps = batches[bnum].deps /\ btxs = batches[bnum].txs
      /\ todo \subseteq bdeps
      /\ \A d \in bdeps \ todo : depStatus[d] = "batching"
  BY DEF MarkDeposit, ControlInv, BuildInv
<1>2. UNCHANGED <<chainVars, batches, txVars, depCursor, confirmed, leaves,
                  procVars, tree, bdeps, btxs, batcherVars, watcherVars>>
  BY DEF MarkDeposit
<1>3. depTail' \in Nat /\ depTail <= depTail'
  BY <1>2 DEF TypeOK
<1>4. CASE /\ AllMarked
           /\ epc' = "markTxs" /\ todo' = btxs
           /\ UNCHANGED depVars
  <2>1. CoreInv'
    BY <1>2, <1>3, <1>4, CoreStable
  <2>2. KnownInv'
    BY <1>2, <1>3, <1>4, KnownStable
  <2>3. WatcherInv'
    BY <1>2, <1>3, <1>4, WatcherStable
  <2>4. NonTerminal' = NonTerminal
    BY <1>2 DEF NonTerminal
  <2>5. BuildInv'
    BY <1>1, <1>2, <1>4, <2>4 DEF BuildInv, AllMarked
  <2>6. BatcherInv' /\ ControlInv' /\ TreeIsConfirmedOrLanded'
    BY <1>1, <1>2, <1>4 DEF BatcherInv, ControlInv, TreeIsConfirmedOrLanded
  <2> QED BY <2>1, <2>2, <2>3, <2>5, <2>6
<1>5. CASE /\ \E d \in LowestOf(todo) :
                /\ depStatus' = [depStatus EXCEPT ![d] = "batching"]
                /\ depBatch' = [depBatch EXCEPT ![d] = bnum]
                /\ todo' = todo \ {d}
           /\ UNCHANGED epc
  <2>1. PICK d \in LowestOf(todo) :
               /\ depStatus' = [depStatus EXCEPT ![d] = "batching"]
               /\ depBatch' = [depBatch EXCEPT ![d] = bnum]
               /\ todo' = todo \ {d}
    BY <1>5
  <2>2. d \in todo /\ d \in batches[bnum].deps /\ d \in Dep
    BY <1>1 DEF LowestOf, TypeOK
  <2>3. CoreInv' /\ NonTerminal' = NonTerminal
    BY <1>1, <1>2, <2>1, <2>2, CoreMarkDeposit
  <2>4. depStatus[d] # "none"
    BY <1>1, <2>2 DEF CoreInv, InflightInv
  <2>5. \A c \in Dep : depStatus'[c] = IF c = d THEN "batching" ELSE depStatus[c]
    BY <2>1, <2>2 DEF TypeOK
  <2>6. KnownInv'
    <3>1. \A c \in Dep : depStatus'[c] # "none" <=> depStatus[c] # "none"
      BY <2>4, <2>5
    <3> QED BY <1>1, <1>2, <1>3, <1>5, <3>1, KnownStable
  <2>7. WatcherInv'
    BY <1>1, <1>2, <1>3, <1>5, WatcherStable
  <2>8. BuildInv'
    <3>1. bdeps \subseteq Dep /\ epc' = "markDeps"
      BY <1>1, <1>5 DEF TypeOK
    <3>2. \A c \in bdeps \ todo' : depStatus'[c] = "batching"
      BY <1>1, <2>1, <2>5, <3>1
    <3> QED BY <1>1, <1>2, <2>1, <2>3, <3>1, <3>2 DEF BuildInv
  <2>9. BatcherInv' /\ ControlInv' /\ TreeIsConfirmedOrLanded'
    BY <1>1, <1>2, <1>5 DEF BatcherInv, ControlInv, TreeIsConfirmedOrLanded
  <2> QED BY <2>3, <2>6, <2>7, <2>8, <2>9
<1> QED BY <1>4, <1>5 DEF MarkDeposit

(* A transaction is marked, or the last one was.                           *)
LEMMA MarkTxStep ==
  ASSUME TypeOK, StepInv, TypeOK', MarkTx
  PROVE  StepInv'
<1> USE DEF chainVars, dbVars, depVars, txVars, procVars, engineVars, batcherVars,
            watcherVars, boundVars, StepInv
<1>1. /\ epc = "markTxs" /\ bpc = "building"
      /\ bnum \in NonTerminal /\ batches[bnum].status = "proving"
      /\ bdeps = batches[bnum].deps /\ btxs = batches[bnum].txs
      /\ todo \subseteq btxs
      /\ \A d \in bdeps : depStatus[d] = "batching"
      /\ \A t \in btxs \ todo : txStatus[t] = "batching"
  BY DEF MarkTx, ControlInv, BuildInv
<1>2. UNCHANGED <<chainVars, batches, depVars, depCursor, confirmed, leaves,
                  procVars, tree, bnum, watcherVars>>
  BY DEF MarkTx
<1>3. depTail' \in Nat /\ depTail <= depTail'
  BY <1>2 DEF TypeOK
<1>4. CASE /\ AllMarked
           /\ epc' = "idle" /\ bdeps' = {} /\ btxs' = {}
           /\ bpc' = "prove"
           /\ UNCHANGED <<todo, txVars>>
  <2>1. CoreInv'
    BY <1>2, <1>3, <1>4, CoreStable
  <2>2. KnownInv'
    BY <1>2, <1>3, <1>4, KnownStable
  <2>3. WatcherInv'
    BY <1>2, <1>3, <1>4, WatcherStable
  <2>4. NonTerminal' = NonTerminal
    BY <1>2 DEF NonTerminal
  <2>5. BuildInv' /\ BatcherInv'
    BY <1>1, <1>2, <1>4, <2>4 DEF BuildInv, BatcherInv, AllMarked
  <2>6. ControlInv' /\ TreeIsConfirmedOrLanded'
    BY <1>1, <1>2, <1>4 DEF ControlInv, TreeIsConfirmedOrLanded
  <2> QED BY <2>1, <2>2, <2>3, <2>5, <2>6
<1>5. CASE /\ \E t \in LowestOf(todo) :
                /\ txStatus' = [txStatus EXCEPT ![t] = "batching"]
                /\ txBatch' = [txBatch EXCEPT ![t] = bnum]
                /\ todo' = todo \ {t}
           /\ UNCHANGED <<epc, bdeps, btxs, bpc>>
  <2>1. PICK t \in LowestOf(todo) :
               /\ txStatus' = [txStatus EXCEPT ![t] = "batching"]
               /\ txBatch' = [txBatch EXCEPT ![t] = bnum]
               /\ todo' = todo \ {t}
    BY <1>5
  <2>2. t \in todo /\ t \in batches[bnum].txs /\ t \in Tx
    BY <1>1 DEF LowestOf, TypeOK
  <2>3. CoreInv' /\ NonTerminal' = NonTerminal
    BY <1>1, <1>2, <2>1, <2>2, CoreMarkTx
  <2>4. \A u \in Tx : txStatus'[u] = IF u = t THEN "batching" ELSE txStatus[u]
    BY <2>1, <2>2 DEF TypeOK
  <2>5. KnownInv'
    BY <1>1, <1>2, <1>3, <1>5, KnownStable
  <2>6. WatcherInv'
    BY <1>1, <1>2, <1>3, <1>5, WatcherStable
  <2>7. BuildInv'
    <3>1. btxs \subseteq Tx /\ epc' = "markTxs"
      BY <1>1, <1>5 DEF TypeOK
    <3>2. \A u \in btxs \ todo' : txStatus'[u] = "batching"
      BY <1>1, <2>1, <2>4, <3>1
    <3> QED BY <1>1, <1>2, <1>5, <2>1, <2>3, <3>1, <3>2 DEF BuildInv
  <2>8. BatcherInv' /\ ControlInv' /\ TreeIsConfirmedOrLanded'
    BY <1>1, <1>2, <1>5 DEF BatcherInv, ControlInv, TreeIsConfirmedOrLanded
  <2> QED BY <2>3, <2>5, <2>6, <2>7, <2>8
<1> QED BY <1>4, <1>5 DEF MarkTx

-----------------------------------------------------------------------------
(* The batcher.                                                            *)

(* What a batcher step with the engine idle leaves alone, and what has to  *)
(* be shown of it beyond CoreInv.                                          *)
LEMMA BatcherFrame ==
  ASSUME TypeOK, StepInv, TypeOK', EngineIdle,
         UNCHANGED <<chainVars, depCursor, confirmed, leaves, procVars, engineVars,
                     watcherVars>>,
         \A d \in Dep : depStatus'[d] # "none" <=> depStatus[d] # "none",
         CoreInv', BatcherInv', bpc' \notin {"building", "confirming"}
  PROVE  StepInv'
<1> USE DEF chainVars, procVars, engineVars, watcherVars, StepInv
<1>1. depTail' \in Nat /\ depTail <= depTail'
  BY DEF TypeOK
<1>2. epc = "idle" /\ epc' = "idle" /\ proc = "up" /\ proc' = "up"
  BY DEF EngineIdle
<1>3. KnownInv'
  BY <1>1, <1>2, KnownStable
<1>4. WatcherInv'
  BY <1>1, <1>2, WatcherStable
<1>5. BuildInv' /\ ControlInv' /\ TreeIsConfirmedOrLanded'
  BY <1>2 DEF BuildInv, ControlInv, TreeIsConfirmedOrLanded
<1> QED BY <1>3, <1>4, <1>5

(* A requeue by the batcher.                                               *)
LEMMA RequeueStep ==
  ASSUME TypeOK, StepInv, TypeOK', EngineIdle, NEW n \in NonTerminal,
         batches[n].status = "proving", Requeue(n), bpc' = "tick",
         UNCHANGED <<chainVars, depCursor, confirmed, leaves, procVars,
                     engineVars, watcherVars>>
  PROVE  StepInv'
<1>1. /\ CoreInv'
      /\ \A d \in Dep : depStatus'[d] # "none" <=> depStatus[d] # "none"
  BY CoreRequeue DEF StepInv
<1>2. BatcherInv'
  BY DEF BatcherInv, EngineIdle, engineVars
<1>3. bpc' \notin {"building", "confirming"}
  OBVIOUS
<1> QED BY <1>1, <1>2, <1>3, BatcherFrame

(* The batch in flight is given a later status, or the one it has.         *)
LEMMA AdvanceStep ==
  ASSUME TypeOK, StepInv, TypeOK', EngineIdle, NEW n \in NonTerminal,
         NEW s \in {"proved", "submitting", "submitted"},
         batches[n].status \in {"submitting", "submitted"} => s \in {"submitting", "submitted"},
         batches' = [batches EXCEPT ![n].proof = TRUE, ![n].status = s],
         \A d \in batches[n].deps : depStatus[d] = "batching",
         \A t \in batches[n].txs : txStatus[t] = "batching",
         bnum' = n,
         \/ bpc' = "mark"
         \/ bpc' \in {"send", "confirm"} /\ s # "proved",
         UNCHANGED <<chainVars, depVars, txVars, depCursor, confirmed, leaves,
                     procVars, engineVars, watcherVars>>
  PROVE  StepInv'
<1> DEFINE new == [batches[n] EXCEPT !.proof = TRUE, !.status = s]
<1>1. n \in BatchNo /\ batches[n] \in Row
  BY DEF NonTerminal, TypeOK
<1>2. batches'[n] = new /\ \A m \in BatchNo \ {n} : batches'[m] = batches[m]
  BY <1>1 DEF TypeOK, Row
<1>3. /\ new.proof /\ new.status = s /\ EnvelopeOf(new) = EnvelopeOf(batches[n])
  BY <1>1 DEF Row, EnvelopeOf
<1> HIDE DEF new
<1>4. CoreInv' /\ NonTerminal' = NonTerminal
  BY <1>2, <1>3, CoreAdvance DEF StepInv
<1>5. BatcherInv'
  BY <1>2, <1>3, <1>4 DEF BatcherInv, EngineIdle, engineVars
<1>6. \A d \in Dep : depStatus'[d] # "none" <=> depStatus[d] # "none"
  BY DEF depVars
<1>7. bpc' \notin {"building", "confirming"}
  OBVIOUS
<1> QED BY <1>4, <1>5, <1>6, <1>7, BatcherFrame

(* A step that changes only where the batcher is.                          *)
LEMMA BatcherMoves ==
  ASSUME TypeOK, StepInv, TypeOK', proc = "up",
         bpc' \in {"tick", "confirm"},
         bpc' = "confirm" => bpc = "sending",
         bpc \notin {"building", "confirming"},
         UNCHANGED <<chainVars, dbVars, procVars, engineVars, bnum, watcherVars>>
  PROVE  StepInv'
<1> USE DEF chainVars, dbVars, depVars, txVars, procVars, engineVars, watcherVars, StepInv
<1>1. depTail' \in Nat /\ depTail <= depTail'
  BY DEF TypeOK
<1>2. CoreInv'
  BY <1>1, CoreStable
<1>3. KnownInv'
  BY <1>1, KnownStable
<1>4. WatcherInv'
  BY <1>1, WatcherStable
<1>5. epc \notin {"select", "markDeps", "markTxs", "commit"} /\ NonTerminal' = NonTerminal
  BY DEF ControlInv, NonTerminal
<1>6. BuildInv' /\ BatcherInv'
  BY <1>5 DEF BuildInv, BatcherInv
<1>7. ControlInv' /\ TreeIsConfirmedOrLanded'
  BY <1>5 DEF ControlInv, TreeIsConfirmedOrLanded
<1> QED BY <1>2, <1>3, <1>4, <1>6, <1>7

(* The batcher takes up what the boot found in flight.                     *)
LEMMA ResumeStep ==
  ASSUME TypeOK, StepInv, TypeOK', Resume
  PROVE  StepInv'
<1>1. /\ EngineIdle /\ bpc = "boot" /\ proc = "up"
      /\ UNCHANGED <<chainVars, depCursor, confirmed, leaves, procVars, engineVars,
                     watcherVars, boundVars>>
  BY DEF Resume, EngineIdle
<1>2. CASE Inflight = {}
  <2>1. bpc' = "tick" /\ UNCHANGED <<batches, depVars, txVars, bnum>>
    BY <1>2 DEF Resume
  <2>2. UNCHANGED <<chainVars, dbVars, procVars, engineVars, bnum, watcherVars>>
    BY <1>1, <2>1 DEF dbVars
  <2> QED BY <1>1, <2>1, <2>2, BatcherMoves
<1>3. CASE Inflight # {}
  <2>1. PICK n \in Inflight :
          /\ bnum' = n
          /\ IF batches[n].status = "proving"
             THEN Requeue(n) /\ bpc' = "tick"
             ELSE /\ batches[n].proof
                  /\ batches' = [batches EXCEPT ![n].status = "submitting"]
                  /\ bpc' = "mark"
                  /\ UNCHANGED <<depVars, txVars>>
    BY <1>3 DEF Resume
  <2>2. n \in NonTerminal /\ n \in BatchNo /\ batches[n] \in Row
    BY DEF Inflight, NonTerminal, TypeOK
  <2>3. CASE batches[n].status = "proving"
    BY <1>1, <2>1, <2>2, <2>3, RequeueStep
  <2>4. CASE batches[n].status # "proving"
    <3>1. batches' = [batches EXCEPT ![n].proof = TRUE, ![n].status = "submitting"]
      <4>1. batches[n].proof = TRUE
        BY <2>1, <2>2, <2>4 DEF Row
      <4>2. [batches[n] EXCEPT !.status = "submitting"]
              = [batches[n] EXCEPT !.proof = TRUE, !.status = "submitting"]
        BY <2>2, <4>1 DEF Row
      <4>3. batches' = [batches EXCEPT ![n] = [batches[n] EXCEPT !.status = "submitting"]]
        BY <2>1, <2>2, <2>4 DEF TypeOK
      <4> QED BY <2>2, <4>2, <4>3 DEF TypeOK, Row
    <3>2. /\ \A d \in batches[n].deps : depStatus[d] = "batching"
          /\ \A t \in batches[n].txs : txStatus[t] = "batching"
      BY <2>2, <2>4 DEF StepInv, CoreInv, InflightInv
    <3>3. bnum' = n /\ bpc' = "mark" /\ UNCHANGED <<depVars, txVars>>
      BY <2>1, <2>4
    <3> QED BY <1>1, <2>2, <3>1, <3>2, <3>3, AdvanceStep
  <2> QED BY <2>3, <2>4
<1> QED BY <1>2, <1>3

(* The branches of the confirmation.                                       *)
LEMMA PollConfirmStep ==
  ASSUME TypeOK, StepInv, TypeOK', PollConfirm
  PROVE  StepInv'
<1> USE DEF chainVars, dbVars, depVars, txVars, procVars, engineVars, batcherVars,
            watcherVars, boundVars, StepInv
<1>1. /\ EngineIdle /\ bpc = "confirm" /\ ReachedOnChain
      /\ proc = "up" /\ epc = "idle"
      /\ UNCHANGED <<chainVars, dbVars, procVars, todo, bdeps, btxs, bnum, watcherVars>>
  BY DEF PollConfirm, EngineIdle
<1>2. CASE tree' = batches[bnum].new /\ epc' = "commit" /\ bpc' = "confirming"
  <2>1. /\ bnum \in NonTerminal
        /\ batches[bnum].status \in {"submitting", "submitted"}
    BY <1>1 DEF BatcherInv
  <2>2. bnum = confirmed + 1
    BY <2>1, InflightIsNext
  <2>3. batchNum = confirmed + 1 /\ batches[batchNum].new = root
    BY <1>1, <2>2 DEF ReachedOnChain, CoreInv, AgreementInv, TypeOK
  <2>4. tree' = root
    BY <1>2, <2>2, <2>3
  <2>5. depTail' \in Nat /\ depTail <= depTail'
    BY <1>1 DEF TypeOK
  <2>6. CoreInv'
    BY <1>1, <2>5, CoreStable
  <2>7. KnownInv'
    BY <1>1, <1>2, <2>5, KnownStable
  <2>8. WatcherInv'
    BY <1>1, <1>2, <2>5, WatcherStable
  <2>9. NonTerminal' = NonTerminal
    BY <1>1 DEF NonTerminal
  <2>10. BuildInv' /\ BatcherInv'
    BY <1>1, <1>2, <2>1, <2>3, <2>4, <2>9 DEF BuildInv, BatcherInv
  <2>11. ControlInv' /\ TreeIsConfirmedOrLanded'
    BY <1>1, <1>2, <2>3, <2>4 DEF ControlInv, TreeIsConfirmedOrLanded
  <2> QED BY <2>6, <2>7, <2>8, <2>10, <2>11
<1>3. CASE bpc' = "tick" /\ UNCHANGED <<tree, epc>>
  <2>1. UNCHANGED <<chainVars, dbVars, procVars, engineVars, bnum, watcherVars>>
    BY <1>1, <1>3
  <2>2. bpc' \in {"tick", "confirm"} /\ bpc' # "confirm" /\ bpc \notin {"building", "confirming"}
    BY <1>1, <1>3
  <2> HIDE DEF StepInv, chainVars, dbVars, depVars, txVars, procVars, engineVars, watcherVars
  <2> QED BY <1>1, <2>1, <2>2, BatcherMoves
<1> QED BY <1>2, <1>3 DEF PollConfirm

(* The commit ends the batch in flight.                                    *)
LEMMA ConfirmCommitStep ==
  ASSUME TypeOK, StepInv, TypeOK', ConfirmCommit
  PROVE  StepInv'
<1> USE DEF chainVars, procVars, watcherVars, StepInv
<1>1. /\ CoreInv' /\ NonTerminal' = {}
      /\ leaves' = root /\ leaves' = tree
      /\ \A d \in Dep : depStatus'[d] # "none" <=> depStatus[d] # "none"
  BY CoreConfirm
<1>2. /\ epc' = "idle" /\ bpc' = "tick" /\ epc = "commit"
      /\ UNCHANGED <<chainVars, depCursor, procVars, tree, watcherVars>>
  BY DEF ConfirmCommit
<1>3. depTail' \in Nat /\ depTail <= depTail'
  BY <1>2 DEF TypeOK
<1>4. KnownInv'
  BY <1>1, <1>2, <1>3, KnownStable
<1>5. WatcherInv'
  BY <1>2, <1>3, WatcherStable
<1>6. proc = "up"
  BY <1>2 DEF ControlInv
<1>7. BuildInv' /\ BatcherInv' /\ ControlInv' /\ TreeIsConfirmedOrLanded'
  BY <1>1, <1>2, <1>6 DEF BuildInv, BatcherInv, ControlInv, TreeIsConfirmedOrLanded
<1> QED BY <1>1, <1>4, <1>5, <1>7

(* The envelope of the batch in flight goes out.                           *)
LEMMA SubmitStep ==
  ASSUME TypeOK, StepInv, TypeOK', Submit
  PROVE  StepInv'
<1> USE DEF chainVars, dbVars, depVars, txVars, procVars, engineVars, watcherVars,
            boundVars, StepInv
<1>1. bnum \in NonTerminal /\ batches[bnum].status \in {"submitting", "submitted"}
  BY DEF Submit, BatcherInv
<1>2. CoreInv'
  BY <1>1, CoreSubmit DEF Submit
<1>3. depTail' \in Nat /\ depTail <= depTail'
  BY DEF TypeOK, Submit
<1>4. KnownInv'
  BY <1>3, KnownStable DEF Submit
<1>5. WatcherInv'
  BY <1>3, WatcherStable DEF Submit
<1>6. epc \notin {"select", "markDeps", "markTxs", "commit"} /\ NonTerminal' = NonTerminal
  BY DEF ControlInv, NonTerminal, Submit
<1>7. BuildInv' /\ BatcherInv' /\ ControlInv' /\ TreeIsConfirmedOrLanded'
  BY <1>1, <1>6 DEF BuildInv, BatcherInv, ControlInv, TreeIsConfirmedOrLanded, Submit
<1> QED BY <1>2, <1>4, <1>5, <1>7

(* Every step of the batcher.                                              *)
LEMMA BatcherStep ==
  ASSUME TypeOK, StepInv, TypeOK', Batcher
  PROVE  StepInv'
<1>1. ASSUME RecordProof PROVE StepInv'
  <2>1. /\ bnum \in NonTerminal /\ batches[bnum].status = "proving"
        /\ \A d \in batches[bnum].deps : depStatus[d] = "batching"
        /\ \A t \in batches[bnum].txs : txStatus[t] = "batching"
    BY <1>1 DEF RecordProof, StepInv, BatcherInv
  <2>2. /\ EngineIdle /\ bpc' = "mark" /\ bnum' = bnum
        /\ batches' = [batches EXCEPT ![bnum].proof = TRUE, ![bnum].status = "proved"]
        /\ UNCHANGED <<chainVars, depVars, txVars, depCursor, confirmed, leaves,
                       procVars, engineVars, watcherVars>>
    BY <1>1 DEF RecordProof
  <2> QED BY <2>1, <2>2, AdvanceStep
<1>2. ASSUME ProveFails PROVE StepInv'
  <2>1. bnum \in NonTerminal /\ batches[bnum].status = "proving"
    BY <1>2 DEF ProveFails, StepInv, BatcherInv
  <2> QED BY <1>2, <2>1, RequeueStep DEF ProveFails
<1>3. ASSUME NEW s \in {"submitting", "submitted"}, EngineIdle, bpc \in {"mark", "sending"},
             batches' = [batches EXCEPT ![bnum].status = s], bpc' \in {"send", "confirm"},
             UNCHANGED <<chainVars, depVars, txVars, depCursor, confirmed, leaves,
                         procVars, engineVars, bnum, watcherVars>>
      PROVE  StepInv'
  <2>1. /\ bnum \in NonTerminal /\ bnum \in BatchNo /\ batches[bnum] \in Row
        /\ batches[bnum].status \in {"proved", "submitting", "submitted"}
    BY <1>3 DEF StepInv, BatcherInv, NonTerminal, TypeOK
  <2>2. /\ \A d \in batches[bnum].deps : depStatus[d] = "batching"
        /\ \A t \in batches[bnum].txs : txStatus[t] = "batching"
    BY <2>1 DEF StepInv, CoreInv, InflightInv
  <2>3. batches[bnum].proof = TRUE
    BY <2>1 DEF StepInv, CoreInv, RowsInv, Row
  <2>4. batches' = [batches EXCEPT ![bnum].proof = TRUE, ![bnum].status = s]
    <3>1. [batches[bnum] EXCEPT !.status = s]
            = [batches[bnum] EXCEPT !.proof = TRUE, !.status = s]
      BY <2>1, <2>3 DEF Row
    <3>2. batches' = [batches EXCEPT ![bnum] = [batches[bnum] EXCEPT !.status = s]]
      BY <1>3, <2>1 DEF TypeOK
    <3> QED BY <2>1, <3>1, <3>2 DEF TypeOK, Row
  <2> QED BY <1>3, <2>1, <2>2, <2>4, AdvanceStep
<1>4. ASSUME MarkSubmitting PROVE StepInv'
  BY <1>3, <1>4 DEF MarkSubmitting
<1>5. ASSUME SubmitOk PROVE StepInv'
  BY <1>3, <1>5 DEF SubmitOk
<1>6. ASSUME SubmitErr PROVE StepInv'
  BY <1>6, BatcherMoves DEF SubmitErr
<1>7. ASSUME PollTimeout PROVE StepInv'
  BY <1>7, BatcherMoves DEF PollTimeout
<1> QED BY <1>1, <1>2, <1>4, <1>5, <1>6, <1>7, ResumeStep, SubmitStep, PollConfirmStep,
           ConfirmCommitStep DEF Batcher

-----------------------------------------------------------------------------
(* The watcher and the engine's record of deposits.                        *)

(* A step of the watcher's own, between the engine's.                      *)
LEMMA WatcherMoves ==
  ASSUME TypeOK, StepInv, TypeOK', epc' # "insertDeps", proc = "up",
         \/ epc' = epc /\ UNCHANGED todo
         \/ epc = "insertDeps" /\ epc' = "idle",
         WatcherInv',
         UNCHANGED <<chainVars, dbVars, procVars, tree, bdeps, btxs, batcherVars, wcursor>>
  PROVE  StepInv'
<1> USE DEF chainVars, dbVars, depVars, txVars, procVars, batcherVars, StepInv
<1>1. depTail' \in Nat /\ depTail <= depTail'
  BY DEF TypeOK
<1>2. CoreInv'
  BY <1>1, CoreStable
<1>3. KnownInv'
  BY <1>1, KnownStable
<1>4. NonTerminal' = NonTerminal
  BY DEF NonTerminal
<1>5. BuildInv' /\ BatcherInv'
  BY <1>4 DEF BuildInv, BatcherInv, Segment
<1>6. ControlInv' /\ TreeIsConfirmedOrLanded'
  BY DEF ControlInv, TreeIsConfirmedOrLanded
<1> QED BY <1>2, <1>3, <1>5, <1>6

(* The engine takes a report up.                                           *)
LEMMA ObserveDepositsStep ==
  ASSUME TypeOK, StepInv, TypeOK', ObserveDeposits
  PROVE  StepInv'
<1> USE DEF chainVars, dbVars, depVars, txVars, procVars, batcherVars, boundVars, StepInv
<1>1. /\ proc = "up" /\ epc = "idle" /\ wpc = "report"
      /\ wpc' = "await" /\ epc' = "insertDeps" /\ todo' = Segment(wcursor, wobs)
      /\ UNCHANGED <<chainVars, dbVars, procVars, tree, bdeps, btxs, batcherVars,
                     wcursor, wtail, wobs>>
  BY DEF ObserveDeposits, EngineIdle
<1>2. depTail' \in Nat /\ depTail <= depTail'
  BY <1>1 DEF TypeOK
<1>3. CoreInv'
  BY <1>1, <1>2, CoreStable
<1>4. KnownInv'
  BY <1>1 DEF KnownInv, Segment
<1>5. WatcherInv'
  BY <1>1 DEF WatcherInv, Segment
<1>6. bpc \notin {"building", "confirming"} /\ NonTerminal' = NonTerminal
  BY <1>1 DEF ControlInv, NonTerminal
<1>7. BuildInv' /\ BatcherInv' /\ ControlInv' /\ TreeIsConfirmedOrLanded'
  BY <1>1, <1>6 DEF BuildInv, BatcherInv, ControlInv, TreeIsConfirmedOrLanded
<1> QED BY <1>3, <1>4, <1>5, <1>7

(* The known deposits stay a prefix of the queue, because the rows go in   *)
(* from the lowest on and the cursor starts inside the prefix.             *)
LEMMA InsertDepositStep ==
  ASSUME TypeOK, StepInv, TypeOK', InsertDeposit
  PROVE  StepInv'
<1> USE DEF chainVars, dbVars, txVars, procVars, batcherVars, watcherVars, boundVars, StepInv
<1>1. PICK d \in LowestOf(todo) : /\ depStatus' = [depStatus EXCEPT ![d] = OrIgnore(@)]
                                  /\ todo' = todo \ {d}
  BY DEF InsertDeposit
<1>2. /\ epc = "insertDeps" /\ epc' = "insertDeps"
      /\ UNCHANGED <<chainVars, batches, depBatch, txVars, depCursor, confirmed,
                     leaves, procVars, tree, bdeps, btxs, batcherVars, watcherVars>>
  BY DEF InsertDeposit
<1>3. wpc = "await" /\ todo \subseteq Segment(wcursor, wobs) /\ proc = "up"
  BY <1>2 DEF WatcherInv, ControlInv
<1>4. d \in todo /\ d \in Segment(wcursor, wobs) /\ d \in Dep /\ \A c \in todo : d <= c
  BY <1>3 DEF LowestOf, Segment
<1>5. /\ depStatus[d] # "none" => depStatus'[d] = depStatus[d]
      /\ depStatus[d] = "none" => depStatus'[d] = "pending"
      /\ \A c \in Dep \ {d} : depStatus'[c] = depStatus[c]
  BY <1>1, <1>4 DEF OrIgnore, TypeOK
<1>6. CoreInv'
  BY <1>2, <1>4, <1>5, CoreDepositRow
<1>7. KnownInv'
  <2>1. PICK k \in 0 .. depTail :
          /\ \A c \in Dep : depStatus[c] # "none" <=> c < k
          /\ depHead <= k /\ depCursor <= k /\ wcursor <= k
          /\ \A c \in Segment(wcursor, wobs) : c \in todo \/ c < k
    BY <1>2, <1>3 DEF KnownInv
  <2>2. depStatus'[d] # "none"
    BY <1>5
  <2>3. CASE d < k
    <3>1. \A c \in Dep : depStatus'[c] # "none" <=> c < k
      BY <1>5, <2>1, <2>2, <2>3
    <3>2. \A c \in Segment(wcursor, wobs) : c \in todo' \/ c < k
      BY <1>1, <2>1, <2>3
    <3> QED BY <1>2, <2>1, <3>1, <3>2 DEF KnownInv, Segment
  <2>4. CASE ~ (d < k)
    <3> USE BoundsAssumption
    <3>1. k \in Nat /\ d \in Nat /\ wcursor \in Nat /\ wobs \in Nat
      BY <1>4, <2>1 DEF TypeOK, Dep
    <3>2. d = k
      <4>1. ASSUME k < d PROVE FALSE
        <5>1. k \in Segment(wcursor, wobs)
          BY <1>4, <2>1, <3>1, <4>1 DEF Segment, Dep
        <5>2. k \in todo
          BY <2>1, <3>1, <5>1
        <5> QED BY <1>4, <3>1, <4>1, <5>2
      <4> QED BY <2>4, <3>1, <4>1
    <3>3. k + 1 \in 0 .. depTail
      <4>1. d < wcursor + wobs /\ wcursor + wobs <= wtail /\ wtail <= depTail
        BY <1>3, <1>4 DEF Segment, WatcherInv
      <4>2. wtail \in Nat /\ depTail \in Nat
        BY DEF TypeOK
      <4> QED BY <3>1, <3>2, <4>1, <4>2
    <3>4. \A c \in Dep : depStatus'[c] # "none" <=> c < k + 1
      <4>1. ASSUME NEW c \in Dep PROVE depStatus'[c] # "none" <=> c < k + 1
        <5>1. CASE c = d
          BY <2>2, <3>1, <3>2, <5>1
        <5>2. CASE c # d
          <6>1. c < k <=> c < k + 1
            BY <3>1, <3>2, <5>2 DEF Dep
          <6> QED BY <1>5, <2>1, <5>2, <6>1
        <5> QED BY <5>1, <5>2
      <4> QED BY <4>1
    <3>5. \A c \in Segment(wcursor, wobs) : c \in todo' \/ c < k + 1
      <4>1. ASSUME NEW c \in Segment(wcursor, wobs) PROVE c \in todo' \/ c < k + 1
        <5>1. c \in todo \/ c < k
          BY <2>1
        <5>2. c \in Int
          BY DEF Segment, Dep
        <5> QED BY <1>1, <3>1, <3>2, <5>1, <5>2
      <4> QED BY <4>1
    <3>6. depHead <= k + 1 /\ depCursor <= k + 1 /\ wcursor <= k + 1
      BY <2>1, <3>1 DEF TypeOK
    <3> QED BY <1>2, <3>3, <3>4, <3>5, <3>6 DEF KnownInv, Segment
  <2> QED BY <2>3, <2>4
<1>8. WatcherInv'
  BY <1>1, <1>2 DEF WatcherInv, Segment
<1>9. bpc \notin {"building", "confirming"} /\ NonTerminal' = NonTerminal
  BY <1>2 DEF ControlInv, NonTerminal
<1>10. BatcherInv'
  <2>1. \A n \in NonTerminal : \A c \in batches[n].deps :
          depStatus[c] = "batching" => depStatus'[c] = "batching"
    BY <1>4, <1>5 DEF NonTerminal, TypeOK, Row
  <2> QED BY <1>2, <1>9, <2>1 DEF BatcherInv
<1>11. BuildInv' /\ ControlInv' /\ TreeIsConfirmedOrLanded'
  BY <1>2 DEF BuildInv, ControlInv, TreeIsConfirmedOrLanded
<1> QED BY <1>6, <1>7, <1>8, <1>10, <1>11

(* The cursor moves only over deposits that have a row.                    *)
LEMMA SetCursorStep ==
  ASSUME TypeOK, StepInv, TypeOK', SetCursor
  PROVE  StepInv'
<1> USE DEF chainVars, dbVars, depVars, txVars, procVars, batcherVars, boundVars, StepInv
<1>1. /\ epc = "insertDeps" /\ todo = {} /\ epc' = "idle" /\ wpc' = "idle"
      /\ depCursor' = wcursor + wobs /\ wcursor' = wcursor + wobs
      /\ UNCHANGED <<chainVars, batches, depVars, txVars, confirmed, leaves, procVars,
                     tree, todo, bdeps, btxs, batcherVars, wtail, wobs>>
  BY DEF SetCursor, CursorAfterReport
<1>2. depTail' \in Nat /\ depTail <= depTail'
  BY <1>1 DEF TypeOK
<1>3. CoreInv'
  BY <1>1, <1>2, CoreStable
<1>4. wpc = "await" /\ wcursor + wobs <= wtail /\ wtail <= depTail /\ proc = "up"
  BY <1>1 DEF WatcherInv, ControlInv
<1>5. KnownInv'
  <2> USE BoundsAssumption
  <2>1. PICK k \in 0 .. depTail :
          /\ \A c \in Dep : depStatus[c] # "none" <=> c < k
          /\ depHead <= k /\ depCursor <= k /\ wcursor <= k
          /\ \A c \in Segment(wcursor, wobs) : c \in todo \/ c < k
    BY <1>1, <1>4 DEF KnownInv
  <2>2. /\ k \in Nat /\ wcursor \in Nat /\ wobs \in Nat /\ wtail \in Nat
        /\ depTail \in Nat /\ depTail <= MaxDeposits
    BY <2>1 DEF TypeOK
  <2>3. wcursor + wobs <= k
    <3>1. CASE wobs = 0
      BY <2>1, <2>2, <3>1
    <3>2. CASE wobs # 0
      <4>1. wcursor + wobs - 1 \in Segment(wcursor, wobs)
        BY <1>4, <2>2, <3>2 DEF Segment, Dep
      <4>2. wcursor + wobs - 1 < k
        BY <1>1, <2>1, <4>1
      <4> QED BY <2>2, <4>2
    <3> QED BY <3>1, <3>2
  <2> QED BY <1>1, <2>1, <2>3 DEF KnownInv
<1>6. WatcherInv'
  BY <1>1 DEF WatcherInv
<1>7. bpc \notin {"building", "confirming"} /\ NonTerminal' = NonTerminal
  BY <1>1 DEF ControlInv, NonTerminal
<1>8. BuildInv' /\ BatcherInv' /\ ControlInv' /\ TreeIsConfirmedOrLanded'
  BY <1>1, <1>7 DEF BuildInv, BatcherInv, ControlInv, TreeIsConfirmedOrLanded
<1> QED BY <1>3, <1>5, <1>6, <1>8

(* Every step of the watcher and of the handler that serves it.            *)
LEMMA WatcherStep ==
  ASSUME TypeOK, StepInv, TypeOK', Watcher
  PROVE  StepInv'
<1> USE DEF engineVars, watcherVars
<1>1. ASSUME WatchTail PROVE StepInv'
  <2>1. WatcherInv' /\ epc # "insertDeps"
    BY <1>1 DEF StepInv, WatcherInv, WatchTail, TypeOK, chainVars
  <2> QED BY <1>1, <2>1, WatcherMoves DEF WatchTail
<1>2. ASSUME WatchFetch PROVE StepInv'
  <2>1. WatcherInv' /\ epc # "insertDeps"
    BY <1>2 DEF StepInv, WatcherInv, WatchFetch, MoreToFetch, TypeOK, chainVars
  <2> QED BY <1>2, <2>1, WatcherMoves DEF WatchFetch
<1>3. ASSUME WatchStop PROVE StepInv'
  <2>1. WatcherInv' /\ epc # "insertDeps"
    BY <1>3 DEF StepInv, WatcherInv, WatchStop, TypeOK, chainVars
  <2> QED BY <1>3, <2>1, WatcherMoves DEF WatchStop
<1> QED BY <1>1, <1>2, <1>3, ObserveDepositsStep, InsertDepositStep, SetCursorStep DEF Watcher

(* An SQL error abandons a handler where it stands.                        *)
LEMMA FaultStep ==
  ASSUME TypeOK, StepInv, TypeOK', Fault
  PROVE  StepInv'
<1>1. ASSUME ObserveFault PROVE StepInv'
  <2>1. WatcherInv' /\ proc = "up"
    BY <1>1 DEF StepInv, WatcherInv, ControlInv, ObserveFault
  <2> QED BY <1>1, <2>1, WatcherMoves DEF ObserveFault
<1>2. ASSUME CommandFault PROVE StepInv'
  BY <1>2, BatcherMoves DEF CommandFault, EngineIdle
<1> QED BY <1>1, <1>2, AbandonStep DEF Fault
=============================================================================

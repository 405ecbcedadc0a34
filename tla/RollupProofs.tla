----------------------------- MODULE RollupProofs -----------------------------
(***************************************************************************)
(* The contract is solvent, for every value of the constants: whatever the *)
(* circuit lets a prover prove conserves value, and the contract moves its *)
(* queue, its root and its tokens together.                                *)
(***************************************************************************)
EXTENDS Rollup, AccountsProofs, SequenceTheorems

-----------------------------------------------------------------------------
(* Entries of the circuit.                                                 *)

(* A deposit entry adds its amount, and nothing else.                      *)
LEMMA DepositEntry ==
  ASSUME NEW tree \in Tree, NEW d \in QueueEntry, NEW i \in Slot,
         DepositHolds(tree, d, i)
  PROVE  /\ AfterDeposit(tree, d, i) \in Tree
         /\ Total(AfterDeposit(tree, d, i)) = Total(tree) + d.amount
<1> DEFINE a == [pk |-> d.to, balance |-> tree[i].balance + d.amount, nonce |-> tree[i].nonce]
<1>1. a \in Account /\ tree[i] \in Account
  BY AccountsAssumption DEF DepositHolds, QueueEntry, Account, Tree
<1>2. AfterDeposit(tree, d, i) = [tree EXCEPT ![i] = a]
  BY DEF AfterDeposit, Tree
<1>3. a.balance = tree[i].balance + d.amount /\ d.amount \in Nat /\ tree[i].balance \in Nat
  BY <1>1, AccountsAssumption DEF QueueEntry, Account
<1>4. Total(tree) \in Nat
  BY TotalType
<1> HIDE DEF a
<1>5. /\ [tree EXCEPT ![i] = a] \in Tree
      /\ Total([tree EXCEPT ![i] = a]) = Total(tree) - tree[i].balance + a.balance
  BY <1>1, TotalSet
<1> QED
  BY <1>2, <1>3, <1>4, <1>5

(* The two sides of a transaction entry are build_batch's updates.         *)
LEMMA EntriesAreUpdates ==
  ASSUME NEW tree \in Tree, NEW t, NEW i \in Slot
  PROVE  /\ AfterDebit(tree, t, i) = Charged(tree, i, t.amount)
         /\ AfterCredit(tree, t, i) = Raised(tree, i, t.amount)
<1> DEFINE a == tree[i]
           charged == [pk |-> a.pk, balance |-> a.balance - t.amount, nonce |-> a.nonce + 1]
           raised == [pk |-> a.pk, balance |-> a.balance + t.amount, nonce |-> a.nonce]
           less == [pk |-> a.pk, balance |-> a.balance - t.amount, nonce |-> a.nonce]
<1>1. a = [pk |-> a.pk, balance |-> a.balance, nonce |-> a.nonce]
  BY DEF Tree, Account
<1>2. [a EXCEPT !.balance = @ - t.amount] = less /\ [a EXCEPT !.balance = @ + t.amount] = raised
  BY <1>1
<1>3. [less EXCEPT !.nonce = @ + 1] = charged
  OBVIOUS
<1>4. AfterDebit(tree, t, i)
        = [tree EXCEPT ![i] = [[a EXCEPT !.balance = @ - t.amount] EXCEPT !.nonce = @ + 1]]
  BY DEF AfterDebit, Tree
<1>5. AfterCredit(tree, t, i) = [tree EXCEPT ![i] = [a EXCEPT !.balance = @ + t.amount]]
  BY DEF AfterCredit, Tree
<1> QED
  BY <1>2, <1>3, <1>4, <1>5 DEF Charged, Raised

(* The debit of a transaction entry takes its amount from the sender.      *)
LEMMA DebitEntry ==
  ASSUME NEW tree \in Tree, NEW t \in Tx, NEW i \in Slot, DebitHolds(tree, t, i)
  PROVE  /\ AfterDebit(tree, t, i) \in Tree
         /\ Total(AfterDebit(tree, t, i)) = Total(tree) - t.amount
<1> DEFINE a == [pk |-> tree[i].pk, balance |-> tree[i].balance - t.amount,
                 nonce |-> tree[i].nonce + 1]
<1>1. a \in Account /\ tree[i] \in Account
  BY AccountsAssumption DEF DebitHolds, Tx, Account, Tree
<1>2. AfterDebit(tree, t, i) = [tree EXCEPT ![i] = a]
  BY EntriesAreUpdates DEF Charged
<1>3. a.balance = tree[i].balance - t.amount /\ t.amount \in Nat /\ tree[i].balance \in Nat
  BY <1>1, AccountsAssumption DEF Tx, Account
<1>4. Total(tree) \in Nat
  BY TotalType
<1> HIDE DEF a
<1>5. /\ [tree EXCEPT ![i] = a] \in Tree
      /\ Total([tree EXCEPT ![i] = a]) = Total(tree) - tree[i].balance + a.balance
  BY <1>1, TotalSet
<1> QED
  BY <1>2, <1>3, <1>4, <1>5

(* The credit adds it to the recipient.                                    *)
LEMMA CreditEntry ==
  ASSUME NEW tree \in Tree, NEW t \in Tx, NEW j \in Slot, CreditHolds(tree, t, j)
  PROVE  /\ AfterCredit(tree, t, j) \in Tree
         /\ Total(AfterCredit(tree, t, j)) = Total(tree) + t.amount
<1> DEFINE a == [pk |-> tree[j].pk, balance |-> tree[j].balance + t.amount,
                 nonce |-> tree[j].nonce]
<1>1. a \in Account /\ tree[j] \in Account
  BY AccountsAssumption DEF CreditHolds, Tx, Account, Tree
<1>2. AfterCredit(tree, t, j) = [tree EXCEPT ![j] = a]
  BY EntriesAreUpdates DEF Raised
<1>3. a.balance = tree[j].balance + t.amount /\ t.amount \in Nat /\ tree[j].balance \in Nat
  BY <1>1, AccountsAssumption DEF Tx, Account
<1>4. Total(tree) \in Nat
  BY TotalType
<1> HIDE DEF a
<1>5. /\ [tree EXCEPT ![j] = a] \in Tree
      /\ Total([tree EXCEPT ![j] = a]) = Total(tree) - tree[j].balance + a.balance
  BY <1>1, TotalSet
<1> QED
  BY <1>2, <1>3, <1>4, <1>5

Leaves(t) == IF t.withdraw THEN t.amount ELSE 0

(* A transaction entry moves value inside the tree, or out of it.          *)
LEMMA TxEntry ==
  ASSUME NEW tree \in Tree, NEW t \in Tx, NEW i \in Slot, NEW j \in Slot,
         TxHolds(tree, t, i, j)
  PROVE  /\ AfterTx(tree, t, i, j) \in Tree
         /\ Total(AfterTx(tree, t, i, j)) = Total(tree) - Leaves(t)
<1>1. /\ AfterDebit(tree, t, i) \in Tree
      /\ Total(AfterDebit(tree, t, i)) = Total(tree) - t.amount
  BY DebitEntry DEF TxHolds
<1>2. CASE t.withdraw
  BY <1>1, <1>2 DEF AfterTx, Leaves
<1>3. CASE ~ t.withdraw
  <2>1. CreditHolds(AfterDebit(tree, t, i), t, j)
    BY <1>3 DEF TxHolds
  <2>2. /\ AfterCredit(AfterDebit(tree, t, i), t, j) \in Tree
        /\ Total(AfterCredit(AfterDebit(tree, t, i), t, j))
             = Total(AfterDebit(tree, t, i)) + t.amount
    BY <1>1, <2>1, CreditEntry
  <2>3. Total(tree) \in Nat /\ t.amount \in Nat
    BY TotalType DEF Tx
  <2> QED
    BY <1>1, <1>3, <2>2, <2>3 DEF AfterTx, Leaves
<1> QED
  BY <1>2, <1>3

-----------------------------------------------------------------------------
(* Lists of amounts, and the queue.                                        *)

(* What a list is worth, and with one more entry.                          *)
LEMMA WorthAppend ==
  ASSUME NEW E, \A e \in E : e.amount \in Nat, NEW s \in Seq(E)
  PROVE  /\ Worth(s) \in Nat
         /\ \A e \in E : Worth(Append(s, e)) = Worth(s) + e.amount
<1> DEFINE n == Len(s)
           f == [i \in 1 .. n |-> s[i].amount]
<1>1. n \in Nat /\ DOMAIN s = 1 .. n /\ f \in [1 .. n -> Nat] /\ IsFiniteSet(1 .. n)
  BY FS_Interval
<1>2. Worth(s) = SumOf(f) /\ SumOf(f) \in Nat
  <2>1. SumOf(f) \in Nat
    <3> HIDE DEF f, n
    <3> QED
      BY <1>1, SumType
  <2> QED
    BY <2>1, <1>1 DEF Worth, Value
<1>3. ASSUME NEW e \in E PROVE Worth(Append(s, e)) = Worth(s) + e.amount
  <2> DEFINE g == [i \in (1 .. n) \cup {n + 1} |-> Append(s, e)[i].amount]
  <2>1. DOMAIN Append(s, e) = (1 .. n) \cup {n + 1}
    BY <1>1
  <2>2. Worth(Append(s, e)) = SumOf(g)
    BY <2>1 DEF Worth, Value
  <2> DEFINE last == [i \in {n + 1} |-> e.amount]
  <2>3. last \in [{n + 1} -> Nat]
    OBVIOUS
  <2>4. Units(g) = Units(f) \cup Units(last) /\ Units(f) \cap Units(last) = {}
    <3>1. \A i \in 1 .. n : g[i] = f[i]
      BY <1>1
    <3>2. g[n + 1] = last[n + 1]
      BY <1>1
    <3>3. n + 1 \notin 1 .. n
      BY <1>1
    <3>4. DOMAIN g = (1 .. n) \cup {n + 1} /\ DOMAIN f = 1 .. n /\ DOMAIN last = {n + 1}
      OBVIOUS
    <3> HIDE DEF f, g, last
    <3>5. ASSUME NEW u PROVE u \in Units(g) <=> u \in Units(f) \/ u \in Units(last)
      BY <3>1, <3>2, <3>4 DEF Units
    <3>6. Units(f) \cap Units(last) = {}
      BY <3>3, <3>4 DEF Units
    <3> QED
      BY <3>5, <3>6
  <2>5. e.amount \in Nat
    OBVIOUS
  <2>7. SumOf(last) = e.amount
    BY <2>5, SumOfOne
  <2> HIDE DEF f, g, n, last
  <2>6. SumOf(g) = SumOf(f) + SumOf(last)
    <3>1. IsFiniteSet({n + 1})
      BY FS_Singleton
    <3>2. IsFiniteSet(Units(f)) /\ IsFiniteSet(Units(last))
      BY <1>1, <2>3, <3>1, UnitsFinite
    <3> QED
      BY <2>4, <3>2, SumOfUnits
  <2> QED
    BY <1>2, <2>2, <2>6, <2>7
<1> QED
  BY <1>2, <1>3

LEMMA WorthEmpty == Worth(<<>>) = 0
<1>1. [i \in DOMAIN <<>> |-> <<>>[i].amount] \in [{} -> Nat]
  OBVIOUS
<1> QED
  BY <1>1, SumOfZeros DEF Worth, Value

(* The amounts of the lists of a batch are numbers.                        *)
LEMMA AmountsAreNumbers ==
  (\A e \in QueueEntry : e.amount \in Nat) /\ (\A e \in Payout : e.amount \in Nat)
BY DEF QueueEntry, Payout

(* The payouts of a transaction.                                           *)
LEMMA WorthWithdrawals ==
  ASSUME NEW s \in Seq(Payout), NEW t \in Tx, t.withdraw => t.to \in Dest
  PROVE  /\ s \o Withdrawals(t) \in Seq(Payout)
         /\ Worth(s \o Withdrawals(t)) = Worth(s) + Leaves(t)
<1>1. CASE t.withdraw
  <2> DEFINE w == [dest |-> t.to, amount |-> t.amount]
  <2>1. w \in Payout /\ w.amount = t.amount
    BY <1>1 DEF Payout, Tx
  <2>2. s \o Withdrawals(t) = Append(s, w)
    BY <1>1, <2>1 DEF Withdrawals
  <2>3. Append(s, w) \in Seq(Payout)
    BY <2>1
  <2> HIDE DEF w
  <2>4. Worth(Append(s, w)) = Worth(s) + w.amount
    BY <2>1, WorthAppend, AmountsAreNumbers
  <2> QED
    BY <1>1, <2>1, <2>2, <2>3, <2>4 DEF Leaves
<1>2. CASE ~ t.withdraw
  <2>1. s \o Withdrawals(t) = s
    BY <1>2 DEF Withdrawals
  <2>2. Worth(s) \in Nat
    BY WorthAppend, AmountsAreNumbers
  <2> QED
    BY <1>2, <2>1, <2>2 DEF Leaves
<1> QED
  BY <1>1, <1>2

(* What the deposits of a stretch of the queue are worth.                  *)
Between(log, a, b) == SumOf([i \in a + 1 .. b |-> log[i].amount])

(* A stretch splits anywhere.                                              *)
LEMMA StretchSplits ==
  ASSUME NEW log \in Seq(QueueEntry), NEW a \in Nat, NEW b \in Nat, NEW c \in Nat,
         a <= b, b <= c, c <= Len(log)
  PROVE  /\ Between(log, a, c) = Between(log, a, b) + Between(log, b, c)
         /\ Between(log, a, b) \in Nat /\ Between(log, b, c) \in Nat
<1> DEFINE f == [i \in a + 1 .. c |-> log[i].amount]
           S == a + 1 .. b
           T == b + 1 .. c
           fs == [i \in S |-> log[i].amount]
           ft == [i \in T |-> log[i].amount]
<1>1. \A i \in 1 .. Len(log) : log[i].amount \in Nat
  BY AmountsAreNumbers
<1>2. a + 1 .. c = S \cup T /\ S \cap T = {}
  OBVIOUS
<1>3. IsFiniteSet(S) /\ IsFiniteSet(T)
  <2>1. a \in Int /\ b \in Int /\ c \in Int /\ a + 1 \in Int /\ b + 1 \in Int
    OBVIOUS
  <2> QED
    BY <2>1, FS_Interval
<1>4. fs \in [S -> Nat] /\ ft \in [T -> Nat]
  BY <1>1
<1>5. Units(f) = Units(fs) \cup Units(ft) /\ Units(fs) \cap Units(ft) = {}
  BY <1>2 DEF Units
<1> HIDE DEF f, S, T, fs, ft
<1>6. IsFiniteSet(Units(fs)) /\ IsFiniteSet(Units(ft))
  BY <1>3, <1>4, UnitsFinite
<1>7. SumOf(f) = SumOf(fs) + SumOf(ft) /\ SumOf(fs) \in Nat /\ SumOf(ft) \in Nat
  BY <1>5, <1>6, SumOfUnits
<1> QED
  BY <1>7 DEF Between, f, S, T, fs, ft

(* A list with the contents of a stretch is worth as much.                 *)
LEMMA StretchIsList ==
  ASSUME NEW log \in Seq(QueueEntry), NEW a \in Nat, NEW s \in Seq(QueueEntry),
         a + Len(s) <= Len(log), \A i \in 1 .. Len(s) : s[i] = log[a + i]
  PROVE  Worth(s) = Between(log, a, a + Len(s))
<1> DEFINE n == Len(s)
           f == [i \in 1 .. n |-> s[i].amount]
           g == [i \in a + 1 .. a + n |-> log[i].amount]
<1>1. n \in Nat /\ DOMAIN s = 1 .. n
  OBVIOUS
<1>2. f \in [1 .. n -> Nat] /\ g \in [a + 1 .. a + n -> Nat]
  <2>1. \A i \in 1 .. n : s[i] \in QueueEntry
    OBVIOUS
  <2>2. \A i \in a + 1 .. a + n : log[i] \in QueueEntry
    OBVIOUS
  <2> HIDE DEF n
  <2> QED
    BY <2>1, <2>2, AmountsAreNumbers
<1>3. \A i \in 1 .. n : g[a + i] = f[i]
  OBVIOUS
<1>4. Worth(s) = SumOf(f) /\ Between(log, a, a + n) = SumOf(g)
  BY <1>1 DEF Worth, Value, Between
<1> HIDE DEF f, g, n
<1>5. SumOf(f) = SumOf(g)
  BY <1>1, <1>2, <1>3, SumShift
<1> QED
  BY <1>4, <1>5 DEF n

-----------------------------------------------------------------------------
(* Types.                                                                  *)

LEMMA FreshBatch ==
  ASSUME NEW tree \in Tree
  PROVE  Batch(tree) \in Batches
BY DEF Batch, Batches

(* What an owner signs, when the circuit accepts it, is a transaction.     *)
LEMMA SignedIsTx ==
  ASSUME NEW tree \in Tree, NEW i \in Slot, NEW j \in Slot, NEW t \in SignedTx(tree, i),
         TxHolds(tree, t, i, j)
  PROVE  t \in Tx /\ (t.withdraw <=> t.to \in Dest)
<1>1. t \in [from : {tree[i].pk}, to : AnyKey \cup Dest, amount : Amounts,
            nonce : {tree[i].nonce}, withdraw : BOOLEAN]
      /\ (t.withdraw <=> t.to \in Dest)
  BY DEF SignedTx
<1>2. tree[i].pk \in Key \cup {NoKey} /\ tree[i].nonce \in Nat
  BY DEF Tree, Account
<1>3. t.from # NoKey
  BY DEF TxHolds, DebitHolds
<1>4. t.from = tree[i].pk /\ t.nonce = tree[i].nonce /\ t.amount \in Nat \ {0}
  BY <1>1, RollupAssumption
<1>5. t.to \in Key \cup Dest
  BY <1>1 DEF TxHolds, CreditHolds, AnyKey
<1> QED
  BY <1>1, <1>2, <1>3, <1>4, <1>5 DEF Tx

(* What the contract lets into its queue is a deposit to somebody's key.   *)
LEMMA MadeIsEntry ==
  ASSUME NEW k \in AnyKey, NEW a \in Amounts, Deposit(k, a)
  PROVE  [to |-> k, amount |-> a] \in QueueEntry /\ a \in Nat
BY RollupAssumption DEF Deposit, AnyKey, QueueEntry

(* And so is every claim that satisfies the circuit.                       *)
LEMMA ClaimIsEntry ==
  ASSUME TypeOK, NEW d \in DepositClaims, NEW tree, NEW i, DepositHolds(tree, d, i)
  PROVE  d \in QueueEntry
<1>1. d.to \notin {NoKey, PadKey}
  BY DEF DepositHolds
<1>2. PICK s \in Queued : d = deposits[s]
  BY <1>1 DEF DepositClaims
<1> QED
  BY <1>2 DEF Queued, TypeOK

(* An entry keeps the type of the draft.                                   *)
LEMMA DepositDraft ==
  ASSUME NEW b \in Batches, NEW d \in QueueEntry, NEW i \in Slot,
         DepositHolds(b.new, d, i)
  PROVE  LET after == [b EXCEPT !.new = AfterDeposit(@, d, i), !.deps = Append(@, d)] IN
         /\ after \in Batches
         /\ after.old = b.old /\ after.new = AfterDeposit(b.new, d, i)
         /\ after.deps = Append(b.deps, d) /\ after.wds = b.wds /\ after.txs = b.txs
<1>1. b.new \in Tree /\ b.deps \in Seq(QueueEntry)
  BY DEF Batches
<1>2. AfterDeposit(b.new, d, i) \in Tree
  BY <1>1, DepositEntry
<1>3. Append(b.deps, d) \in Seq(QueueEntry)
  BY <1>1
<1> QED
  BY <1>2, <1>3 DEF Batches

LEMMA TxDraft ==
  ASSUME NEW b \in Batches, NEW t \in Tx, t.withdraw => t.to \in Dest,
         NEW i \in Slot, NEW j \in Slot, TxHolds(b.new, t, i, j)
  PROVE  LET after == [b EXCEPT !.new = AfterTx(@, t, i, j), !.txs = Append(@, t),
                                !.wds = @ \o Withdrawals(t)] IN
         /\ after \in Batches
         /\ after.old = b.old /\ after.new = AfterTx(b.new, t, i, j)
         /\ after.deps = b.deps /\ after.wds = b.wds \o Withdrawals(t)
         /\ after.txs = Append(b.txs, t)
<1>1. b.new \in Tree /\ b.txs \in Seq(Tx) /\ b.wds \in Seq(Payout)
  BY DEF Batches
<1>2. AfterTx(b.new, t, i, j) \in Tree
  BY <1>1, TxEntry
<1>3. Append(b.txs, t) \in Seq(Tx) /\ b.wds \o Withdrawals(t) \in Seq(Payout)
  BY <1>1, WorthWithdrawals
<1> QED
  BY <1>2, <1>3 DEF Batches

LEMMA TypeInit == Init => TypeOK
<1> SUFFICES ASSUME Init PROVE TypeOK
  OBVIOUS
<1>1. EmptyTree \in Tree /\ Batch(EmptyTree) \in Batches
  BY EmptyTreeFacts, FreshBatch
<1> QED
  BY <1>1, RollupAssumption, AccountsAssumption DEF Init, TypeOK

LEMMA TypeStep == TypeOK /\ [Next]_vars => TypeOK'
<1> SUFFICES ASSUME TypeOK, [Next]_vars PROVE TypeOK'
  OBVIOUS
<1> USE DEF TypeOK
<1>1. ASSUME NEW k \in AnyKey, NEW a \in Amounts, Deposit(k, a) PROVE TypeOK'
  <2>1. [to |-> k, amount |-> a] \in QueueEntry /\ a \in Nat
    BY <1>1, MadeIsEntry
  <2>2. deposits' \in Seq(QueueEntry) /\ head \in 0 .. Len(deposits')
    BY <1>1, <2>1 DEF Deposit
  <2>3. held' \in 0 .. Supply
    BY <1>1, <2>1, RollupAssumption, AccountsAssumption DEF Deposit
  <2> QED
    BY <1>1, <2>2, <2>3 DEF Deposit
<1>2. CASE BeginBatch
  BY <1>2, FreshBatch DEF BeginBatch
<1>3. ASSUME NEW d \in DepositClaims, NEW i \in Slot, ProveDeposit(d, i) PROVE TypeOK'
  <2>1. d \in QueueEntry
    BY <1>3, ClaimIsEntry DEF ProveDeposit
  <2>2. draft' \in Batches
    BY <1>3, <2>1, DepositDraft DEF ProveDeposit
  <2>3. honest' \in BOOLEAN
    BY <1>3 DEF ProveDeposit
  <2> QED
    BY <1>3, <2>2, <2>3 DEF ProveDeposit
<1>4. ASSUME NEW i \in Slot, NEW j \in Slot, NEW t \in SignedTx(draft.new, i), ProveTx(t, i, j)
      PROVE  TypeOK'
  <2>1. draft.new \in Tree
    BY DEF Batches
  <2>2. t \in Tx /\ (t.withdraw <=> t.to \in Dest)
    BY <1>4, <2>1, SignedIsTx DEF ProveTx
  <2>3. draft' \in Batches
    BY <1>4, <2>2, TxDraft DEF ProveTx
  <2> QED
    BY <1>4, <2>3 DEF ProveTx
<1>5. CASE Prove
  BY <1>5, FreshBatch DEF Prove
<1>6. ASSUME NEW p \in proved, SubmitBatch(p) PROVE TypeOK'
  <2>1. p \in Batches /\ p.new \in Tree /\ p.deps \in Seq(QueueEntry) /\ p.wds \in Seq(Payout)
    BY DEF Batches
  <2>2. Worth(p.wds) \in Nat
    BY <2>1, WorthAppend, AmountsAreNumbers
  <2>3. held' \in 0 .. Supply
    BY <1>6, <2>2, RollupAssumption, AccountsAssumption DEF SubmitBatch
  <2>4. head' \in 0 .. Len(deposits)
    BY <1>6, <2>1 DEF SubmitBatch, Accepts, Dequeued
  <2>5. landed' \in Seq(Batches)
    BY <1>6, <2>1 DEF SubmitBatch
  <2> QED
    BY <1>6, <2>1, <2>3, <2>4, <2>5 DEF SubmitBatch
<1>7. CASE UNCHANGED vars
  BY <1>7 DEF vars
<1> QED
  BY <1>1, <1>2, <1>3, <1>4, <1>5, <1>6, <1>7 DEF Next

(* Every variable keeps its type, for every value of the constants: no     *)
(* balance ever leaves u64, the padding key never has an account.          *)
THEOREM TypeCorrect == Spec => []TypeOK
<1>1. Init => TypeOK
  BY TypeInit
<1>2. TypeOK /\ [Next]_vars => TypeOK'
  BY TypeStep
<1> QED
  BY <1>1, <1>2, PTL DEF Spec

-----------------------------------------------------------------------------
(* Value.                                                                  *)

(* A batch of the circuit conserves value: what it takes in it credits or  *)
(* pays out.                                                               *)
Conserves(b) == Total(b.new) + Worth(b.wds) = Total(b.old) + Worth(b.deps)

(* Solvency is inductive together with the conservation of every batch     *)
(* that is proved or being proved: at submit_batch the old root and the    *)
(* deposits of the batch are the contract's own.                           *)
CustodyInv ==
  /\ TypeOK
  /\ Solvent
  /\ \A b \in proved \cup {draft} : Conserves(b)

LEMMA PendingIsStretch == Pending = Between(deposits, head, Len(deposits))
BY DEF Pending, Value, Queued, Between

LEMMA BatchNumbers ==
  ASSUME NEW b \in Batches
  PROVE  /\ Total(b.old) \in Nat /\ Total(b.new) \in Nat
         /\ Worth(b.deps) \in Nat /\ Worth(b.wds) \in Nat
<1>1. b.old \in Tree /\ b.new \in Tree /\ b.deps \in Seq(QueueEntry) /\ b.wds \in Seq(Payout)
  BY DEF Batches
<1>2. Worth(b.deps) \in Nat /\ Worth(b.wds) \in Nat
  BY <1>1, WorthAppend, AmountsAreNumbers
<1>3. Total(b.old) \in Nat /\ Total(b.new) \in Nat
  BY <1>1, TotalType
<1> QED
  BY <1>2, <1>3

LEMMA FreshConserves ==
  ASSUME NEW tree \in Tree
  PROVE  Conserves(Batch(tree))
<1>1. Total(tree) \in Nat
  BY TotalType
<1> QED
  BY <1>1, WorthEmpty DEF Conserves, Batch

(* Deposits make the stretch of the queue longer.                          *)
LEMMA DepositQueued ==
  ASSUME NEW log \in Seq(QueueEntry), NEW h \in 0 .. Len(log), NEW d \in QueueEntry
  PROVE  /\ Between(Append(log, d), h, Len(Append(log, d)))
              = Between(log, h, Len(log)) + d.amount
         /\ Between(log, h, Len(log)) \in Nat
<1> DEFINE n == Len(log)
           more == Append(log, d)
<1>1. more \in Seq(QueueEntry) /\ Len(more) = n + 1 /\ n \in Nat /\ h \in Nat /\ h <= n
  OBVIOUS
<1>3. Between(more, h, n) = Between(log, h, n)
  <2>1. \A i \in h + 1 .. n : more[i] = log[i]
    OBVIOUS
  <2> QED
    BY <2>1 DEF Between
<1>4. Between(more, n, n + 1) = d.amount
  <2>1. [i \in n + 1 .. n + 1 |-> more[i].amount] = [i \in {n + 1} |-> d.amount]
    BY <1>1
  <2>2. d.amount \in Nat
    BY AmountsAreNumbers
  <2>3. SumOf([i \in {n + 1} |-> d.amount]) = d.amount
    BY <2>2, SumOfOne
  <2> QED
    BY <2>1, <2>3 DEF Between
<1>5. n <= Len(log) /\ n <= n /\ n + 1 \in Nat /\ n <= n + 1 /\ n + 1 <= Len(more)
  BY <1>1
<1> HIDE DEF n, more
<1>6. Between(log, h, n) \in Nat
  <2>1. log \in Seq(QueueEntry) /\ h \in Nat /\ n \in Nat /\ h <= n /\ n <= n /\ n <= Len(log)
    BY <1>1, <1>5
  <2> HIDE DEF n
  <2>2. Between(log, h, n) = Between(log, h, n) + Between(log, n, n) /\ Between(log, h, n) \in Nat
    BY <2>1, StretchSplits
  <2> QED
    BY <2>2
<1>7. Between(more, h, n + 1) = Between(more, h, n) + Between(more, n, n + 1)
  <2> DEFINE e == n + 1
  <2>1. e \in Nat /\ n <= e /\ e <= Len(more)
    BY <1>5
  <2> HIDE DEF e
  <2>2. Between(more, h, e) = Between(more, h, n) + Between(more, n, e)
    BY <1>1, <2>1, StretchSplits
  <2> QED
    BY <2>2 DEF e
<1> QED
  BY <1>1, <1>3, <1>4, <1>6, <1>7 DEF n, more

(* What submit_batch accepts is paid for: the deposits of the batch are    *)
(* the head of the queue, the balances before it are those of the root.    *)
LEMMA AcceptedIsCovered ==
  ASSUME CustodyInv, NEW p \in proved, Accepts(p)
  PROVE  /\ Worth(p.wds) <= held
         /\ held - Worth(p.wds)
              = Total(p.new) + Between(deposits, head + Len(p.deps), Len(deposits))
         /\ Between(deposits, head + Len(p.deps), Len(deposits)) \in Nat
<1> DEFINE n == Len(p.deps)
           rest == Between(deposits, head + n, Len(deposits))
<1>1. p \in Batches /\ deposits \in Seq(QueueEntry) /\ p.deps \in Seq(QueueEntry)
  BY DEF CustodyInv, TypeOK, Batches
<1>2. head \in Nat /\ n \in Nat /\ Len(deposits) \in Nat /\ head + n <= Len(deposits)
  BY <1>1 DEF CustodyInv, TypeOK, Accepts
<1>3. p.old = root /\ p.deps = Segment(n)
  BY DEF Accepts, PublicInputs
<1>4. \A i \in 1 .. n : p.deps[i] = deposits[head + i]
  BY <1>3 DEF Segment
<1> HIDE DEF n
<1>5. Worth(p.deps) = Between(deposits, head, head + n)
  BY <1>1, <1>2, <1>4, StretchIsList DEF n
<1>6. /\ Between(deposits, head, Len(deposits)) = Between(deposits, head, head + n) + rest
      /\ rest \in Nat
  <2> DEFINE m == head + n
             end == Len(deposits)
  <2>1. head \in Nat /\ m \in Nat /\ end \in Nat /\ head <= m /\ m <= end /\ end <= Len(deposits)
    BY <1>2
  <2> HIDE DEF m, end
  <2>2. /\ Between(deposits, head, end) = Between(deposits, head, m) + Between(deposits, m, end)
        /\ Between(deposits, m, end) \in Nat
    BY <1>1, <2>1, StretchSplits
  <2> QED
    BY <2>2 DEF m, end
<1>7. held = Total(root) + Between(deposits, head, Len(deposits))
  BY PendingIsStretch DEF CustodyInv, Solvent
<1>8. Total(p.new) + Worth(p.wds) = Total(root) + Worth(p.deps)
  BY <1>3 DEF CustodyInv, Conserves
<1>9. /\ Total(root) \in Nat /\ Total(p.new) \in Nat
      /\ Worth(p.deps) \in Nat /\ Worth(p.wds) \in Nat
  BY <1>1, <1>3, BatchNumbers
<1> HIDE DEF rest
<1>10. held = Total(p.new) + Worth(p.wds) + rest
  BY <1>5, <1>6, <1>7, <1>8, <1>9
<1>11. Worth(p.wds) <= held /\ held - Worth(p.wds) = Total(p.new) + rest
  BY <1>6, <1>9, <1>10
<1> QED
  BY <1>6, <1>11 DEF rest, n

LEMMA CustodyInit == Init => CustodyInv
<1> SUFFICES ASSUME Init PROVE CustodyInv
  OBVIOUS
<1>1. TypeOK
  BY TypeInit
<1>2. EmptyTree \in Tree /\ Total(EmptyTree) = 0
  BY EmptyTreeFacts
<1>3. Solvent
  <2>1. [i \in Queued |-> deposits[i].amount] \in [{} -> Nat]
    BY DEF Init, Queued
  <2>2. Pending = 0
    BY <2>1, SumOfZeros DEF Pending, Value
  <2> QED
    BY <1>2, <2>2 DEF Init, Solvent
<1>4. Conserves(draft) /\ proved = {}
  BY <1>2, FreshConserves DEF Init
<1> QED
  BY <1>1, <1>3, <1>4 DEF CustodyInv

LEMMA CustodyStep == CustodyInv /\ [Next]_vars => CustodyInv'
<1> SUFFICES ASSUME CustodyInv, [Next]_vars PROVE CustodyInv'
  OBVIOUS
<1>0. TypeOK'
  BY TypeStep DEF CustodyInv
<1>a. ASSUME UNCHANGED <<root, deposits, head, held>> PROVE Solvent'
  BY <1>a DEF CustodyInv, Solvent, Pending, Queued
<1>1. ASSUME NEW k \in AnyKey, NEW a \in Amounts, Deposit(k, a) PROVE CustodyInv'
  <2> DEFINE d == [to |-> k, amount |-> a]
  <2>1. d \in QueueEntry /\ d.amount = a /\ a \in Nat
    BY <1>1, MadeIsEntry
  <2>2. deposits \in Seq(QueueEntry) /\ head \in 0 .. Len(deposits) /\ root \in Tree
    BY DEF CustodyInv, TypeOK
  <2>3. /\ deposits' = Append(deposits, d) /\ head' = head /\ held' = held + a /\ root' = root
        /\ proved' = proved /\ draft' = draft
    BY <1>1 DEF Deposit
  <2> HIDE DEF d
  <2>4. Pending' = Between(deposits', head', Len(deposits'))
    BY DEF Pending, Value, Queued, Between
  <2>5. Pending' = Pending + a /\ Pending \in Nat
    BY <2>1, <2>2, <2>3, <2>4, DepositQueued, PendingIsStretch
  <2>6. Total(root) \in Nat
    BY <2>2, TotalType
  <2>7. Solvent'
    BY <2>1, <2>3, <2>5, <2>6 DEF CustodyInv, Solvent
  <2> QED
    BY <1>0, <2>3, <2>7 DEF CustodyInv
<1>2. CASE BeginBatch
  <2>1. Conserves(draft')
    BY <1>2, FreshConserves DEF BeginBatch, CustodyInv, TypeOK
  <2> QED
    BY <1>0, <1>2, <1>a, <2>1 DEF BeginBatch, CustodyInv
<1>3. ASSUME NEW d \in DepositClaims, NEW i \in Slot, ProveDeposit(d, i) PROVE CustodyInv'
  <2>1. DepositHolds(draft.new, d, i)
    BY <1>3 DEF ProveDeposit
  <2>2. d \in QueueEntry /\ draft \in Batches
    BY <2>1, ClaimIsEntry DEF CustodyInv, TypeOK
  <2>3. /\ draft'.old = draft.old /\ draft'.new = AfterDeposit(draft.new, d, i)
        /\ draft'.deps = Append(draft.deps, d) /\ draft'.wds = draft.wds
    BY <1>3, <2>2, <2>1, DepositDraft DEF ProveDeposit
  <2>4. draft.new \in Tree /\ draft.deps \in Seq(QueueEntry) /\ d.amount \in Nat
    BY <2>2, AmountsAreNumbers DEF Batches
  <2>5. Total(draft'.new) = Total(draft.new) + d.amount
    BY <2>1, <2>2, <2>3, <2>4, DepositEntry
  <2>6. Worth(draft'.deps) = Worth(draft.deps) + d.amount
    BY <2>2, <2>3, <2>4, WorthAppend, AmountsAreNumbers
  <2>7. Conserves(draft) /\ draft'.old = draft.old /\ draft'.wds = draft.wds
    BY <2>3 DEF CustodyInv
  <2>8. /\ Total(draft.old) \in Nat /\ Total(draft.new) \in Nat
        /\ Worth(draft.deps) \in Nat /\ Worth(draft.wds) \in Nat
    BY <2>2, BatchNumbers
  <2>9. Conserves(draft')
    BY <2>4, <2>5, <2>6, <2>7, <2>8 DEF Conserves
  <2> QED
    BY <1>0, <1>3, <1>a, <2>9 DEF ProveDeposit, CustodyInv
<1>4. ASSUME NEW i \in Slot, NEW j \in Slot, NEW t \in SignedTx(draft.new, i), ProveTx(t, i, j)
      PROVE  CustodyInv'
  <2>1. draft \in Batches /\ draft.new \in Tree /\ draft.wds \in Seq(Payout)
    BY DEF CustodyInv, TypeOK, Batches
  <2>2. TxHolds(draft.new, t, i, j)
    BY <1>4 DEF ProveTx
  <2>3. t \in Tx /\ (t.withdraw => t.to \in Dest)
    BY <2>1, <2>2, SignedIsTx
  <2>4. /\ draft'.old = draft.old /\ draft'.new = AfterTx(draft.new, t, i, j)
        /\ draft'.deps = draft.deps /\ draft'.wds = draft.wds \o Withdrawals(t)
    BY <1>4, <2>1 DEF ProveTx, Batches
  <2>5. Total(draft'.new) = Total(draft.new) - Leaves(t)
    BY <2>1, <2>2, <2>3, <2>4, TxEntry
  <2>6. Worth(draft'.wds) = Worth(draft.wds) + Leaves(t)
    BY <2>1, <2>3, <2>4, WorthWithdrawals
  <2>7. Leaves(t) \in Nat
    BY <2>3 DEF Leaves, Tx
  <2>8. Conserves(draft')
    BY <2>1, <2>4, <2>5, <2>6, <2>7, BatchNumbers DEF Conserves, CustodyInv
  <2> QED
    BY <1>0, <1>4, <1>a, <2>8 DEF ProveTx, CustodyInv
<1>5. CASE Prove
  <2>1. Conserves(draft')
    BY <1>5, FreshConserves DEF Prove, CustodyInv, TypeOK
  <2> QED
    BY <1>0, <1>5, <1>a, <2>1 DEF Prove, CustodyInv
<1>6. ASSUME NEW p \in proved, SubmitBatch(p) PROVE CustodyInv'
  <2>1. /\ held - Worth(p.wds)
             = Total(p.new) + Between(deposits, head + Len(p.deps), Len(deposits))
    BY <1>6, AcceptedIsCovered DEF SubmitBatch
  <2>2. /\ root' = p.new /\ head' = head + Len(p.deps) /\ held' = held - Worth(p.wds)
        /\ deposits' = deposits /\ proved' = proved /\ draft' = draft
    BY <1>6 DEF SubmitBatch, Dequeued
  <2>3. Pending' = Between(deposits', head', Len(deposits'))
    BY DEF Pending, Value, Queued, Between
  <2>4. Solvent'
    BY <2>1, <2>2, <2>3 DEF Solvent
  <2> QED
    BY <1>0, <2>2, <2>4 DEF CustodyInv
<1>7. CASE UNCHANGED vars
  BY <1>0, <1>7, <1>a DEF vars, CustodyInv
<1> QED
  BY <1>1, <1>2, <1>3, <1>4, <1>5, <1>6, <1>7 DEF Next

LEMMA CustodyAlways == Spec => []CustodyInv
<1>1. Init => CustodyInv
  BY CustodyInit
<1>2. CustodyInv /\ [Next]_vars => CustodyInv'
  BY CustodyStep
<1> QED
  BY <1>1, <1>2, PTL DEF Spec

-----------------------------------------------------------------------------
(* The theorems.                                                           *)

(* The contract holds exactly the balances under its root and the deposits *)
(* in its queue.                                                           *)
THEOREM AlwaysSolvent == Spec => []Solvent
<1>1. CustodyInv => Solvent
  BY DEF CustodyInv
<1> QED
  BY <1>1, CustodyAlways, PTL

(* No proof that the contract would accept reverts for want of funds.      *)
THEOREM AlwaysPayable == Spec => []WithdrawalsPayable
<1>1. CustodyInv => WithdrawalsPayable
  BY AcceptedIsCovered DEF WithdrawalsPayable
<1> QED
  BY <1>1, CustodyAlways, PTL

(* As long as the token's supply fits u64, no balance can stop the queue:  *)
(* its head is provable in the slot of its key and in every free slot.     *)
THEOREM HeadAlwaysProvable == Spec => []HeadProvable
<1>1. ASSUME CustodyInv PROVE HeadProvable
  <2> SUFFICES ASSUME head < Len(deposits), NEW i \in Slot,
                      root[i].pk \in {NoKey, deposits[head + 1].to}
               PROVE  DepositHolds(root, deposits[head + 1], i)
    BY DEF HeadProvable
  <2> DEFINE d == deposits[head + 1]
             S == head + 1 .. Len(deposits)
             f == [s \in S |-> deposits[s].amount]
  <2>1. /\ deposits \in Seq(QueueEntry) /\ head \in Nat /\ Len(deposits) \in Nat
        /\ root \in Tree /\ held \in 0 .. Supply
    BY <1>1 DEF CustodyInv, TypeOK
  <2>2. d \in QueueEntry
    BY <2>1
  <2>3. f \in [S -> Nat] /\ head + 1 \in S
    <3>1. \A s \in S : deposits[s] \in QueueEntry
      BY <2>1
    <3> QED
      BY <2>1, <3>1, AmountsAreNumbers
  <2>4. IsFiniteSet(S)
    <3>1. head + 1 \in Int /\ Len(deposits) \in Int
      BY <2>1
    <3> QED
      BY <3>1, FS_Interval
  <2>5. Pending = SumOf(f) /\ f[head + 1] = d.amount
    BY <2>3 DEF Pending, Value, Queued
  <2>6. d.amount \in Nat \ {0} /\ d.to \in Key
    BY <2>2 DEF QueueEntry
  <2>7. Total(root) \in Nat /\ root[i].balance <= Total(root) /\ root[i].balance \in Nat
    BY <2>1, TotalType, AccountsAssumption DEF Tree, Account
  <2> HIDE DEF f, S, d
  <2>8. f[head + 1] <= SumOf(f) /\ SumOf(f) \in Nat
    BY <2>3, <2>4, SumUpdate, SumType, 0 \in Nat
  <2>9. held = Total(root) + SumOf(f)
    BY <1>1, <2>5 DEF CustodyInv, Solvent
  <2>10. root[i].balance + d.amount <= MaxBalance
    BY <2>1, <2>5, <2>6, <2>7, <2>8, <2>9, RollupAssumption, AccountsAssumption
  <2>11. d.to \notin {NoKey, PadKey}
    BY <2>6, AccountsAssumption, CircuitAssumption
  <2> QED
    BY <2>6, <2>10, <2>11 DEF DepositHolds, d
<1> QED
  BY <1>1, CustodyAlways, PTL

-----------------------------------------------------------------------------
(* The contract implements the custodian.                                  *)

Owed == Total(root) + Pending

LEMMA OwedIsNat == CustodyInv => Owed \in Nat /\ held = Owed /\ held \in 0 .. Supply
<1> SUFFICES ASSUME CustodyInv PROVE Owed \in Nat /\ held = Owed /\ held \in 0 .. Supply
  OBVIOUS
<1>1. held \in 0 .. Supply /\ held = Owed /\ Supply \in Nat
  BY RollupAssumption, AccountsAssumption DEF CustodyInv, TypeOK, Solvent, Owed
<1> QED
  BY <1>1

(* A deposit is received, a batch is settled, the rest is nobody's money.  *)
LEMMA StepRefines ==
  ASSUME CustodyInv, CustodyInv', [Next]_vars
  PROVE  [C!Next]_(C!vars)
<1>1. Owed \in Nat /\ held = Owed /\ held \in 0 .. Supply
  BY OwedIsNat
<1>2. held' = Owed'
  BY DEF CustodyInv, Solvent, Owed
<1>3. held' \in 0 .. Supply /\ Supply \in Nat
  BY RollupAssumption, AccountsAssumption DEF CustodyInv, TypeOK
<1> HIDE DEF CustodyInv
<1>4. ASSUME held' = held PROVE [C!Next]_(C!vars)
  BY <1>1, <1>2, <1>4 DEF C!vars, Owed
<1>5. ASSUME NEW k \in AnyKey, NEW a \in Amounts, Deposit(k, a) PROVE C!Next
  <2>1. a \in 1 .. Supply - held /\ held' = held + a
    BY <1>1, <1>3, <1>5, RollupAssumption DEF Deposit
  <2>2. Owed' = Owed + a
    BY <1>1, <1>2, <2>1
  <2>3. C!Receive(a)
    BY <2>1, <2>2 DEF C!Receive, Owed
  <2> QED
    BY <2>1, <2>3 DEF C!Next
<1>6. ASSUME NEW p \in proved, SubmitBatch(p) PROVE C!Next
  <2>1. p \in Batches
    BY DEF CustodyInv, TypeOK
  <2>2. Worth(p.wds) \in Nat /\ Worth(p.wds) <= held /\ held' = held - Worth(p.wds)
    BY <1>6, <2>1, BatchNumbers DEF SubmitBatch
  <2>3. Worth(p.wds) \in 0 .. Owed /\ Owed' = Owed - Worth(p.wds)
    BY <1>1, <1>2, <2>2
  <2>4. C!Settle(Worth(p.wds))
    BY <2>2, <2>3 DEF C!Settle, Owed
  <2> QED
    BY <2>3, <2>4 DEF C!Next, Owed
<1>7. CASE BeginBatch
  BY <1>4, <1>7 DEF BeginBatch
<1>8. ASSUME NEW d \in DepositClaims, NEW i \in Slot, ProveDeposit(d, i)
      PROVE  [C!Next]_(C!vars)
  BY <1>4, <1>8 DEF ProveDeposit
<1>9. ASSUME NEW i \in Slot, NEW j \in Slot, NEW t \in SignedTx(draft.new, i), ProveTx(t, i, j)
      PROVE  [C!Next]_(C!vars)
  BY <1>4, <1>9 DEF ProveTx
<1>10. CASE Prove
  BY <1>4, <1>10 DEF Prove
<1>11. CASE UNCHANGED vars
  BY <1>4, <1>11 DEF vars
<1> QED
  BY <1>5, <1>6, <1>7, <1>8, <1>9, <1>10, <1>11 DEF Next

(* Whatever is proved and submitted, the contract behaves as a custodian   *)
(* that holds exactly what it owes and pays out no more.                   *)
THEOREM CustodyImplemented == Spec => ImplementsCustody
<1>1. Init => C!Init
  <2> SUFFICES ASSUME Init PROVE C!Init
    OBVIOUS
  <2>1. held = 0 /\ held = Owed
    BY CustodyInit, OwedIsNat DEF Init
  <2> QED
    BY <2>1 DEF C!Init, Owed
<1>2. CustodyInv /\ CustodyInv' /\ [Next]_vars => [C!Next]_(C!vars)
  BY StepRefines
<1> QED
  BY <1>1, <1>2, CustodyAlways, PTL DEF Spec, ImplementsCustody, C!Spec
=============================================================================

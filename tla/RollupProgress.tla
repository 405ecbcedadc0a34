---------------------------- MODULE RollupProgress ----------------------------
(***************************************************************************)
(* What follows from trees that only move forward, first by their nonces,  *)
(* and between equal nonces by what they hold, for every value of the      *)
(* constants: a batch with an entry leads to a root that the contract      *)
(* never had, although it checks no batch number.  And what follows from   *)
(* keys that have one slot each, as build_batch gives them: replaying a    *)
(* landed batch gives its root, the builder's entries satisfy the circuit, *)
(* and no signed nonce is spent twice.                                     *)
(***************************************************************************)
EXTENDS RollupProofs

-----------------------------------------------------------------------------
(* The order.                                                              *)

Behind(a, b) == \A s \in Slot : a[s].nonce <= b[s].nonce
Signed(a, b) == \E s \in Slot : a[s].nonce < b[s].nonce

NotAfter(a, b) == Behind(a, b) /\ (Signed(a, b) \/ Total(a) <= Total(b))
Before(a, b)   == Behind(a, b) /\ (Signed(a, b) \/ Total(a) < Total(b))

LEMMA TreeNumbers ==
  ASSUME NEW tree \in Tree
  PROVE  Total(tree) \in Nat /\ \A s \in Slot : tree[s].nonce \in Nat
BY TotalType DEF Tree, Account

LEMMA NotAfterSelf ==
  ASSUME NEW tree \in Tree
  PROVE  NotAfter(tree, tree) /\ ~ Before(tree, tree)
BY TreeNumbers DEF NotAfter, Before, Behind, Signed

LEMMA BeforeIsNotAfter ==
  ASSUME NEW a \in Tree, NEW b \in Tree, Before(a, b)
  PROVE  NotAfter(a, b)
BY TreeNumbers DEF NotAfter, Before

(* Both relations are transitive, and a strict step makes a strict whole.  *)
LEMMA Transitive ==
  ASSUME NEW a \in Tree, NEW b \in Tree, NEW c \in Tree, NotAfter(a, b)
  PROVE  /\ NotAfter(b, c) => NotAfter(a, c)
         /\ Before(b, c) => Before(a, c)
<1>1. /\ Total(a) \in Nat /\ Total(b) \in Nat /\ Total(c) \in Nat
      /\ \A s \in Slot : a[s].nonce \in Nat /\ b[s].nonce \in Nat /\ c[s].nonce \in Nat
  BY TreeNumbers
<1>2. ASSUME Behind(b, c) PROVE Behind(a, c)
  BY <1>1, <1>2 DEF NotAfter, Behind
<1>3. ASSUME Behind(b, c), Signed(a, b) \/ Signed(b, c) PROVE Signed(a, c)
  BY <1>1, <1>3 DEF NotAfter, Behind, Signed
<1>4. Signed(a, b) \/ Total(a) <= Total(b)
  BY DEF NotAfter
<1> QED
  BY <1>1, <1>2, <1>3, <1>4 DEF NotAfter, Before

-----------------------------------------------------------------------------
(* Every entry moves the tree forward.                                     *)

LEMMA DepositMoves ==
  ASSUME NEW tree \in Tree, NEW d \in QueueEntry, NEW i \in Slot,
         DepositHolds(tree, d, i)
  PROVE  Before(tree, AfterDeposit(tree, d, i))
<1>1. /\ Total(AfterDeposit(tree, d, i)) = Total(tree) + d.amount
      /\ Total(tree) \in Nat /\ d.amount \in Nat \ {0}
  BY DepositEntry, TreeNumbers DEF QueueEntry
<1>2. \A s \in Slot : AfterDeposit(tree, d, i)[s].nonce = tree[s].nonce
  BY DEF AfterDeposit, Tree
<1>3. Behind(tree, AfterDeposit(tree, d, i))
  BY <1>2, TreeNumbers DEF Behind
<1> QED
  BY <1>1, <1>3 DEF Before

(* The nonces after a debit, and after the credit.                         *)
LEMMA DebitSigns ==
  ASSUME NEW tree \in Tree, NEW t \in Tx, NEW i \in Slot
  PROVE  \A s \in Slot : AfterDebit(tree, t, i)[s].nonce
                           = IF s = i THEN tree[s].nonce + 1 ELSE tree[s].nonce
<1>1. tree[i] \in Account
  BY DEF Tree
<1>2. [[tree[i] EXCEPT !.balance = @ - t.amount] EXCEPT !.nonce = @ + 1].nonce
        = tree[i].nonce + 1
  BY <1>1 DEF Account
<1>3. AfterDebit(tree, t, i)
        = [tree EXCEPT ![i] = [[tree[i] EXCEPT !.balance = @ - t.amount] EXCEPT !.nonce = @ + 1]]
  BY DEF AfterDebit, Tree
<1> QED
  BY <1>2, <1>3 DEF Tree

LEMMA CreditSignsNothing ==
  ASSUME NEW tree \in Tree, NEW t \in Tx, NEW j \in Slot
  PROVE  \A s \in Slot : AfterCredit(tree, t, j)[s].nonce = tree[s].nonce
<1>1. tree[j] \in Account
  BY DEF Tree
<1>2. [tree[j] EXCEPT !.balance = @ + t.amount].nonce = tree[j].nonce
  BY <1>1 DEF Account
<1>3. AfterCredit(tree, t, j) = [tree EXCEPT ![j] = [tree[j] EXCEPT !.balance = @ + t.amount]]
  BY DEF AfterCredit, Tree
<1> QED
  BY <1>2, <1>3 DEF Tree

LEMMA TxMoves ==
  ASSUME NEW tree \in Tree, NEW t \in Tx, NEW i \in Slot, NEW j \in Slot,
         TxHolds(tree, t, i, j)
  PROVE  Before(tree, AfterTx(tree, t, i, j))
<1>1. AfterDebit(tree, t, i) \in Tree
  BY DebitEntry DEF TxHolds
<1>2. \A s \in Slot : AfterTx(tree, t, i, j)[s].nonce = AfterDebit(tree, t, i)[s].nonce
  BY <1>1, CreditSignsNothing DEF AfterTx
<1>3. \A s \in Slot : AfterTx(tree, t, i, j)[s].nonce
                        = IF s = i THEN tree[s].nonce + 1 ELSE tree[s].nonce
  BY <1>2, DebitSigns
<1> QED
  BY <1>3, TreeNumbers DEF Before, Behind, Signed

-----------------------------------------------------------------------------
(* Every batch does, and so does the contract.                             *)

(* A batch moves its tree forward, and strictly if it has an entry.        *)
Advances(b) ==
  /\ NotAfter(b.old, b.new)
  /\ b.deps \o b.txs # <<>> => Before(b.old, b.new)

(* Landed batches were applied to trees that came one after another, and   *)
(* the contract's root is not before any of them.                          *)
ProgressInv ==
  /\ TypeOK
  /\ \A b \in proved \cup {draft} : Advances(b)
  /\ \A i \in DOMAIN landed :
       /\ Advances(landed[i])
       /\ NotAfter(landed[i].old, root)
       /\ \A j \in DOMAIN landed : i <= j => NotAfter(landed[i].old, landed[j].old)

LEMMA FreshAdvances ==
  ASSUME NEW tree \in Tree
  PROVE  Advances(Batch(tree))
<1>1. <<>> \o <<>> = <<>>
  OBVIOUS
<1> QED
  BY <1>1, NotAfterSelf DEF Advances, Batch

(* An entry appended to the draft.                                         *)
LEMMA EntryAdvances ==
  ASSUME NEW b \in Batches, NEW c \in Batches, Advances(b),
         c.old = b.old, Before(b.new, c.new)
  PROVE  Advances(c)
<1>1. b.old \in Tree /\ b.new \in Tree /\ c.new \in Tree
  BY DEF Batches
<1>2. Before(b.old, c.new)
  BY <1>1, Transitive DEF Advances
<1> QED
  BY <1>1, <1>2, BeforeIsNotAfter DEF Advances

LEMMA ProgressStep == ProgressInv /\ [Next]_vars => ProgressInv'
<1> SUFFICES ASSUME ProgressInv, [Next]_vars PROVE ProgressInv'
  OBVIOUS
<1>0. TypeOK /\ TypeOK'
  BY TypeStep DEF ProgressInv
<1>a. ASSUME UNCHANGED <<root, landed>>, \A b \in (proved \cup {draft})' : Advances(b)
      PROVE  ProgressInv'
  BY <1>0, <1>a DEF ProgressInv
<1>1. ASSUME NEW k \in AnyKey, NEW a \in Amounts, Deposit(k, a) PROVE ProgressInv'
  BY <1>1, <1>a DEF Deposit, ProgressInv
<1>2. CASE BeginBatch
  <2>1. Advances(draft')
    BY <1>0, <1>2, FreshAdvances DEF BeginBatch, TypeOK
  <2> QED
    BY <1>2, <1>a, <2>1 DEF BeginBatch, ProgressInv
<1>3. ASSUME NEW d \in DepositClaims, NEW i \in Slot, ProveDeposit(d, i) PROVE ProgressInv'
  <2>1. d \in QueueEntry /\ draft \in Batches /\ draft' \in Batches
    BY <1>0, <1>3, ClaimIsEntry DEF ProveDeposit, TypeOK
  <2>2. draft.new \in Tree /\ DepositHolds(draft.new, d, i)
    BY <1>3, <2>1 DEF ProveDeposit, Batches
  <2>3. draft'.old = draft.old /\ draft'.new = AfterDeposit(draft.new, d, i)
    BY <1>3, <2>1, <2>2, DepositDraft DEF ProveDeposit
  <2>4. Advances(draft')
    BY <2>1, <2>2, <2>3, DepositMoves, EntryAdvances DEF ProgressInv
  <2> QED
    BY <1>3, <1>a, <2>4 DEF ProveDeposit, ProgressInv
<1>4. ASSUME NEW i \in Slot, NEW j \in Slot, NEW t \in SignedTx(draft.new, i), ProveTx(t, i, j)
      PROVE  ProgressInv'
  <2>1. draft \in Batches /\ draft' \in Batches /\ draft.new \in Tree
    BY <1>0 DEF TypeOK, Batches
  <2>2. TxHolds(draft.new, t, i, j)
    BY <1>4 DEF ProveTx
  <2>3. t \in Tx /\ (t.withdraw <=> t.to \in Dest)
    BY <2>1, <2>2, SignedIsTx
  <2>4. draft'.old = draft.old /\ draft'.new = AfterTx(draft.new, t, i, j)
    BY <1>4, <2>1 DEF ProveTx, Batches
  <2>5. Advances(draft')
    BY <2>1, <2>2, <2>3, <2>4, TxMoves, EntryAdvances DEF ProgressInv
  <2> QED
    BY <1>4, <1>a, <2>5 DEF ProveTx, ProgressInv
<1>5. CASE Prove
  <2>1. Advances(draft')
    BY <1>0, <1>5, FreshAdvances DEF Prove, TypeOK
  <2> QED
    BY <1>5, <1>a, <2>1 DEF Prove, ProgressInv
<1>6. ASSUME NEW p \in proved, SubmitBatch(p) PROVE ProgressInv'
  <2> DEFINE n == Len(landed)
  <2>1. /\ landed \in Seq(Batches) /\ p \in Batches /\ root \in Tree
        /\ p.old \in Tree /\ p.new \in Tree /\ n \in Nat
    BY <1>0 DEF TypeOK, Batches
  <2>2. p.old = root /\ root' = p.new /\ landed' = Append(landed, p)
    BY <1>6, <2>1 DEF SubmitBatch, Accepts, PublicInputs
  <2>3. Advances(p)
    BY DEF ProgressInv
  <2>4. /\ DOMAIN landed' = 1 .. n + 1 /\ DOMAIN landed = 1 .. n
        /\ landed'[n + 1] = p /\ \A i \in 1 .. n : landed'[i] = landed[i]
    BY <2>1, <2>2
  <2>5. ASSUME NEW i \in 1 .. n PROVE landed[i].old \in Tree /\ NotAfter(landed[i].old, root)
    <3>1. landed[i] \in Batches
      BY <2>1
    <3>2. NotAfter(landed[i].old, root)
      BY <2>4 DEF ProgressInv
    <3> QED
      BY <3>1, <3>2 DEF Batches
  <2>6. ASSUME NEW i \in DOMAIN landed'
        PROVE  /\ Advances(landed'[i]) /\ landed'[i].old \in Tree
               /\ NotAfter(landed'[i].old, root)
               /\ NotAfter(landed'[i].old, root')
    <3>1. Advances(landed'[i])
      BY <2>1, <2>3, <2>4 DEF ProgressInv
    <3>2. landed'[i].old \in Tree /\ NotAfter(landed'[i].old, root)
      BY <2>1, <2>2, <2>4, <2>5, NotAfterSelf
    <3>3. NotAfter(root, root')
      BY <2>2, <2>3 DEF Advances
    <3> QED
      BY <2>1, <2>2, <3>1, <3>2, <3>3, Transitive
  <2>7. ASSUME NEW i \in DOMAIN landed', NEW j \in DOMAIN landed', i <= j
        PROVE  NotAfter(landed'[i].old, landed'[j].old)
    <3>1. CASE j = n + 1
      BY <2>2, <2>4, <2>6, <3>1
    <3>2. CASE j \in 1 .. n
      BY <2>1, <2>4, <2>7, <3>2 DEF ProgressInv
    <3> QED
      BY <2>1, <2>4, <3>1, <3>2
  <2>8. proved' = proved /\ draft' = draft
    BY <1>6 DEF SubmitBatch
  <2> QED
    BY <1>0, <2>6, <2>7, <2>8 DEF ProgressInv
<1>7. CASE UNCHANGED vars
  BY <1>7, <1>a DEF vars, ProgressInv
<1> QED
  BY <1>1, <1>2, <1>3, <1>4, <1>5, <1>6, <1>7 DEF Next

-----------------------------------------------------------------------------
(* No proof is good again after its batch has landed, unless the batch is  *)
(* empty: its root is one that the contract has left for ever.             *)
THEOREM RootsAreNew == Spec => []RootNeverReturns
<1>1. Init => ProgressInv
  <2> SUFFICES ASSUME Init PROVE ProgressInv
    OBVIOUS
  <2>1. TypeOK /\ Advances(draft) /\ proved = {} /\ DOMAIN landed = {}
    BY TypeInit, EmptyTreeFacts, FreshAdvances DEF Init
  <2> QED
    BY <2>1 DEF ProgressInv
<1>2. ProgressInv /\ [Next]_vars => ProgressInv'
  BY ProgressStep
<1>3. ASSUME ProgressInv PROVE RootNeverReturns
  <2> SUFFICES ASSUME NEW i \in DOMAIN landed, NEW j \in DOMAIN landed, i <= j,
                      landed[j].deps \o landed[j].txs # <<>>
               PROVE  landed[j].new # landed[i].old
    BY DEF RootNeverReturns
  <2>1. landed[i].old \in Tree /\ landed[j].old \in Tree /\ landed[j].new \in Tree
    <3>1. landed \in Seq(Batches)
      BY <1>3 DEF ProgressInv, TypeOK
    <3>2. landed[i] \in Batches /\ landed[j] \in Batches
      BY <3>1
    <3> QED
      BY <3>2 DEF Batches
  <2>2. NotAfter(landed[i].old, landed[j].old) /\ Before(landed[j].old, landed[j].new)
    BY <1>3 DEF ProgressInv, Advances
  <2>3. Before(landed[i].old, landed[j].new)
    BY <2>1, <2>2, Transitive
  <2> QED
    BY <2>1, <2>3, NotAfterSelf
<1> QED
  BY <1>1, <1>2, <1>3, PTL DEF Spec


-----------------------------------------------------------------------------
(* What build_batch does is what the circuit allows.                       *)

(* A tree that build_batch can have made.                                  *)
BuilderTree(tree) == OneSlotEach(tree) /\ EmptyIsZero(tree)

(* Its slot is the one in which the circuit takes a deposit.               *)
LEMMA BuilderDeposit ==
  ASSUME NEW tree \in Tree, BuilderTree(tree),
         NEW d \in QueueEntry, d.amount <= MaxBalance
  PROVE  /\ BuilderSlot(tree, d.to) = {} => ApplyDeposit(tree, d) = Refused(tree, "TreeFull")
         /\ \A i \in BuilderSlot(tree, d.to) :
              /\ i \in Slot
              /\ DepositHolds(tree, d, i) => ApplyDeposit(tree, d) = Ok(AfterDeposit(tree, d, i))
              /\ ~DepositHolds(tree, d, i) =>
                   ApplyDeposit(tree, d) = Refused(tree, "BalanceOverflow")
<1> DEFINE k == d.to
           out == ApplyDeposit(tree, d)
<1>1. k \in Key /\ k # NoKey /\ k # PadKey /\ d.amount \in Nat /\ d.amount # 0
  BY AccountsAssumption, CircuitAssumption DEF QueueEntry
<1>2. CASE Holds(tree, k)
  <2>1. BuilderSlot(tree, k) = Find(tree, k) /\ Find(tree, k) # {}
    BY <1>2 DEF BuilderSlot, Holds
  <2>2. ASSUME NEW i \in Find(tree, k)
        PROVE  /\ i \in Slot
               /\ DepositHolds(tree, d, i) => out = Ok(AfterDeposit(tree, d, i))
               /\ ~DepositHolds(tree, d, i) => out = Refused(tree, "BalanceOverflow")
    <3>1. i \in Slot /\ tree[i].pk = k /\ Find(tree, k) = {i}
      BY <2>2, FindOne
    <3>2. out = IF tree[i].balance + d.amount > MaxBalance
                THEN Refused(tree, "BalanceOverflow") ELSE Ok(Raised(tree, i, d.amount))
      BY <1>1, <1>2, <3>1, CreditOutcome DEF ApplyDeposit
    <3>3. DepositHolds(tree, d, i) <=> ~ (tree[i].balance + d.amount > MaxBalance)
      <4>1. tree[i].balance \in Nat /\ MaxBalance \in Nat
        BY <3>1, AccountsAssumption DEF Tree, Account
      <4> QED
        BY <1>1, <3>1, <4>1 DEF DepositHolds
    <3>4. Raised(tree, i, d.amount) = AfterDeposit(tree, d, i)
      BY <3>1 DEF Raised, AfterDeposit, Tree
    <3> HIDE DEF out
    <3> QED
      BY <3>1, <3>2, <3>3, <3>4
  <2> QED
    BY <2>1, <2>2
<1>3. CASE ~Holds(tree, k)
  <2>1. BuilderSlot(tree, k) = FreeIndex(tree)
    BY <1>3 DEF BuilderSlot
  <2>2. FreeIndex(tree) = {} => out = Refused(tree, "TreeFull")
    BY <1>3 DEF ApplyDeposit
  <2>3. ASSUME NEW i \in FreeIndex(tree)
        PROVE  i \in Slot /\ DepositHolds(tree, d, i) /\ out = Ok(AfterDeposit(tree, d, i))
    <3>1. i \in Slot /\ tree[i].pk = NoKey /\ FreeIndex(tree) = {i}
      BY FreeOne
    <3>2. tree[i].balance = 0 /\ tree[i].nonce = 0
      BY <3>1 DEF BuilderTree, EmptyIsZero
    <3>3. DepositHolds(tree, d, i)
      BY <1>1, <3>1, <3>2 DEF DepositHolds
    <3>4. out = Ok([s \in Slot |-> IF s \in {i}
                                   THEN [pk |-> k, balance |-> d.amount, nonce |-> 0]
                                   ELSE tree[s]])
      BY <1>3, <3>1 DEF ApplyDeposit
    <3>5. AfterDeposit(tree, d, i) = [s \in Slot |-> IF s \in {i}
                                   THEN [pk |-> k, balance |-> d.amount, nonce |-> 0]
                                   ELSE tree[s]]
      <4>1. tree[i].balance + d.amount = d.amount
        BY <1>1, <3>2
      <4> QED
        BY <3>1, <3>2, <4>1 DEF AfterDeposit, Tree
    <3> QED
      BY <3>1, <3>3, <3>4, <3>5
  <2> QED
    BY <2>1, <2>2, <2>3
<1> QED
  BY <1>2, <1>3

(* A transaction is applied as the circuit has it, and whenever it can be. *)
LEMMA BuilderTx ==
  ASSUME NEW tree \in Tree, OneSlotEach(tree), NEW t \in Tx, t.withdraw <=> t.to \in Dest,
         NEW out, out = ApplyTx(tree, t)
  PROVE  /\ out.error = "none" =>
              \E i \in Find(tree, t.from), j \in Slot :
                /\ t.withdraw \/ j \in Find(tree, t.to)
                /\ TxHolds(tree, t, i, j) /\ out.tree = AfterTx(tree, t, i, j)
         /\ \A i, j \in Slot : TxHolds(tree, t, i, j) =>
              out.error = "none" /\ out.tree = AfterTx(tree, t, i, j)
<1>1. /\ t.from \in Key /\ t.from # NoKey /\ t.from # PadKey /\ t.amount \in Nat /\ t.amount # 0
      /\ t.nonce \in Nat /\ t.withdraw \in BOOLEAN
      /\ ~t.withdraw => t.to \in Key /\ t.to # NoKey /\ t.to # PadKey
  BY AccountsAssumption, CircuitAssumption DEF Tx
<1>2. ASSUME NEW i \in Slot
      PROVE  /\ tree[i].balance \in Nat /\ tree[i].nonce \in Nat /\ MaxBalance \in Nat
             /\ AfterDebit(tree, t, i) = Charged(tree, i, t.amount)
             /\ \A s \in Slot : AfterDebit(tree, t, i)[s].pk = tree[s].pk
  <2>1. AfterDebit(tree, t, i) = Charged(tree, i, t.amount)
    BY EntriesAreUpdates
  <2> QED
    BY <2>1, AccountsAssumption DEF Tree, Account, Charged
<1>3. ASSUME NEW k, k # NoKey, NEW i \in Slot, tree[i].pk = k
      PROVE  Find(tree, k) = {i} /\ Holds(tree, k)
  BY <1>3, SlotOfKey
<1>4. ASSUME NEW i \in Slot, NEW j \in Slot, DebitHolds(tree, t, i), ~t.withdraw
      PROVE  /\ AfterDebit(tree, t, i) \in Tree
             /\ Raised(Charged(tree, i, t.amount), j, t.amount) = AfterTx(tree, t, i, j)
             /\ CreditHolds(AfterDebit(tree, t, i), t, j) <=>
                  /\ tree[j].pk = t.to
                  /\ Charged(tree, i, t.amount)[j].balance + t.amount <= MaxBalance
  <2>1. AfterDebit(tree, t, i) \in Tree
    BY <1>4, DebitEntry
  <2>2. AfterCredit(AfterDebit(tree, t, i), t, j) = Raised(AfterDebit(tree, t, i), j, t.amount)
    BY <2>1, EntriesAreUpdates
  <2> QED
    BY <1>1, <1>2, <1>4, <2>1, <2>2 DEF AfterTx, CreditHolds
<1>5. ASSUME NEW i \in Slot, NEW j \in Slot, TxHolds(tree, t, i, j)
      PROVE  out.error = "none" /\ out.tree = AfterTx(tree, t, i, j)
  <2>1. /\ tree[i].pk = t.from /\ tree[i].nonce = t.nonce /\ t.amount <= tree[i].balance
        /\ DebitHolds(tree, t, i)
    BY <1>5 DEF TxHolds, DebitHolds
  <2>2. \A s \in Slot : tree[s].pk = t.from => s = i
    BY <1>1, <2>1 DEF OneSlotEach
  <2>3. Holds(tree, t.from) /\ Unique(tree, t.from)
    BY <1>1, <1>3, <2>1, <2>2 DEF Unique
  <2>4. tree[i].balance \in Nat /\ ~ (tree[i].balance < t.amount) /\ tree[i].balance >= t.amount
    BY <1>1, <1>2, <2>1
  <2>5. CASE t.withdraw
    <3>1. out.error = "none" /\ out.tree = Charged(tree, i, t.amount)
      <4>1. \E x \in Slot :
              /\ tree[x].pk = t.from
              /\ \/ tree[x].nonce # t.nonce
                 \/ tree[x].balance < t.amount
                 \/ ~t.withdraw
                 \/ out.error = "none" /\ out.tree = Charged(tree, x, t.amount)
        BY <1>1, <2>3, TxOutcome
      <4> QED
        BY <2>1, <2>2, <2>4, <2>5, <4>1
    <3> QED
      BY <1>2, <2>5, <3>1 DEF AfterTx
  <2>6. CASE ~t.withdraw
    <3> DEFINE after == Charged(tree, i, t.amount)
    <3>1. tree[j].pk = t.to /\ after[j].balance + t.amount <= MaxBalance
      BY <1>4, <1>5, <2>1, <2>6 DEF TxHolds
    <3>2. \A s \in Slot : tree[s].pk = t.to => s = j
      BY <1>1, <2>6, <3>1 DEF OneSlotEach
    <3>3. Holds(tree, t.to)
      BY <1>1, <1>3, <2>6, <3>1
    <3>4. after[j].balance \in Nat
      <4>1. after \in Tree
        BY <1>2, <1>4, <2>1, <2>6
      <4> HIDE DEF after
      <4> QED
        BY <4>1 DEF Tree, Account
    <3>5. ~ (after[j].balance + t.amount > MaxBalance)
      BY <1>1, <1>2, <3>1, <3>4
    <3> HIDE DEF after
    <3>6. out.error = "none" /\ out.tree = Raised(after, j, t.amount)
      <4>1. \E x \in Slot :
              /\ tree[x].pk = t.to
              /\ \/ /\ out.error = "none"
                    /\ out.tree = Raised(after, x, t.amount)
                 \/ after[x].balance + t.amount > MaxBalance
        BY <1>1, <2>1, <2>2, <2>3, <2>4, <2>6, <3>3, TxOutcome DEF after
      <4> QED
        BY <3>2, <3>5, <4>1
    <3> QED
      BY <1>4, <2>1, <2>6, <3>6 DEF after
  <2> QED
    BY <1>1, <2>5, <2>6
<1>6. ASSUME out.error = "none"
      PROVE  \E i \in Find(tree, t.from), j \in Slot :
               /\ t.withdraw \/ j \in Find(tree, t.to)
               /\ TxHolds(tree, t, i, j) /\ out.tree = AfterTx(tree, t, i, j)
  <2>1. PICK i \in Slot :
          /\ Find(tree, t.from) = {i} /\ tree[i].pk = t.from
          /\ tree[i].nonce = t.nonce /\ tree[i].balance >= t.amount
          /\ \/ t.withdraw /\ out.tree = Charged(tree, i, t.amount)
             \/ /\ ~t.withdraw
                /\ \E j \in Slot :
                     /\ tree[j].pk = t.to
                     /\ Charged(tree, i, t.amount)[j].balance + t.amount <= MaxBalance
                     /\ out.tree = Raised(Charged(tree, i, t.amount), j, t.amount)
    BY <1>1, <1>6, TxOutcome
  <2>2. DebitHolds(tree, t, i)
    BY <1>1, <1>2, <2>1 DEF DebitHolds
  <2>3. CASE t.withdraw
    <3>1. TxHolds(tree, t, i, i) /\ out.tree = AfterTx(tree, t, i, i)
      BY <1>2, <2>1, <2>2, <2>3 DEF TxHolds, AfterTx
    <3> QED
      BY <2>1, <2>3, <3>1
  <2>4. CASE ~t.withdraw
    <3>1. PICK j \in Slot :
            /\ tree[j].pk = t.to
            /\ Charged(tree, i, t.amount)[j].balance + t.amount <= MaxBalance
            /\ out.tree = Raised(Charged(tree, i, t.amount), j, t.amount)
      BY <2>1, <2>4
    <3>2. TxHolds(tree, t, i, j) /\ out.tree = AfterTx(tree, t, i, j)
      BY <1>4, <2>2, <2>4, <3>1 DEF TxHolds
    <3>3. j \in Find(tree, t.to)
      BY <1>1, <1>3, <2>4, <3>1
    <3> QED
      BY <2>1, <3>2, <3>3
  <2> QED
    BY <1>1, <2>3, <2>4
<1> QED
  BY <1>5, <1>6


-----------------------------------------------------------------------------
(* As long as deposits are proved in build_batch's slots, every batch is   *)
(* one that build_batch rebuilds, and spends nonces that were not spent.   *)

Replayed(b) ==
  LET replay == BuildBatch(b.old, b.deps, b.txs)
  IN replay.error = "none" /\ replay.tree = b.new

(* The account of the key has passed the nonce.                            *)
Used(tree, spend) == \E i \in Slot : tree[i].pk = spend[1] /\ spend[2] < tree[i].nonce

SpendsOnce(b) ==
  /\ \A spend \in Key \X Nat : Used(b.old, spend) => Used(b.new, spend)
  /\ \A n \in DOMAIN b.txs : ~Used(b.old, Spend(b.txs[n])) /\ Used(b.new, Spend(b.txs[n]))
  /\ \A m, n \in DOMAIN b.txs : m # n => Spend(b.txs[m]) # Spend(b.txs[n])

Faithful(b) == BuilderTree(b.old) /\ BuilderTree(b.new) /\ Replayed(b) /\ SpendsOnce(b)

HonestInv ==
  honest =>
    /\ BuilderTree(root)
    /\ \A b \in proved \cup {draft} : Faithful(b)
    /\ \A b \in DOMAIN landed : \A n \in DOMAIN landed[b].txs : Used(root, Spend(landed[b].txs[n]))
    /\ SignedOnce

ReplayInv == TypeOK /\ HonestInv

LEMMA SpendFacts ==
  /\ \A t \in Tx : Spend(t) \in Key \X Nat /\ Spend(t)[1] = t.from /\ Spend(t)[2] = t.nonce
  /\ \A k \in Key : k # NoKey
BY AccountsAssumption DEF Spend, Tx

LEMMA FreshFaithful ==
  ASSUME NEW tree, BuilderTree(tree)
  PROVE  Faithful(Batch(tree))
<1> DEFINE b == Batch(tree)
<1>1. b.old = tree /\ b.new = tree /\ b.deps = <<>> /\ b.txs = <<>>
  BY DEF Batch
<1>2. BuildBatch(b.old, b.deps, b.txs) = Progress(tree, "none", 0)
  BY <1>1, BuildNothing
<1>3. Replayed(b)
  BY <1>1, <1>2 DEF Replayed, Progress
<1>4. SpendsOnce(b)
  BY <1>1 DEF SpendsOnce
<1> HIDE DEF b
<1>5. Faithful(b)
  BY <1>1, <1>3, <1>4 DEF Faithful
<1> QED
  BY <1>5 DEF b

(* A deposit in build_batch's slot: it opens an account or adds to one,    *)
(* and no account's nonce moves.                                           *)
LEMMA DepositFaithful ==
  ASSUME NEW b \in Batches, Faithful(b), b.txs = <<>>, NEW d \in QueueEntry,
         NEW i \in BuilderSlot(b.new, d.to), DepositHolds(b.new, d, i),
         NEW c, c.old = b.old, c.new = AfterDeposit(b.new, d, i),
         c.deps = Append(b.deps, d), c.txs = b.txs
  PROVE  Faithful(c)
<1> DEFINE tree == b.new
           after == AfterDeposit(tree, d, i)
<1>1. tree \in Tree /\ b.deps \in Seq(QueueEntry) /\ BuilderTree(tree) /\ BuilderTree(b.old)
  BY DEF Batches, Faithful
<1>2. d.to \in Key /\ d.to # NoKey /\ d.amount \in Nat /\ d.amount # 0
  BY SpendFacts DEF QueueEntry
<1>3. i \in Slot /\ (tree[i].pk = d.to \/ (tree[i].pk = NoKey /\ ~Holds(tree, d.to)))
  <2>1. i \in Find(tree, d.to) \/ (i \in FreeIndex(tree) /\ ~Holds(tree, d.to))
    BY DEF BuilderSlot
  <2> QED
    BY <2>1, FindOne, FreeOne
<1>4. d.amount <= MaxBalance
  <2>1. tree[i].balance \in Nat /\ MaxBalance \in Nat
    BY <1>1, <1>3, AccountsAssumption DEF Tree, Account
  <2> QED
    BY <1>2, <2>1 DEF DepositHolds
<1>5. ApplyDeposit(tree, d) = Ok(after)
  BY <1>1, <1>4, BuilderDeposit
<1>6. /\ \A s \in Slot : after[s].pk = IF s = i THEN d.to ELSE tree[s].pk
      /\ \A s \in Slot : after[s].nonce = tree[s].nonce
      /\ \A s \in Slot : s # i => after[s] = tree[s]
  BY <1>1, <1>3 DEF AfterDeposit, Tree
<1>7. \A s \in Slot : s # i => tree[s].pk # d.to
  <2>1. Holds(tree, d.to) <=> \E s \in Slot : tree[s].pk = d.to
    BY FindOne
  <2> QED
    BY <1>1, <1>2, <1>3, <2>1 DEF BuilderTree, OneSlotEach
<1> HIDE DEF after
<1>8. BuilderTree(after)
  <2>1. OneSlotEach(after)
    BY <1>1, <1>6, <1>7 DEF BuilderTree, OneSlotEach
  <2>2. EmptyIsZero(after)
    BY <1>1, <1>2, <1>6 DEF BuilderTree, EmptyIsZero
  <2> QED
    BY <2>1, <2>2 DEF BuilderTree
<1>9. Replayed(c)
  <2> DEFINE done == BuildBatch(b.old, b.deps, <<>>)
  <2>1. done.error = "none" /\ done.tree = tree
    BY DEF Faithful, Replayed
  <2>2. BuildBatch(b.old, Append(b.deps, d), <<>>) = Step(done, ApplyDeposit(done.tree, d))
    BY <1>1, BuildDeposit
  <2> HIDE DEF done
  <2>3. Step(done, ApplyDeposit(done.tree, d)) = Progress(after, "none", done.applied + 1)
    BY <1>5, <2>1 DEF Step, Ok
  <2> QED
    BY <2>2, <2>3 DEF Replayed, Progress, after
<1>10. ASSUME NEW spend \in Key \X Nat, Used(b.old, spend) PROVE Used(after, spend)
  <2>1. Used(tree, spend)
    BY <1>10 DEF Faithful, SpendsOnce
  <2>2. PICK s \in Slot : tree[s].pk = spend[1] /\ spend[2] < tree[s].nonce
    BY <2>1 DEF Used
  <2>3. spend[1] # NoKey
    BY SpendFacts
  <2>4. after[s].pk = spend[1]
    BY <1>3, <1>6, <2>2, <2>3
  <2> QED
    BY <1>6, <2>2, <2>4 DEF Used
<1>11. SpendsOnce(c)
  BY <1>10 DEF SpendsOnce, after
<1> QED
  BY <1>1, <1>8, <1>9, <1>11 DEF Faithful, after

(* A transaction: its nonce is the account's, so it was not used yet; and  *)
(* now it is.                                                              *)
LEMMA TxFaithful ==
  ASSUME NEW b \in Batches, Faithful(b), NEW t \in Tx, t.withdraw <=> t.to \in Dest,
         NEW i \in Slot, NEW j \in Slot, TxHolds(b.new, t, i, j),
         NEW c, c.old = b.old, c.new = AfterTx(b.new, t, i, j),
         c.deps = b.deps, c.txs = Append(b.txs, t)
  PROVE  Faithful(c)
<1> DEFINE tree == b.new
           after == AfterTx(tree, t, i, j)
<1>1. /\ tree \in Tree /\ b.deps \in Seq(QueueEntry) /\ b.txs \in Seq(Tx)
      /\ BuilderTree(tree) /\ BuilderTree(b.old)
  BY DEF Batches, Faithful
<1>2. after \in Tree
  BY <1>1, TxEntry
<1>3. tree[i].pk = t.from /\ tree[i].nonce = t.nonce /\ t.from \in Key /\ t.nonce \in Nat
  BY DEF TxHolds, DebitHolds, Tx
<1>4. /\ \A s \in Slot : after[s].pk = tree[s].pk
      /\ \A s \in Slot : after[s].nonce = IF s = i THEN tree[s].nonce + 1 ELSE tree[s].nonce
      /\ \A s \in Slot : s # i /\ (t.withdraw \/ s # j) => after[s] = tree[s]
  <2>1. AfterDebit(tree, t, i) \in Tree /\ AfterDebit(tree, t, i) = Charged(tree, i, t.amount)
    BY <1>1, DebitEntry, EntriesAreUpdates DEF TxHolds
  <2>2. AfterCredit(AfterDebit(tree, t, i), t, j) = Raised(AfterDebit(tree, t, i), j, t.amount)
    BY <2>1, EntriesAreUpdates
  <2>3. after = IF t.withdraw THEN Charged(tree, i, t.amount)
                ELSE Raised(Charged(tree, i, t.amount), j, t.amount)
    BY <2>1, <2>2 DEF AfterTx
  <2> HIDE DEF after
  <2> QED
    BY <1>1, <2>3 DEF Charged, Raised, Tree
<1>5. ~t.withdraw => tree[j].pk # NoKey
  <2>1. ~t.withdraw => AfterDebit(tree, t, i)[j].pk # NoKey
    BY DEF TxHolds, CreditHolds
  <2>2. AfterDebit(tree, t, i)[j].pk = tree[j].pk
    <3>1. AfterDebit(tree, t, i) = Charged(tree, i, t.amount)
      BY <1>1, EntriesAreUpdates
    <3> QED
      BY <1>1, <3>1 DEF Charged, Tree
  <2> QED
    BY <2>1, <2>2
<1>6. Replayed(c)
  <2> DEFINE done == BuildBatch(b.old, b.deps, b.txs)
  <2>1. done.error = "none" /\ done.tree = tree
    BY DEF Faithful, Replayed
  <2>2. Len(b.deps) \in Nat
    BY <1>1
  <2>3. BuildBatch(b.old, b.deps, Append(b.txs, t)) = Step(done, ApplyTx(done.tree, t))
    BY <1>1, <2>2, BuildTx
  <2> HIDE DEF done
  <2>4. ApplyTx(tree, t).error = "none" /\ ApplyTx(tree, t).tree = after
    BY <1>1, BuilderTx DEF BuilderTree
  <2>5. Step(done, ApplyTx(done.tree, t)) = Progress(after, "none", done.applied + 1)
    BY <2>1, <2>4 DEF Step
  <2> QED
    BY <2>3, <2>5 DEF Replayed, Progress, after
<1> HIDE DEF after
<1>7. BuilderTree(after)
  <2>1. OneSlotEach(after)
    BY <1>1, <1>4 DEF BuilderTree, OneSlotEach
  <2>2. EmptyIsZero(after)
    <3>1. tree[i].pk # NoKey
      BY <1>3, SpendFacts
    <3> QED
      BY <1>1, <1>4, <1>5, <3>1 DEF BuilderTree, EmptyIsZero
  <2> QED
    BY <2>1, <2>2 DEF BuilderTree
<1>8. \A s \in Slot : tree[s].nonce \in Nat
  BY <1>1 DEF Tree, Account
<1>9. ASSUME NEW spend \in Key \X Nat, Used(tree, spend) PROVE Used(after, spend)
  <2>1. PICK s \in Slot : tree[s].pk = spend[1] /\ spend[2] < tree[s].nonce
    BY <1>9 DEF Used
  <2>2. spend[2] \in Nat /\ spend[2] < after[s].nonce
    BY <1>4, <1>8, <2>1
  <2> QED
    BY <1>4, <2>1, <2>2 DEF Used
<1>10. ~Used(tree, Spend(t)) /\ Used(after, Spend(t))
  <2>1. \A s \in Slot : tree[s].pk = t.from => s = i
    BY <1>1, <1>3, SpendFacts DEF BuilderTree, OneSlotEach
  <2>2. ~ (t.nonce < tree[i].nonce) /\ t.nonce < after[i].nonce
    BY <1>3, <1>4
  <2> QED
    BY <1>3, <1>4, <2>1, <2>2, SpendFacts DEF Used
<1>11. \A n \in DOMAIN b.txs :
         /\ Spend(b.txs[n]) \in Key \X Nat
         /\ ~Used(b.old, Spend(b.txs[n])) /\ Used(tree, Spend(b.txs[n]))
  <2>1. \A n \in DOMAIN b.txs : b.txs[n] \in Tx
    BY <1>1
  <2> QED
    BY <2>1, SpendFacts DEF Faithful, SpendsOnce
<1>12. \A spend \in Key \X Nat : Used(b.old, spend) => Used(tree, spend)
  BY DEF Faithful, SpendsOnce
<1>13. SpendsOnce(c)
  <2> DEFINE N == Len(b.txs)
  <2>1. /\ N \in Nat /\ DOMAIN b.txs = 1 .. N /\ DOMAIN c.txs = 1 .. N + 1
        /\ c.txs[N + 1] = t /\ \A n \in 1 .. N : c.txs[n] = b.txs[n]
    BY <1>1
  <2> HIDE DEF N
  <2>2. ASSUME NEW n \in DOMAIN c.txs
        PROVE  ~Used(b.old, Spend(c.txs[n])) /\ Used(after, Spend(c.txs[n]))
    <3>1. CASE n = N + 1
      BY <1>10, <1>12, <2>1, <3>1, SpendFacts
    <3>2. CASE n \in 1 .. N
      BY <1>9, <1>11, <2>1, <3>2
    <3> QED
      BY <2>1, <3>1, <3>2
  <2>3. ASSUME NEW m \in DOMAIN c.txs, NEW n \in DOMAIN c.txs, m # n
        PROVE  Spend(c.txs[m]) # Spend(c.txs[n])
    <3>1. CASE m \in 1 .. N /\ n \in 1 .. N
      BY <2>1, <2>3, <3>1 DEF Faithful, SpendsOnce
    <3>2. CASE m = N + 1 /\ n \in 1 .. N
      BY <1>10, <1>11, <2>1, <3>2
    <3>3. CASE n = N + 1 /\ m \in 1 .. N
      BY <1>10, <1>11, <2>1, <3>3
    <3> QED
      BY <2>1, <2>3, <3>1, <3>2, <3>3
  <2>4. \A spend \in Key \X Nat : Used(b.old, spend) => Used(after, spend)
    BY <1>9, <1>12
  <2>5. c.old = b.old /\ c.new = after
    BY DEF after
  <2> QED
    BY <2>2, <2>3, <2>4, <2>5 DEF SpendsOnce
<1> QED
  BY <1>1, <1>6, <1>7, <1>13 DEF Faithful, after


LEMMA ReplayInit == Init => ReplayInv
<1> SUFFICES ASSUME Init PROVE ReplayInv
  OBVIOUS
<1>1. BuilderTree(EmptyTree)
  BY DEF BuilderTree, OneSlotEach, EmptyIsZero, EmptyTree, Empty
<1>2. Faithful(Batch(EmptyTree))
  BY <1>1, FreshFaithful
<1>3. root = EmptyTree /\ draft = Batch(EmptyTree) /\ proved = {} /\ DOMAIN landed = {}
  BY DEF Init
<1> QED
  BY <1>1, <1>2, <1>3, TypeInit DEF ReplayInv, HonestInv, SignedOnce

LEMMA ReplayStep == ReplayInv /\ [Next]_vars => ReplayInv'
<1> SUFFICES ASSUME ReplayInv, [Next]_vars, honest' PROVE HonestInv'
  BY TypeStep DEF ReplayInv, HonestInv
<1>0. TypeOK /\ TypeOK'
  BY TypeStep DEF ReplayInv
<1>a. ASSUME honest, UNCHANGED <<root, landed>>, \A b \in (proved \cup {draft})' : Faithful(b)
      PROVE  HonestInv'
  <2>1. HonestInv
    BY DEF ReplayInv
  <2>2. SignedOnce'
    BY <1>a, <2>1 DEF HonestInv, SignedOnce
  <2> QED
    BY <1>a, <2>1, <2>2 DEF HonestInv
<1>b. honest => BuilderTree(root) /\ \A b \in proved \cup {draft} : Faithful(b)
  BY DEF ReplayInv, HonestInv
<1>1. ASSUME NEW k \in AnyKey, NEW a \in Amounts, Deposit(k, a) PROVE HonestInv'
  BY <1>1, <1>a, <1>b DEF Deposit
<1>2. CASE BeginBatch
  <2>1. honest /\ Faithful(draft')
    BY <1>b, <1>2, FreshFaithful DEF BeginBatch
  <2> QED
    BY <1>2, <1>a, <1>b, <2>1 DEF BeginBatch
<1>3. ASSUME NEW d \in DepositClaims, NEW i \in Slot, ProveDeposit(d, i) PROVE HonestInv'
  <2>1. d \in QueueEntry /\ draft \in Batches
    BY <1>0, <1>3, ClaimIsEntry DEF ProveDeposit, TypeOK
  <2>2. honest /\ i \in BuilderSlot(draft.new, d.to) /\ draft.txs = <<>>
    BY <1>3 DEF ProveDeposit
  <2>3. DepositHolds(draft.new, d, i)
    BY <1>3 DEF ProveDeposit
  <2>4. /\ draft'.old = draft.old /\ draft'.new = AfterDeposit(draft.new, d, i)
        /\ draft'.deps = Append(draft.deps, d) /\ draft'.txs = draft.txs
    BY <1>3, <2>1, <2>3, DepositDraft DEF ProveDeposit
  <2>5. Faithful(draft')
    BY <1>b, <2>1, <2>2, <2>3, <2>4, DepositFaithful
  <2> QED
    BY <1>3, <1>a, <1>b, <2>2, <2>5 DEF ProveDeposit
<1>4. ASSUME NEW i \in Slot, NEW j \in Slot, NEW t \in SignedTx(draft.new, i), ProveTx(t, i, j)
      PROVE  HonestInv'
  <2>1. draft \in Batches /\ draft.new \in Tree
    BY <1>0 DEF TypeOK, Batches
  <2>2. TxHolds(draft.new, t, i, j)
    BY <1>4 DEF ProveTx
  <2>3. t \in Tx /\ (t.withdraw <=> t.to \in Dest)
    BY <2>1, <2>2, SignedIsTx
  <2>4. /\ draft'.old = draft.old /\ draft'.new = AfterTx(draft.new, t, i, j)
        /\ draft'.deps = draft.deps /\ draft'.txs = Append(draft.txs, t)
    BY <1>4, <2>1 DEF ProveTx, Batches
  <2>5. honest
    BY <1>4 DEF ProveTx
  <2>6. Faithful(draft')
    BY <1>b, <2>1, <2>2, <2>3, <2>4, <2>5, TxFaithful
  <2> QED
    BY <1>4, <1>a, <1>b, <2>5, <2>6 DEF ProveTx
<1>5. CASE Prove
  <2>1. honest /\ Faithful(draft')
    BY <1>b, <1>5, FreshFaithful DEF Prove
  <2> QED
    BY <1>5, <1>a, <1>b, <2>1 DEF Prove
<1>6. ASSUME NEW p \in proved, SubmitBatch(p) PROVE HonestInv'
  <2> DEFINE N == Len(landed)
  <2>1. landed \in Seq(Batches) /\ p \in Batches /\ p.txs \in Seq(Tx) /\ N \in Nat
    BY <1>0 DEF TypeOK, Batches
  <2>2. p.old = root /\ root' = p.new /\ landed' = Append(landed, p)
    BY <1>6, <2>1 DEF SubmitBatch, Accepts, PublicInputs
  <2>3. honest /\ proved' = proved /\ draft' = draft
    BY <1>6 DEF SubmitBatch
  <2>4. Faithful(p) /\ HonestInv
    BY <1>b, <2>3 DEF ReplayInv
  <2>5. /\ DOMAIN landed' = 1 .. N + 1 /\ DOMAIN landed = 1 .. N
        /\ landed'[N + 1] = p /\ \A b \in 1 .. N : landed'[b] = landed[b]
    BY <2>1, <2>2
  <2>6. \A b \in 1 .. N : \A n \in DOMAIN landed[b].txs :
          Spend(landed[b].txs[n]) \in Key \X Nat
    <3> SUFFICES ASSUME NEW b \in 1 .. N, NEW n \in DOMAIN landed[b].txs
                 PROVE  Spend(landed[b].txs[n]) \in Key \X Nat
      OBVIOUS
    <3>1. landed[b] \in Batches
      BY <2>1
    <3>2. landed[b].txs \in Seq(Tx)
      BY <3>1 DEF Batches
    <3>3. landed[b].txs[n] \in Tx
      BY <3>2
    <3> QED
      BY <3>3, SpendFacts
  <2> HIDE DEF N
  <2>7. /\ \A b \in 1 .. N : \A n \in DOMAIN landed[b].txs : Used(root, Spend(landed[b].txs[n]))
        /\ \A n \in DOMAIN p.txs : ~Used(root, Spend(p.txs[n])) /\ Used(root', Spend(p.txs[n]))
        /\ \A spend \in Key \X Nat : Used(root, spend) => Used(root', spend)
    BY <2>2, <2>3, <2>4, <2>5 DEF HonestInv, Faithful, SpendsOnce
  <2>8. ASSUME NEW b \in DOMAIN landed', NEW n \in DOMAIN landed'[b].txs
        PROVE  Used(root', Spend(landed'[b].txs[n]))
    <3>1. CASE b = N + 1
      BY <2>5, <2>7, <3>1
    <3>2. CASE b \in 1 .. N
      BY <2>5, <2>6, <2>7, <3>2
    <3> QED
      BY <2>1, <2>5, <3>1, <3>2 DEF N
  <2>9. ASSUME NEW b \in DOMAIN landed', NEW c \in DOMAIN landed',
               NEW m \in DOMAIN landed'[b].txs, NEW n \in DOMAIN landed'[c].txs,
               <<b, m>> # <<c, n>>
        PROVE  Spend(landed'[b].txs[m]) # Spend(landed'[c].txs[n])
    <3>1. CASE b \in 1 .. N /\ c \in 1 .. N
      BY <2>3, <2>4, <2>5, <2>9, <3>1 DEF HonestInv, SignedOnce
    <3>2. CASE b = N + 1 /\ c \in 1 .. N
      BY <2>5, <2>7, <3>2
    <3>3. CASE c = N + 1 /\ b \in 1 .. N
      BY <2>5, <2>7, <3>3
    <3>4. CASE b = N + 1 /\ c = N + 1
      BY <2>4, <2>5, <2>9, <3>4 DEF Faithful, SpendsOnce
    <3> QED
      BY <2>1, <2>5, <3>1, <3>2, <3>3, <3>4 DEF N
  <2>10. SignedOnce'
    BY <2>9 DEF SignedOnce
  <2>11. BuilderTree(root)' /\ \A b \in (proved \cup {draft})' : Faithful(b)
    BY <1>b, <2>2, <2>3, <2>4 DEF Faithful
  <2> QED
    BY <2>8, <2>10, <2>11 DEF HonestInv
<1>7. CASE UNCHANGED vars
  BY <1>7, <1>a, <1>b DEF vars
<1> QED
  BY <1>1, <1>2, <1>3, <1>4, <1>5, <1>6, <1>7 DEF Next

LEMMA ReplayAlways == Spec => []ReplayInv
<1> QED
  BY ReplayInit, ReplayStep, PTL DEF Spec

(* What confirm_batch and every verifier of a blob rely on, for every      *)
(* value of the constants: as long as deposits are proved in build_batch's *)
(* slots, build_batch run on the lists of a proved batch gives the root    *)
(* that was proved.                                                        *)
THEOREM ReplayAgrees == Spec => []ReplayRebuildsRoot
<1>1. ReplayInv => ReplayRebuildsRoot
  BY DEF ReplayInv, HonestInv, ReplayRebuildsRoot, Faithful, Replayed
<1> QED
  BY <1>1, ReplayAlways, PTL

(* A signed transaction takes effect at most once: no two entries of the   *)
(* batches that the contract applied spend the same nonce of a key, again  *)
(* as long as deposits are proved in build_batch's slots.                  *)
THEOREM NoNonceTwice == Spec => []SignedOnce
<1>1. ReplayInv => SignedOnce
  BY DEF ReplayInv, HonestInv, SignedOnce
<1> QED
  BY <1>1, ReplayAlways, PTL

(* A transfer to the padding key finds no recipient.                       *)
LEMMA NobodyPaysPadding ==
  ASSUME NEW tree \in Tree, NEW s \in Slot, NEW t \in SignedTx(tree, s),
         ApplyTx(tree, t).error = "none"
  PROVE  t.to # PadKey
<1> SUFFICES ASSUME t.to = PadKey PROVE FALSE
  OBVIOUS
<1>1. ~t.withdraw
  BY CircuitAssumption DEF SignedTx
<1>2. \A i \in Slot : Debit(tree, t)[i].pk = tree[i].pk
  BY DEF Debit, Tree, Account
<1>3. ~Holds(Debit(tree, t), PadKey)
  BY <1>2, CircuitAssumption DEF Holds, Find, Lowest, Tree, Account
<1>4. ApplyTx(tree, t) = Refused(tree, "RecipientNotFound") \/ ApplyTx(tree, t).error # "none"
  BY <1>1, <1>3 DEF ApplyTx, Transfer, Refused
<1> QED
  BY <1>4 DEF Refused

(* What build_batch applies, the circuit proves: in the slots that it      *)
(* takes, and to the same tree, as long as deposits were proved in those   *)
(* slots and for the recipients that submit_tx admits.                     *)
THEOREM BuiltIsProvable == Spec => []BuilderProvable
<1>1. ASSUME ReplayInv PROVE BuilderProvable
  <2> SUFFICES ASSUME honest, NEW tree \in {root, draft.new}
               PROVE  /\ \A d \in [to : Key, amount : Amounts] :
                           LET out == ApplyDeposit(tree, d) IN
                           out.error = "none" =>
                             \E i \in BuilderSlot(tree, d.to) :
                               DepositHolds(tree, d, i) /\ out.tree = AfterDeposit(tree, d, i)
                      /\ \A s \in Slot : tree[s].pk # NoKey => \A t \in SignedTx(tree, s) : t.to # NoKey =>
                           LET out == ApplyTx(tree, t) IN
                           out.error = "none" =>
                             \E i \in Find(tree, t.from), j \in Slot :
                               /\ t.withdraw \/ j \in Find(tree, t.to)
                               /\ TxHolds(tree, t, i, j) /\ out.tree = AfterTx(tree, t, i, j)
    BY DEF BuilderProvable
  <2>1. tree \in Tree
    BY <1>1 DEF ReplayInv, TypeOK, Batches
  <2>2. BuilderTree(tree)
    BY <1>1 DEF ReplayInv, HonestInv, Faithful
  <2>3. ASSUME NEW d \in [to : Key, amount : Amounts], NEW out, out = ApplyDeposit(tree, d),
               out.error = "none"
        PROVE  \E i \in BuilderSlot(tree, d.to) :
                 DepositHolds(tree, d, i) /\ out.tree = AfterDeposit(tree, d, i)
    <3>1. d \in QueueEntry /\ d.amount <= MaxBalance
      BY RollupAssumption DEF QueueEntry
    <3>2. out # Refused(tree, "TreeFull") /\ out # Refused(tree, "BalanceOverflow")
      BY <2>3 DEF Refused
    <3>3. PICK i \in BuilderSlot(tree, d.to) : TRUE
      BY <2>1, <2>2, <2>3, <3>1, <3>2, BuilderDeposit
    <3>4. DepositHolds(tree, d, i) /\ out = Ok(AfterDeposit(tree, d, i))
      BY <2>1, <2>2, <2>3, <3>1, <3>2, <3>3, BuilderDeposit
    <3> QED
      BY <3>4 DEF Ok
  <2>4. ASSUME NEW s \in Slot, tree[s].pk # NoKey, NEW t \in SignedTx(tree, s),
               t.to # NoKey, NEW out, out = ApplyTx(tree, t), out.error = "none"
        PROVE  \E i \in Find(tree, t.from), j \in Slot :
                 /\ t.withdraw \/ j \in Find(tree, t.to)
                 /\ TxHolds(tree, t, i, j) /\ out.tree = AfterTx(tree, t, i, j)
    <3>1. t \in Tx /\ (t.withdraw <=> t.to \in Dest)
      <4>1. tree[s].pk \in Key /\ tree[s].nonce \in Nat
        BY <2>1, <2>4 DEF Tree, Account
      <4>2. t.to # PadKey
        BY <2>1, <2>4, NobodyPaysPadding
      <4> QED
        BY <2>4, <4>1, <4>2, RollupAssumption DEF SignedTx, AnyKey, Tx
    <3> QED
      BY <2>1, <2>2, <2>4, <3>1, BuilderTx DEF BuilderTree
  <2> QED
    BY <2>3, <2>4
<1> QED
  BY <1>1, ReplayAlways, PTL
=============================================================================

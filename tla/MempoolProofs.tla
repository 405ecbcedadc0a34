---------------------------- MODULE MempoolProofs ----------------------------
(***************************************************************************)
(* Admission and build agree, for every value of the constants: the        *)
(* invariant of MempoolInv is inductive, and the properties of Mempool     *)
(* follow from it.                                                         *)
(***************************************************************************)
EXTENDS MempoolInv, AccountsProofs

-----------------------------------------------------------------------------
(* Ranks.                                                                  *)

LEMMA FiniteIds ==
  ASSUME NEW n \in Nat, NEW S \in SUBSET (1 .. n)
  PROVE  IsFiniteSet(S) /\ Cardinality(S) \in Nat
<1>1. IsFiniteSet(1 .. n)
  BY FS_Interval
<1>2. IsFiniteSet(S)
  BY <1>1, FS_Subset
<1> QED
  BY <1>2, FS_CardinalityType

(* Ranks count from 0, follow the order, and leave none out.               *)
LEMMA RankType ==
  ASSUME NEW S \in SUBSET Nat, IsFiniteSet(S), NEW x
  PROVE  /\ Rank(S, x) \in Nat
         /\ x \in S => Rank(S, x) < Cardinality(S)
         /\ Rank(S, x) <= Cardinality(S)
<1> DEFINE B == {y \in S : y < x}
<1>1. B \in SUBSET S
  OBVIOUS
<1>2. IsFiniteSet(B) /\ Cardinality(B) <= Cardinality(S) /\ (Cardinality(S) = Cardinality(B) => S = B)
  BY <1>1, FS_Subset
<1>3. Cardinality(B) \in Nat /\ Cardinality(S) \in Nat
  BY <1>2, FS_CardinalityType
<1>4. x \in S => x \notin B
  OBVIOUS
<1> QED
  BY <1>2, <1>3, <1>4 DEF Rank

LEMMA RankOrder ==
  ASSUME NEW S \in SUBSET Nat, IsFiniteSet(S), NEW x \in S, NEW y \in Nat, x < y
  PROVE  Rank(S, x) < Rank(S, y)
<1> DEFINE B == {z \in S : z < x}
           C == {z \in S : z < y}
<1>a. \A z \in S : z \in Nat /\ (z < x => z < y) /\ ~ (x < x)
  <2>1. x \in Nat
    OBVIOUS
  <2>2. ASSUME NEW z \in S PROVE z \in Nat
    OBVIOUS
  <2> QED
    BY <2>1, <2>2
<1>1. B \in SUBSET C /\ x \in C /\ x \notin B /\ C \in SUBSET S
  BY <1>a
<1>2. IsFiniteSet(C)
  BY <1>1, FS_Subset
<1>3. IsFiniteSet(B) /\ Cardinality(B) <= Cardinality(C) /\ (Cardinality(C) = Cardinality(B) => C = B)
  BY <1>1, <1>2, FS_Subset
<1>4. Cardinality(B) \in Nat /\ Cardinality(C) \in Nat
  BY <1>2, <1>3, FS_CardinalityType
<1> QED
  BY <1>1, <1>3, <1>4 DEF Rank

LEMMA RankInjective ==
  ASSUME NEW S \in SUBSET Nat, IsFiniteSet(S), NEW x \in S, NEW y \in S
  PROVE  /\ Rank(S, x) = Rank(S, y) => x = y
         /\ Rank(S, x) < Rank(S, y) <=> x < y
<1>1. Rank(S, x) \in Nat /\ Rank(S, y) \in Nat
  BY RankType
<1>2. x < y => Rank(S, x) < Rank(S, y)
  BY RankOrder
<1>3. y < x => Rank(S, y) < Rank(S, x)
  BY RankOrder
<1>4. x \in Nat /\ y \in Nat
  OBVIOUS
<1> QED
  BY <1>1, <1>2, <1>3, <1>4

LEMMA RankOnto ==
  ASSUME NEW S \in SUBSET Nat, IsFiniteSet(S), NEW r \in Nat, r < Cardinality(S)
  PROVE  \E x \in S : Rank(S, x) = r
<1> DEFINE n == Cardinality(S)
           R == 0 .. n - 1
           f == [x \in S |-> Rank(S, x)]
<1>1. n \in Nat
  BY FS_CardinalityType
<1>2. IsFiniteSet(R) /\ Cardinality(R) = n
  <2> HIDE DEF n
  <2> QED
    BY <1>1, FS_Interval
<1>3. f \in [S -> R]
  BY <1>1, RankType
<1>4. \A x, y \in S : f[x] = f[y] => x = y
  BY RankInjective
<1>5. f \in Injection(S, R)
  BY <1>3, <1>4 DEF Injection, IsInjective
<1>6. f \in Surjection(S, R)
  <2> HIDE DEF f, R
  <2> QED
    BY <1>2, <1>5, FS_Injection
<1>7. r \in R
  BY <1>1
<1> QED
  BY <1>6, <1>7 DEF Surjection

(* A new number ranks last and leaves the other ranks as they are.         *)
LEMMA RankLast ==
  ASSUME NEW S \in SUBSET Nat, NEW z \in Nat, \A y \in S : y < z
  PROVE  /\ Rank(S, z) = Cardinality(S)
         /\ Rank(S \cup {z}, z) = Cardinality(S)
         /\ \A x \in S : Rank(S \cup {z}, x) = Rank(S, x)
<1>0. ~ (z < z)
  OBVIOUS
<1>1. {y \in S : y < z} = S /\ {y \in S \cup {z} : y < z} = S
  BY <1>0
<1>2. ASSUME NEW x \in S PROVE {y \in S \cup {z} : y < x} = {y \in S : y < x}
  <2>1. x \in Nat /\ x < z
    OBVIOUS
  <2>2. ~ (z < x)
    BY <2>1
  <2> QED
    BY <2>2
<1> QED
  BY <1>1, <1>2 DEF Rank

(* The list of a set, and its beginnings.                                  *)
LEMMA InOrderFacts ==
  ASSUME NEW S \in SUBSET Nat, IsFiniteSet(S)
  PROVE  \A i \in 1 .. Cardinality(S) : InOrder(S)[i] \in S /\ Rank(S, InOrder(S)[i]) = i - 1
<1>1. TAKE i \in 1 .. Cardinality(S)
<1>2. i - 1 \in Nat /\ i - 1 < Cardinality(S)
  BY FS_CardinalityType
<1>3. \E x \in S : Rank(S, x) = i - 1
  BY <1>2, RankOnto
<1> QED
  BY <1>3 DEF InOrder

LEMMA FirstOfFacts ==
  ASSUME NEW S \in SUBSET Nat, IsFiniteSet(S)
  PROVE  /\ \A k \in Int : k <= 0 => FirstOf(S, k) = {}
         /\ \A k \in Int : k >= Cardinality(S) => FirstOf(S, k) = S
         /\ \A k \in 1 .. Cardinality(S) :
              /\ InOrder(S)[k] \notin FirstOf(S, k - 1)
              /\ FirstOf(S, k) = FirstOf(S, k - 1) \cup {InOrder(S)[k]}
<1>1. \A x \in S : Rank(S, x) \in Nat /\ Rank(S, x) < Cardinality(S)
  BY RankType
<1>2. Cardinality(S) \in Nat
  BY FS_CardinalityType
<1>3. ASSUME NEW k \in 1 .. Cardinality(S)
      PROVE  /\ InOrder(S)[k] \notin FirstOf(S, k - 1)
             /\ FirstOf(S, k) = FirstOf(S, k - 1) \cup {InOrder(S)[k]}
  <2> DEFINE z == InOrder(S)[k]
  <2>1. z \in S /\ Rank(S, z) = k - 1
    BY InOrderFacts
  <2>2. \A x \in S : Rank(S, x) = k - 1 => x = z
    BY <2>1, RankInjective
  <2> HIDE DEF z
  <2>3. \A x \in S : Rank(S, x) < k <=> Rank(S, x) < k - 1 \/ x = z
    BY <1>1, <1>2, <2>1, <2>2
  <2>4. z \notin FirstOf(S, k - 1)
    <3>1. ~ (k - 1 < k - 1)
      BY <1>2
    <3> QED
      BY <2>1, <3>1 DEF FirstOf
  <2>5. FirstOf(S, k) = FirstOf(S, k - 1) \cup {z}
    BY <2>1, <2>3 DEF FirstOf
  <2> QED
    BY <2>4, <2>5 DEF z
<1>4. ASSUME NEW k \in Int, k <= 0 PROVE FirstOf(S, k) = {}
  <2>1. \A x \in S : ~ (Rank(S, x) < k)
    BY <1>1, <1>4
  <2> QED
    BY <2>1 DEF FirstOf
<1>5. ASSUME NEW k \in Int, k >= Cardinality(S) PROVE FirstOf(S, k) = S
  <2>1. \A x \in S : Rank(S, x) < k
    BY <1>1, <1>2, <1>5
  <2> QED
    BY <2>1 DEF FirstOf
<1> QED
  BY <1>3, <1>4, <1>5

-----------------------------------------------------------------------------
(* Ledgers.                                                                *)

LEMMA DepRows ==
  ASSUME NEW deps \in Seq(DepRow), NEW D \in SUBSET DOMAIN deps
  PROVE  /\ Priced(deps, D) /\ D \in SUBSET Nat /\ IsFiniteSet(D)
         /\ \A d \in D : deps[d].to \in Key /\ deps[d].amount \in Nat \ {0}
<1>1. DOMAIN deps = 1 .. Len(deps) /\ Len(deps) \in Nat
  OBVIOUS
<1>2. IsFiniteSet(D)
  BY <1>1, FiniteIds
<1>3. \A d \in D : deps[d] \in DepRow
  BY <1>1
<1>4. \A d \in D : deps[d].to \in Key /\ deps[d].amount \in Nat \ {0}
  BY <1>3 DEF DepRow
<1>5. \A d \in D : deps[d].amount \in Nat
  BY <1>4
<1> QED
  BY <1>1, <1>2, <1>4, <1>5 DEF Priced

LEMMA TxRows ==
  ASSUME NEW rows \in Seq(TxRow), NEW X \in SUBSET DOMAIN rows
  PROVE  /\ Priced(rows, X) /\ X \in SUBSET Nat /\ IsFiniteSet(X)
         /\ \A t \in X : /\ rows[t].from \in Key /\ rows[t].amount \in Nat \ {0}
                         /\ rows[t].to \in Key \cup {NoKey} /\ rows[t].withdraw \in BOOLEAN
                         /\ rows[t].nonce \in Nat
<1>1. DOMAIN rows = 1 .. Len(rows) /\ Len(rows) \in Nat
  OBVIOUS
<1>2. IsFiniteSet(X)
  BY <1>1, FiniteIds
<1>3. \A t \in X : rows[t] \in TxRow
  BY <1>1
<1>4. \A t \in X : /\ rows[t].from \in Key /\ rows[t].amount \in Nat \ {0}
                   /\ rows[t].to \in Key \cup {NoKey} /\ rows[t].withdraw \in BOOLEAN
                   /\ rows[t].nonce \in Nat
  BY <1>3 DEF TxRow
<1>5. \A t \in X : rows[t].amount \in Nat
  BY <1>4
<1> QED
  BY <1>1, <1>2, <1>4, <1>5 DEF Priced

(* One more row.                                                           *)
LEMMA DepositCounted ==
  ASSUME NEW deps \in Seq(DepRow), NEW D \in SUBSET DOMAIN deps,
         NEW d \in DOMAIN deps \ D, NEW k
  PROVE  /\ Value(deps, D \cup {d}) = Value(deps, D) + deps[d].amount
         /\ deps[d].to = k =>
              Value(deps, DepsTo(deps, D \cup {d}, k))
                = Value(deps, DepsTo(deps, D, k)) + deps[d].amount
         /\ deps[d].to # k => DepsTo(deps, D \cup {d}, k) = DepsTo(deps, D, k)
         /\ Value(deps, D) \in Nat /\ Value(deps, DepsTo(deps, D, k)) \in Nat
<1> DEFINE E == DepsTo(deps, D, k)
<1>1. E \in SUBSET DOMAIN deps /\ d \notin E
  BY DEF DepsTo
<1>2. Priced(deps, D) /\ Priced(deps, E) /\ deps[d].amount \in Nat
  <2> HIDE DEF E
  <2>1. d \in DOMAIN deps
    OBVIOUS
  <2> QED
    BY <1>1, <2>1, DepRows, {d} \in SUBSET DOMAIN deps
<1>3. /\ deps[d].to = k => DepsTo(deps, D \cup {d}, k) = E \cup {d}
      /\ deps[d].to # k => DepsTo(deps, D \cup {d}, k) = E
  BY DEF DepsTo
<1> HIDE DEF E
<1>4. Value(deps, D \cup {d}) = Value(deps, D) + deps[d].amount
  BY <1>2, ValueAdd
<1>5. Value(deps, E \cup {d}) = Value(deps, E) + deps[d].amount
  BY <1>1, <1>2, ValueAdd
<1>6. Value(deps, E) \in Nat /\ Value(deps, D) \in Nat
  BY <1>2, ValueType
<1> QED
  BY <1>3, <1>4, <1>5, <1>6 DEF E

LEMMA RowCounted ==
  ASSUME NEW rows \in Seq(TxRow), NEW E \in SUBSET DOMAIN rows, NEW t \in DOMAIN rows \ E
  PROVE  /\ Value(rows, E \cup {t}) = Value(rows, E) + rows[t].amount
         /\ Cardinality(E \cup {t}) = Cardinality(E) + 1
<1>1. Priced(rows, E) /\ IsFiniteSet(E)
  BY TxRows
<1>2. rows[t].amount \in Nat
  BY TxRows, {t} \in SUBSET DOMAIN rows
<1>3. Value(rows, E \cup {t}) = Value(rows, E) + rows[t].amount
  BY <1>1, <1>2, ValueAdd
<1> QED
  BY <1>1, <1>3, FS_AddElement

LEMMA RowNumbers ==
  ASSUME NEW rows \in Seq(TxRow), NEW X \in SUBSET DOMAIN rows, NEW k
  PROVE  /\ Cardinality(TxsBy(rows, X, k)) \in Nat
         /\ Value(rows, TxsBy(rows, X, k)) \in Nat /\ Value(rows, TxsTo(rows, X, k)) \in Nat
         /\ Value(rows, Withdrawn(rows, X)) \in Nat
<1>1. ASSUME NEW E \in SUBSET X
      PROVE  Value(rows, E) \in Nat /\ Cardinality(E) \in Nat
  <2>1. Priced(rows, E) /\ IsFiniteSet(E)
    BY TxRows
  <2> QED
    BY <2>1, ValueType, FS_CardinalityType
<1>2. TxsBy(rows, X, k) \in SUBSET X
  BY DEF TxsBy
<1>3. TxsTo(rows, X, k) \in SUBSET X
  BY DEF TxsTo
<1>4. Withdrawn(rows, X) \in SUBSET X
  BY DEF Withdrawn
<1> QED
  BY <1>1, <1>2, <1>3, <1>4

LEMMA TxByCounted ==
  ASSUME NEW rows \in Seq(TxRow), NEW X \in SUBSET DOMAIN rows,
         NEW t \in DOMAIN rows \ X, NEW k
  PROVE  /\ rows[t].from = k =>
              /\ Cardinality(TxsBy(rows, X \cup {t}, k)) = Cardinality(TxsBy(rows, X, k)) + 1
              /\ Value(rows, TxsBy(rows, X \cup {t}, k))
                   = Value(rows, TxsBy(rows, X, k)) + rows[t].amount
         /\ rows[t].from # k => TxsBy(rows, X \cup {t}, k) = TxsBy(rows, X, k)
<1>1. TxsBy(rows, X, k) \in SUBSET DOMAIN rows /\ t \in DOMAIN rows \ TxsBy(rows, X, k)
  BY DEF TxsBy
<1>2. /\ rows[t].from = k => TxsBy(rows, X \cup {t}, k) = TxsBy(rows, X, k) \cup {t}
      /\ rows[t].from # k => TxsBy(rows, X \cup {t}, k) = TxsBy(rows, X, k)
  BY DEF TxsBy
<1> QED
  BY <1>1, <1>2, RowCounted

LEMMA TxToCounted ==
  ASSUME NEW rows \in Seq(TxRow), NEW X \in SUBSET DOMAIN rows,
         NEW t \in DOMAIN rows \ X, NEW k
  PROVE  /\ rows[t].to = k =>
              Value(rows, TxsTo(rows, X \cup {t}, k))
                = Value(rows, TxsTo(rows, X, k)) + rows[t].amount
         /\ rows[t].to # k => TxsTo(rows, X \cup {t}, k) = TxsTo(rows, X, k)
<1>1. TxsTo(rows, X, k) \in SUBSET DOMAIN rows /\ t \in DOMAIN rows \ TxsTo(rows, X, k)
  BY DEF TxsTo
<1>2. /\ rows[t].to = k => TxsTo(rows, X \cup {t}, k) = TxsTo(rows, X, k) \cup {t}
      /\ rows[t].to # k => TxsTo(rows, X \cup {t}, k) = TxsTo(rows, X, k)
  BY DEF TxsTo
<1> QED
  BY <1>1, <1>2, RowCounted

LEMMA WithdrawalCounted ==
  ASSUME NEW rows \in Seq(TxRow), NEW X \in SUBSET DOMAIN rows, NEW t \in DOMAIN rows \ X
  PROVE  /\ rows[t].withdraw =>
              Value(rows, Withdrawn(rows, X \cup {t}))
                = Value(rows, Withdrawn(rows, X)) + rows[t].amount
         /\ ~rows[t].withdraw => Withdrawn(rows, X \cup {t}) = Withdrawn(rows, X)
<1>1. Withdrawn(rows, X) \in SUBSET DOMAIN rows /\ t \in DOMAIN rows \ Withdrawn(rows, X)
  BY DEF Withdrawn
<1>2. /\ rows[t].withdraw => Withdrawn(rows, X \cup {t}) = Withdrawn(rows, X) \cup {t}
      /\ ~rows[t].withdraw => Withdrawn(rows, X \cup {t}) = Withdrawn(rows, X)
  BY DEF Withdrawn
<1> QED
  BY <1>1, <1>2, RowCounted

(* A ledger depends on who moved what only.                                *)
LEMMA LedgerSame ==
  ASSUME NEW T, NEW deps, NEW deps2, NEW D, NEW rows, NEW rows2, NEW X,
         \A d \in D : deps[d].to = deps2[d].to /\ deps[d].amount = deps2[d].amount,
         \A t \in X : /\ rows[t].from = rows2[t].from /\ rows[t].to = rows2[t].to
                      /\ rows[t].amount = rows2[t].amount /\ rows[t].withdraw = rows2[t].withdraw,
         Ledger(T, deps, D, rows, X)
  PROVE  Ledger(T, deps2, D, rows2, X)
<1>1. \A k : DepsTo(deps, D, k) = DepsTo(deps2, D, k)
  BY DEF DepsTo
<1>2. \A k : TxsTo(rows, X, k) = TxsTo(rows2, X, k) /\ TxsBy(rows, X, k) = TxsBy(rows2, X, k)
  BY DEF TxsTo, TxsBy
<1>3. Withdrawn(rows, X) = Withdrawn(rows2, X)
  BY DEF Withdrawn
<1>4. ASSUME NEW E \in SUBSET D PROVE Value(deps, E) = Value(deps2, E)
  BY ValueSame
<1>5. ASSUME NEW E \in SUBSET X PROVE Value(rows, E) = Value(rows2, E)
  BY ValueSame
<1>6. \A k : /\ Value(deps, DepsTo(deps, D, k)) = Value(deps2, DepsTo(deps2, D, k))
             /\ Value(rows, TxsTo(rows, X, k)) = Value(rows2, TxsTo(rows2, X, k))
             /\ Value(rows, TxsBy(rows, X, k)) = Value(rows2, TxsBy(rows2, X, k))
  <2> TAKE k
  <2>1. DepsTo(deps, D, k) \in SUBSET D
    BY DEF DepsTo
  <2>2. TxsTo(rows, X, k) \in SUBSET X /\ TxsBy(rows, X, k) \in SUBSET X
    BY DEF TxsTo, TxsBy
  <2> QED
    BY <1>1, <1>2, <1>4, <1>5, <2>1, <2>2
<1>7. /\ Value(deps, D) = Value(deps2, D)
      /\ Value(rows, Withdrawn(rows, X)) = Value(rows2, Withdrawn(rows2, X))
  <2>1. Withdrawn(rows, X) \in SUBSET X
    BY DEF Withdrawn
  <2> QED
    BY <1>3, <1>4, <1>5, <2>1, D \in SUBSET D
<1>8. \A a, k : Explains(a, k, deps, D, rows, X) => Explains(a, k, deps2, D, rows2, X)
  BY <1>2, <1>6 DEF Explains
<1> QED
  BY <1>1, <1>7, <1>8 DEF Ledger

(* What a ledger's tree holds, and of what parts.                          *)
LEMMA LedgerNumbers ==
  ASSUME NEW T \in Tree, NEW deps \in Seq(DepRow), NEW D \in SUBSET DOMAIN deps,
         NEW rows \in Seq(TxRow), NEW X \in SUBSET DOMAIN rows,
         Ledger(T, deps, D, rows, X)
  PROVE  /\ Total(T) \in Nat /\ \A i \in Slot : T[i].balance \in Nat /\ T[i].balance <= Total(T)
         /\ Value(deps, D) \in Nat /\ Value(rows, Withdrawn(rows, X)) \in Nat
         /\ Total(T) <= Value(deps, D)
<1>1. Withdrawn(rows, X) \in SUBSET DOMAIN rows
  BY DEF Withdrawn
<1>2. Value(deps, D) \in Nat /\ Value(rows, Withdrawn(rows, X)) \in Nat
  BY <1>1, DepRows, TxRows, ValueType
<1>3. Total(T) \in Nat /\ \A i \in Slot : T[i].balance <= Total(T)
  BY TotalType
<1>4. \A i \in Slot : T[i].balance \in Nat
  BY AccountsAssumption DEF Tree, Account
<1>5. Total(T) + Value(rows, Withdrawn(rows, X)) = Value(deps, D)
  BY DEF Ledger
<1> QED
  BY <1>2, <1>3, <1>4, <1>5

(* A deposit that build_batch accepts leads from ledger to ledger, and it  *)
(* is refused for want of a slot only, as long as the total is in bounds.  *)
LEMMA DepositLedger ==
  ASSUME NEW T \in Tree, NEW deps \in Seq(DepRow), NEW D \in SUBSET DOMAIN deps,
         NEW rows \in Seq(TxRow), NEW X \in SUBSET DOMAIN rows,
         Ledger(T, deps, D, rows, X), WellFormed(rows),
         NEW d \in DOMAIN deps \ D, Total(T) + deps[d].amount <= MaxBalance,
         NEW out, out = ApplyDeposit(T, deps[d])
  PROVE  \/ out.error = "TreeFull"
         \/ /\ out.error = "none" /\ out.tree \in Tree
            /\ Ledger(out.tree, deps, D \cup {d}, rows, X)
<1> DEFINE k == deps[d].to
           amount == deps[d].amount
<1>1. k \in Key /\ amount \in Nat /\ k # NoKey
  BY DepRows, {d} \in SUBSET DOMAIN deps, AccountsAssumption
<1>2. Total(T) \in Nat /\ \A i \in Slot : T[i].balance \in Nat /\ T[i].balance <= Total(T)
  BY LedgerNumbers
<1>3. MaxBalance \in Nat
  BY AccountsAssumption
<1>c. /\ Value(deps, DepsTo(deps, D \cup {d}, k)) = Value(deps, DepsTo(deps, D, k)) + amount
      /\ Value(deps, DepsTo(deps, D, k)) \in Nat
  <2>1. \A q : /\ Value(deps, DepsTo(deps, D, q)) \in Nat
               /\ deps[d].to = q =>
                    Value(deps, DepsTo(deps, D \cup {d}, q))
                      = Value(deps, DepsTo(deps, D, q)) + deps[d].amount
    BY DepositCounted
  <2> QED
    BY <2>1
<1>o. ASSUME NEW q, q # k
      PROVE  DepsTo(deps, D \cup {d}, q) = DepsTo(deps, D, q)
  BY <1>o DEF DepsTo
<1>k. \A q : DepsTo(deps, D \cup {d}, q) # {} <=> DepsTo(deps, D, q) # {} \/ k = q
  BY DEF DepsTo
<1>v. Value(deps, D \cup {d}) = Value(deps, D) + amount
  BY DepositCounted
<1>4. \/ /\ out.error = "none"
         /\ \E i \in Slot : T[i].pk = k /\ out.tree = Raised(T, i, amount)
      \/ /\ out.error = "none" /\ ~Holds(T, k)
         /\ \E i \in Slot : T[i].pk = NoKey /\ out.tree = Opened(T, i, deps[d])
      \/ out.error = "TreeFull"
  <2>1. \A i \in Slot : ~ (T[i].balance + amount > MaxBalance)
    BY <1>1, <1>2, <1>3
  <2> QED
    BY <1>1, <2>1, DepositOutcome
(* The new tree in general: slot i gets the account a.                     *)
<1>5. ASSUME NEW i \in Slot, NEW a \in Account,
             out.error = "none", out.tree = [T EXCEPT ![i] = a],
             a.pk = k, T[i].pk \in {NoKey, k},
             T[i].pk = NoKey => ~Holds(T, k),
             a.balance = T[i].balance + amount,
             Explains(a, k, deps, D \cup {d}, rows, X)
      PROVE  out.tree \in Tree /\ Ledger(out.tree, deps, D \cup {d}, rows, X)
  <2> DEFINE U == out.tree
  <2>1. U \in Tree /\ Total(U) = Total(T) - T[i].balance + a.balance
    BY <1>5, TotalSet
  <2>2. \A s \in Slot : U[s] = IF s = i THEN a ELSE T[s]
    BY <1>5 DEF Tree
  <2>3. \A s \in Slot : s # i => T[s].pk # k
    <3>1. CASE T[i].pk = k
      BY <1>1, <3>1 DEF Ledger, OneSlotEach
    <3>2. CASE T[i].pk = NoKey
      BY <1>5, <3>2, FindOne
    <3> QED
      BY <1>5, <3>1, <3>2
  <2> HIDE DEF U
  <2>4. OneSlotEach(U)
    BY <1>5, <2>2, <2>3 DEF Ledger, OneSlotEach
  <2>5. ASSUME NEW s \in Slot
        PROVE  IF U[s].pk = NoKey THEN U[s].balance = 0
               ELSE Explains(U[s], U[s].pk, deps, D \cup {d}, rows, X)
    <3>1. CASE s = i
      BY <1>1, <1>5, <2>2, <3>1
    <3>2. CASE s # i
      <4>1. U[s] = T[s] /\ T[s].pk # k
        BY <2>2, <2>3, <3>2
      <4>2. IF T[s].pk = NoKey THEN T[s].balance = 0
            ELSE Explains(T[s], T[s].pk, deps, D, rows, X)
        BY DEF Ledger
      <4>3. CASE T[s].pk = NoKey
        BY <4>1, <4>2, <4>3
      <4>4. CASE T[s].pk # NoKey
        <5>1. Explains(T[s], T[s].pk, deps, D, rows, X)
          BY <4>2, <4>4
        <5>2. DepsTo(deps, D \cup {d}, T[s].pk) = DepsTo(deps, D, T[s].pk)
          BY <1>o, <4>1
        <5> QED
          BY <4>1, <4>4, <5>1, <5>2 DEF Explains
      <4> QED
        BY <4>3, <4>4
    <3> QED
      BY <3>1, <3>2
  <2>6. ASSUME NEW q, q # NoKey PROVE Holds(U, q) <=> Holds(T, q) \/ q = k
    <3>1. Holds(U, q) <=> \E s \in Slot : U[s].pk = q
      BY FindOne
    <3>2. Holds(T, q) <=> \E s \in Slot : T[s].pk = q
      BY FindOne
    <3> QED
      BY <1>5, <2>2, <2>6, <3>1, <3>2
  <2>7. \A q \in Key : Holds(U, q) <=> DepsTo(deps, D \cup {d}, q) # {}
    BY <1>k, <2>6, AccountsAssumption DEF Ledger
  <2>8. \A t \in X : /\ Holds(U, rows[t].from)
                     /\ rows[t].withdraw \/ Holds(U, rows[t].to)
    <3> TAKE t \in X
    <3>1. Holds(T, rows[t].from) /\ (rows[t].withdraw \/ Holds(T, rows[t].to))
      BY DEF Ledger
    <3>2. rows[t].from \in Key /\ rows[t].from # NoKey
      BY TxRows, AccountsAssumption
    <3>3. rows[t].withdraw <=> rows[t].to = NoKey
      BY DEF WellFormed
    <3> QED
      BY <2>6, <3>1, <3>2, <3>3
  <2>9. Total(U) + Value(rows, Withdrawn(rows, X)) = Value(deps, D \cup {d})
    <3>1. Total(T) + Value(rows, Withdrawn(rows, X)) = Value(deps, D)
      BY DEF Ledger
    <3>2. Value(rows, Withdrawn(rows, X)) \in Nat /\ Value(deps, D) \in Nat
      BY LedgerNumbers
    <3>3. T[i].balance \in Nat
      BY <1>2
    <3>4. Total(U) = Total(T) + amount
      BY <1>1, <1>2, <1>5, <2>1, <3>3 DEF U
    <3> QED
      BY <1>1, <1>2, <1>v, <3>1, <3>2, <3>4
  <2> QED
    BY <2>1, <2>4, <2>5, <2>7, <2>8, <2>9 DEF U, Ledger
<1>6. ASSUME NEW i \in Slot, out.error = "none", T[i].pk = k, out.tree = Raised(T, i, amount)
      PROVE  out.tree \in Tree /\ Ledger(out.tree, deps, D \cup {d}, rows, X)
  <2> DEFINE a == [pk |-> T[i].pk, balance |-> T[i].balance + amount, nonce |-> T[i].nonce]
  <2>1. T[i] \in Account
    BY DEF Tree
  <2>2. T[i].balance + amount \in 0 .. MaxBalance
    BY <1>1, <1>2, <1>3
  <2>3. a \in Account
    BY <1>1, <1>6, <2>1, <2>2 DEF Account
  <2>4. Explains(T[i], k, deps, D, rows, X)
    BY <1>1, <1>6 DEF Ledger
  <2>5. /\ Value(deps, DepsTo(deps, D \cup {d}, k)) = Value(deps, DepsTo(deps, D, k)) + amount
        /\ Value(deps, DepsTo(deps, D, k)) \in Nat
    BY <1>c
  <2>6. Value(rows, TxsBy(rows, X, k)) \in Nat /\ Value(rows, TxsTo(rows, X, k)) \in Nat
    <3>1. TxsBy(rows, X, k) \in SUBSET DOMAIN rows /\ TxsTo(rows, X, k) \in SUBSET DOMAIN rows
      BY DEF TxsBy, TxsTo
    <3> QED
      BY <3>1, TxRows, ValueType
  <2>7. Explains(a, k, deps, D \cup {d}, rows, X)
    <3>1. a.nonce = T[i].nonce /\ a.balance = T[i].balance + amount /\ T[i].balance \in Nat
      BY <1>2
    <3>2. /\ T[i].nonce = Cardinality(TxsBy(rows, X, k))
          /\ T[i].balance + Value(rows, TxsBy(rows, X, k))
               = Value(deps, DepsTo(deps, D, k)) + Value(rows, TxsTo(rows, X, k))
      BY <2>4 DEF Explains
    <3>3. a.balance + Value(rows, TxsBy(rows, X, k))
            = Value(deps, DepsTo(deps, D \cup {d}, k)) + Value(rows, TxsTo(rows, X, k))
      BY <1>1, <2>5, <2>6, <3>1, <3>2
    <3> QED
      BY <3>1, <3>2, <3>3 DEF Explains
  <2>8. /\ out.tree = [T EXCEPT ![i] = a]
        /\ a.pk = k /\ T[i].pk \in {NoKey, k} /\ T[i].pk # NoKey
        /\ a.balance = T[i].balance + amount
    BY <1>1, <1>6 DEF Raised
  <2> HIDE DEF a, k, amount
  <2> QED
    BY <1>5, <1>6, <2>3, <2>7, <2>8
<1>7. ASSUME NEW i \in Slot, out.error = "none", ~Holds(T, k), T[i].pk = NoKey,
             out.tree = Opened(T, i, deps[d])
      PROVE  out.tree \in Tree /\ Ledger(out.tree, deps, D \cup {d}, rows, X)
  <2> DEFINE a == [pk |-> k, balance |-> amount, nonce |-> 0]
  <2>1. amount \in 0 .. MaxBalance
    BY <1>1, <1>2, <1>3
  <2>2. a \in Account
    BY <1>1, <2>1 DEF Account
  <2>3. T[i].balance = 0
    BY <1>7 DEF Ledger
  <2>4. DepsTo(deps, D, k) = {} /\ TxsBy(rows, X, k) = {} /\ TxsTo(rows, X, k) = {}
    <3>1. DepsTo(deps, D, k) = {}
      BY <1>1, <1>7 DEF Ledger
    <3>2. TxsBy(rows, X, k) = {}
      BY <1>7 DEF Ledger, TxsBy
    <3>3. TxsTo(rows, X, k) = {}
      BY <1>1, <1>7 DEF Ledger, TxsTo, WellFormed
    <3> QED
      BY <3>1, <3>2, <3>3
  <2>5. Value(deps, DepsTo(deps, D \cup {d}, k)) = amount
    <3>1. Value(deps, DepsTo(deps, D \cup {d}, k)) = Value(deps, DepsTo(deps, D, k)) + amount
      BY <1>c
    <3>2. Value(deps, DepsTo(deps, D, k)) = 0
      BY <2>4, ValueEmpty
    <3> HIDE DEF amount
    <3> QED
      BY <1>1, <3>1, <3>2
  <2>6. /\ Value(rows, TxsBy(rows, X, k)) = 0 /\ Value(rows, TxsTo(rows, X, k)) = 0
        /\ Cardinality(TxsBy(rows, X, k)) = 0
    BY <2>4, ValueEmpty, FS_EmptySet
  <2>7. Explains(a, k, deps, D \cup {d}, rows, X)
    <3>1. a.nonce = 0 /\ a.balance = amount
      OBVIOUS
    <3>2. a.nonce = Cardinality(TxsBy(rows, X, k))
      BY <2>6
    <3>3. a.balance + Value(rows, TxsBy(rows, X, k))
            = Value(deps, DepsTo(deps, D \cup {d}, k)) + Value(rows, TxsTo(rows, X, k))
      BY <1>1, <2>5, <2>6, <3>1
    <3> QED
      BY <3>2, <3>3 DEF Explains
  <2>8. /\ out.tree = [T EXCEPT ![i] = a]
        /\ a.pk = k /\ a.balance = T[i].balance + amount
    BY <1>1, <1>7, <2>3 DEF Opened
  <2> HIDE DEF a, k, amount
  <2> QED
    BY <1>5, <1>7, <2>2, <2>7, <2>8
<1> QED
  BY <1>4, <1>6, <1>7

(* The account b of a key after a row, from its account a before.          *)
Moved(row, k, a, b, spent, got) ==
  /\ a.balance \in Nat /\ b.balance \in Nat /\ spent \in Nat /\ got \in Nat
  /\ b.balance + spent = a.balance + got
  /\ row.from = k => spent = row.amount /\ b.nonce = a.nonce + 1
  /\ row.from # k => spent = 0 /\ b.nonce = a.nonce
  /\ row.to = k => got = row.amount
  /\ row.to # k => got = 0

LEMMA ExplainsMove ==
  ASSUME NEW deps \in Seq(DepRow), NEW D \in SUBSET DOMAIN deps,
         NEW rows \in Seq(TxRow), NEW X \in SUBSET DOMAIN rows,
         NEW t \in DOMAIN rows \ X, NEW k, NEW a, NEW b,
         NEW spent, NEW got, Moved(rows[t], k, a, b, spent, got),
         Explains(a, k, deps, D, rows, X)
  PROVE  Explains(b, k, deps, D, rows, X \cup {t})
<1>1. /\ rows[t].from = k =>
           /\ Cardinality(TxsBy(rows, X \cup {t}, k)) = Cardinality(TxsBy(rows, X, k)) + 1
           /\ Value(rows, TxsBy(rows, X \cup {t}, k))
                = Value(rows, TxsBy(rows, X, k)) + rows[t].amount
      /\ rows[t].from # k => TxsBy(rows, X \cup {t}, k) = TxsBy(rows, X, k)
  BY TxByCounted
<1>2. /\ rows[t].to = k =>
           Value(rows, TxsTo(rows, X \cup {t}, k)) = Value(rows, TxsTo(rows, X, k)) + rows[t].amount
      /\ rows[t].to # k => TxsTo(rows, X \cup {t}, k) = TxsTo(rows, X, k)
  BY TxToCounted
<1>3. /\ Cardinality(TxsBy(rows, X, k)) \in Nat
      /\ Value(rows, TxsBy(rows, X, k)) \in Nat /\ Value(rows, TxsTo(rows, X, k)) \in Nat
  BY RowNumbers
<1>4. Value(deps, DepsTo(deps, D, k)) \in Nat
  <2>1. DepsTo(deps, D, k) \in SUBSET DOMAIN deps
    BY DEF DepsTo
  <2> QED
    BY <2>1, DepRows, ValueType
<1>5. /\ a.nonce = Cardinality(TxsBy(rows, X, k))
      /\ a.balance + Value(rows, TxsBy(rows, X, k))
           = Value(deps, DepsTo(deps, D, k)) + Value(rows, TxsTo(rows, X, k))
  BY DEF Explains
<1>6. Value(rows, TxsBy(rows, X \cup {t}, k)) = Value(rows, TxsBy(rows, X, k)) + spent
  BY <1>1, <1>3 DEF Moved
<1>7. Value(rows, TxsTo(rows, X \cup {t}, k)) = Value(rows, TxsTo(rows, X, k)) + got
  BY <1>2, <1>3 DEF Moved
<1>8. b.nonce = Cardinality(TxsBy(rows, X \cup {t}, k))
  BY <1>1, <1>3, <1>5 DEF Moved
<1>9. b.balance + Value(rows, TxsBy(rows, X \cup {t}, k))
        = Value(deps, DepsTo(deps, D, k)) + Value(rows, TxsTo(rows, X \cup {t}, k))
  <2> DEFINE vb == Value(rows, TxsBy(rows, X, k))
             vt == Value(rows, TxsTo(rows, X, k))
             vd == Value(deps, DepsTo(deps, D, k))
             a0 == a.balance
             b0 == b.balance
  <2>1. vb \in Nat /\ vt \in Nat /\ vd \in Nat /\ a0 \in Nat /\ b0 \in Nat /\ spent \in Nat /\ got \in Nat
    BY <1>3, <1>4 DEF Moved
  <2>2. b0 + spent = a0 + got /\ a0 + vb = vd + vt
    BY <1>5 DEF Moved
  <2>3. b0 + (vb + spent) = vd + (vt + got)
    <3> HIDE DEF vb, vt, vd, a0, b0
    <3> QED
      BY <2>1, <2>2
  <2> QED
    BY <1>6, <1>7, <2>3
<1> QED
  BY <1>8, <1>9 DEF Explains

(* Balances move as a row says: from its sender's slot i, which has used   *)
(* another nonce, to its recipient's.                                      *)
Moves(T, U, row, i, spent, got) ==
  /\ spent \in [Slot -> Nat] /\ got \in [Slot -> Nat]
  /\ T[i].pk = row.from /\ (row.withdraw \/ Holds(T, row.to))
  /\ \A s \in Slot : U[s].pk = T[s].pk
  /\ U[i].nonce = T[i].nonce + 1 /\ \A s \in Slot : s # i => U[s].nonce = T[s].nonce
  /\ \A s \in Slot : U[s].balance + spent[s] = T[s].balance + got[s]
  /\ spent[i] = row.amount /\ \A s \in Slot : s # i => spent[s] = 0
  /\ \A s \in Slot : /\ T[s].pk = row.to /\ ~row.withdraw => got[s] = row.amount
                     /\ T[s].pk # row.to \/ row.withdraw => got[s] = 0
  /\ row.withdraw => Total(U) + row.amount = Total(T)
  /\ ~row.withdraw => Total(U) = Total(T)

LEMMA LedgerMoves ==
  ASSUME NEW T \in Tree, NEW deps \in Seq(DepRow), NEW D \in SUBSET DOMAIN deps,
         NEW rows \in Seq(TxRow), NEW X \in SUBSET DOMAIN rows,
         Ledger(T, deps, D, rows, X), WellFormed(rows),
         NEW t \in DOMAIN rows \ X, NEW i \in Slot,
         NEW U \in Tree, NEW spent, NEW got, Moves(T, U, rows[t], i, spent, got)
  PROVE  Ledger(U, deps, D, rows, X \cup {t})
<1> DEFINE Y == X \cup {t}
<1>0. /\ rows[t].from \in Key /\ rows[t].amount \in Nat /\ rows[t].to \in Key \cup {NoKey}
      /\ rows[t].withdraw \in BOOLEAN /\ NoKey \notin Key
      /\ rows[t].withdraw <=> rows[t].to = NoKey
  BY TxRows, {t} \in SUBSET DOMAIN rows, AccountsAssumption DEF WellFormed
<1>1. \A s \in Slot : T[s].balance \in Nat /\ U[s].balance \in Nat /\ T[s].nonce \in Nat
  BY AccountsAssumption DEF Tree, Account
<1>2. \A k : Holds(U, k) <=> Holds(T, k)
  <2> TAKE k
  <2>1. \A s \in Slot : U[s].pk = T[s].pk
    BY DEF Moves
  <2>2. Holds(U, k) <=> \E s \in Slot : U[s].pk = k
    BY FindOne
  <2>3. Holds(T, k) <=> \E s \in Slot : T[s].pk = k
    BY FindOne
  <2> QED
    BY <2>1, <2>2, <2>3
<1>3. OneSlotEach(U)
  BY DEF Ledger, OneSlotEach, Moves
<1>4. Holds(T, rows[t].from)
  BY FindOne DEF Moves
<1>5. ASSUME NEW s \in Slot
      PROVE  IF U[s].pk = NoKey THEN U[s].balance = 0
             ELSE Explains(U[s], U[s].pk, deps, D, rows, Y)
  <2> DEFINE k == T[s].pk
  <2>0. U[s].pk = k
    BY DEF Moves
  <2>1. CASE k = NoKey
    <3>1. s # i
      BY <1>0, <2>1 DEF Moves
    <3>2. spent[s] = 0
      BY <3>1 DEF Moves
    <3>3. got[s] = 0
      BY <1>0, <2>1 DEF Moves
    <3>4. T[s].balance = 0
      BY <2>1 DEF Ledger
    <3>5. U[s].balance + spent[s] = T[s].balance + got[s]
      BY DEF Moves
    <3> QED
      BY <1>1, <2>0, <2>1, <3>2, <3>3, <3>4, <3>5
  <2>2. CASE k # NoKey
    <3>1. Explains(T[s], k, deps, D, rows, X)
      BY <2>2 DEF Ledger
    <3>2. rows[t].from = k <=> s = i
      BY <2>2 DEF Ledger, OneSlotEach, Moves
    <3>3. U[s].balance + spent[s] = T[s].balance + got[s]
      BY DEF Moves
    <3>4. spent[s] \in Nat /\ got[s] \in Nat /\ T[s].balance \in Nat /\ U[s].balance \in Nat
      BY <1>1 DEF Moves
    <3>5. /\ rows[t].from = k => spent[s] = rows[t].amount /\ U[s].nonce = T[s].nonce + 1
          /\ rows[t].from # k => spent[s] = 0 /\ U[s].nonce = T[s].nonce
      BY <3>2 DEF Moves
    <3>6. /\ rows[t].to = k => got[s] = rows[t].amount
          /\ rows[t].to # k => got[s] = 0
      BY <1>0, <2>2 DEF Moves
    <3>7. Moved(rows[t], k, T[s], U[s], spent[s], got[s])
      BY <3>3, <3>4, <3>5, <3>6 DEF Moved
    <3>8. Explains(U[s], k, deps, D, rows, X \cup {t})
      <4> HIDE DEF k
      <4> QED
        BY <3>1, <3>7, ExplainsMove
    <3> QED
      BY <2>0, <2>2, <3>8
  <2> QED
    BY <2>1, <2>2
<1>6. \A x \in Y : /\ Holds(U, rows[x].from)
                   /\ rows[x].withdraw \/ Holds(U, rows[x].to)
  <2> TAKE x \in Y
  <2>1. CASE x = t
    BY <1>2, <1>4, <2>1 DEF Moves
  <2>2. CASE x \in X
    BY <1>2, <2>2 DEF Ledger
  <2> QED
    BY <2>1, <2>2
<1>7. Total(U) + Value(rows, Withdrawn(rows, Y)) = Value(deps, D)
  <2>1. Total(T) + Value(rows, Withdrawn(rows, X)) = Value(deps, D)
    BY DEF Ledger
  <2>2. Total(T) \in Nat /\ Value(rows, Withdrawn(rows, X)) \in Nat /\ Total(U) \in Nat
    BY LedgerNumbers, TotalType
  <2>3. CASE rows[t].withdraw
    <3>1. Value(rows, Withdrawn(rows, Y)) = Value(rows, Withdrawn(rows, X)) + rows[t].amount
      BY <2>3, WithdrawalCounted
    <3>2. Total(U) + rows[t].amount = Total(T)
      BY <2>3 DEF Moves
    <3> HIDE DEF Y
    <3> QED
      BY <1>0, <2>1, <2>2, <3>1, <3>2
  <2>4. CASE ~rows[t].withdraw
    <3>1. Withdrawn(rows, Y) = Withdrawn(rows, X)
      BY <2>4, WithdrawalCounted
    <3>2. Total(U) = Total(T)
      BY <2>4 DEF Moves
    <3> HIDE DEF Y
    <3> QED
      BY <2>1, <3>1, <3>2
  <2> QED
    BY <1>0, <2>3, <2>4
<1>8. \A k \in Key : Holds(U, k) <=> DepsTo(deps, D, k) # {}
  BY <1>2 DEF Ledger
<1> HIDE DEF Y
<1>9. Ledger(U, deps, D, rows, Y)
  BY <1>3, <1>5, <1>6, <1>7, <1>8 DEF Ledger
<1> QED
  BY <1>9 DEF Y

(* A transaction that build_batch accepts leads from ledger to ledger, and *)
(* it is refused for a reason that eviction answers.                       *)
LEMMA TxLedger ==
  ASSUME NEW T \in Tree, NEW deps \in Seq(DepRow), NEW D \in SUBSET DOMAIN deps,
         NEW rows \in Seq(TxRow), NEW X \in SUBSET DOMAIN rows,
         Ledger(T, deps, D, rows, X), WellFormed(rows),
         NEW t \in DOMAIN rows \ X, Total(T) <= MaxBalance,
         NEW out, out = ApplyTx(T, rows[t])
  PROVE  \/ out.error = "SenderNotFound" /\ ~Holds(T, rows[t].from)
         \/ /\ out.error = "RecipientNotFound" /\ ~rows[t].withdraw /\ ~Holds(T, rows[t].to)
         \/ \E i \in Slot :
              /\ T[i].pk = rows[t].from
              /\ \/ out.error = "NonceMismatch" /\ T[i].nonce # rows[t].nonce
                 \/ out.error = "InsufficientBalance" /\ T[i].balance < rows[t].amount
                 \/ /\ out.error = "none" /\ T[i].nonce = rows[t].nonce
                    /\ out.tree \in Tree
                    /\ Ledger(out.tree, deps, D, rows, X \cup {t})
<1> DEFINE row == rows[t]
           amount == row.amount
<1>0. /\ row.from \in Key /\ amount \in Nat /\ row.to \in Key \cup {NoKey}
      /\ row.withdraw \in BOOLEAN /\ NoKey \notin Key /\ MaxBalance \in Nat
      /\ row.withdraw <=> row.to = NoKey
  BY TxRows, {t} \in SUBSET DOMAIN rows, AccountsAssumption DEF WellFormed
<1>1. /\ Total(T) \in Nat
      /\ \A s \in Slot : T[s].balance \in Nat /\ T[s].balance <= Total(T) /\ T[s].nonce \in Nat
  BY LedgerNumbers DEF Tree, Account
<1>2. OneSlotEach(T)
  BY DEF Ledger
<1>3. ASSUME NEW i \in Slot, T[i].pk = row.from PROVE Unique(T, row.from)
  BY <1>0, <1>2, <1>3 DEF OneSlotEach, Unique
<1>4. ~Holds(T, row.from) \/ Unique(T, row.from)
  BY <1>3, FindOne
<1>5. ASSUME NEW i \in Slot, T[i].pk = row.from, T[i].nonce = row.nonce, T[i].balance >= amount
      PROVE  LET after == Charged(T, i, amount) IN
             /\ after \in Tree /\ Total(after) + amount = Total(T)
             /\ \A s \in Slot : after[s].pk = T[s].pk
             /\ after[i].nonce = T[i].nonce + 1 /\ after[i].balance + amount = T[i].balance
             /\ \A s \in Slot : s # i => after[s].nonce = T[s].nonce /\ after[s].balance = T[s].balance
  <2> DEFINE c == [pk |-> T[i].pk, balance |-> T[i].balance - amount, nonce |-> T[i].nonce + 1]
             after == Charged(T, i, amount)
  <2>1. T[i] \in Account /\ T[i].balance \in 0 .. MaxBalance
    BY DEF Tree, Account
  <2>2. T[i].balance - amount \in 0 .. MaxBalance /\ (T[i].balance - amount) + amount = T[i].balance
    BY <1>0, <1>1, <1>5, <2>1
  <2>3. c \in Account
    BY <1>1, <2>1, <2>2 DEF Account
  <2>4. after = [T EXCEPT ![i] = c]
    BY DEF Charged
  <2>5. \A s \in Slot : after[s] = IF s = i THEN c ELSE T[s]
    BY <2>4 DEF Tree
  <2>6. c.pk = T[i].pk /\ c.nonce = T[i].nonce + 1 /\ c.balance = T[i].balance - amount
    OBVIOUS
  <2> HIDE DEF c, after
  <2>7. after \in Tree /\ Total(after) = Total(T) - T[i].balance + c.balance
    BY <2>3, <2>4, TotalSet
  <2>8. Total(after) + amount = Total(T)
    BY <1>0, <1>1, <2>6, <2>7
  <2>9. after[i].nonce = T[i].nonce + 1 /\ after[i].balance + amount = T[i].balance
    BY <2>2, <2>5, <2>6
  <2>10. /\ \A s \in Slot : after[s].pk = T[s].pk
         /\ \A s \in Slot : s # i => after[s].nonce = T[s].nonce /\ after[s].balance = T[s].balance
    BY <2>5, <2>6
  <2> QED
    BY <2>7, <2>8, <2>9, <2>10 DEF after
(* A withdrawal.                                                           *)
<1>6. ASSUME NEW i \in Slot, T[i].pk = row.from, T[i].nonce = row.nonce, T[i].balance >= amount,
             row.withdraw, out.tree = Charged(T, i, amount)
      PROVE  out.tree \in Tree /\ Ledger(out.tree, deps, D, rows, X \cup {t})
  <2> DEFINE U == out.tree
             spent == [s \in Slot |-> IF s = i THEN amount ELSE 0]
             got == [s \in Slot |-> 0]
  <2>1. /\ U \in Tree /\ Total(U) + amount = Total(T)
        /\ \A s \in Slot : U[s].pk = T[s].pk
        /\ U[i].nonce = T[i].nonce + 1 /\ U[i].balance + amount = T[i].balance
        /\ \A s \in Slot : s # i => U[s].nonce = T[s].nonce /\ U[s].balance = T[s].balance
    BY <1>5, <1>6
  <2>2. spent \in [Slot -> Nat] /\ got \in [Slot -> Nat]
    BY <1>0
  <2>3. /\ spent[i] = amount /\ \A s \in Slot : s # i => spent[s] = 0
        /\ \A s \in Slot : got[s] = 0
    OBVIOUS
  <2> HIDE DEF U, spent, got
  <2>4. \A s \in Slot : U[s].balance + spent[s] = T[s].balance + got[s]
    <3> TAKE s \in Slot
    <3>1. T[s].balance \in Nat /\ spent[s] \in Nat /\ got[s] = 0
      BY <1>1, <2>2, <2>3
    <3>2. CASE s = i
      BY <2>1, <2>3, <3>1, <3>2
    <3>3. CASE s # i
      BY <2>1, <2>3, <3>1, <3>3
    <3> QED
      BY <3>2, <3>3
  <2>5. /\ \A s \in Slot : /\ T[s].pk = row.to /\ ~row.withdraw => got[s] = amount
                           /\ T[s].pk # row.to \/ row.withdraw => got[s] = 0
        /\ row.withdraw \/ Holds(T, row.to)
        /\ row.withdraw => Total(U) + amount = Total(T)
        /\ ~row.withdraw => Total(U) = Total(T)
        /\ \A s \in Slot : s # i => U[s].nonce = T[s].nonce
    BY <1>6, <2>1, <2>3
  <2>6. Moves(T, U, row, i, spent, got)
    BY <1>6, <2>1, <2>2, <2>3, <2>4, <2>5 DEF Moves
  <2>7. Ledger(U, deps, D, rows, X \cup {t})
    BY <2>1, <2>6, LedgerMoves
  <2> QED
    BY <2>1, <2>7 DEF U
(* A payment, to oneself perhaps.                                          *)
<1>7. ASSUME NEW i \in Slot, T[i].pk = row.from, T[i].nonce = row.nonce, T[i].balance >= amount,
             ~row.withdraw, NEW j \in Slot, T[j].pk = row.to
      PROVE  LET after == Charged(T, i, amount) IN
             /\ ~ (after[j].balance + amount > MaxBalance)
             /\ out.tree = Raised(after, j, amount) =>
                  out.tree \in Tree /\ Ledger(out.tree, deps, D, rows, X \cup {t})
  <2> DEFINE after == Charged(T, i, amount)
             c == [pk |-> after[j].pk, balance |-> after[j].balance + amount, nonce |-> after[j].nonce]
             U == Raised(after, j, amount)
             spent == [s \in Slot |-> IF s = i THEN amount ELSE 0]
             got == [s \in Slot |-> IF s = j THEN amount ELSE 0]
  <2>1. /\ after \in Tree /\ Total(after) + amount = Total(T)
        /\ \A s \in Slot : after[s].pk = T[s].pk
        /\ after[i].nonce = T[i].nonce + 1 /\ after[i].balance + amount = T[i].balance
        /\ \A s \in Slot : s # i => after[s].nonce = T[s].nonce /\ after[s].balance = T[s].balance
    BY <1>5, <1>7
  <2>2. /\ spent \in [Slot -> Nat] /\ got \in [Slot -> Nat]
        /\ spent[i] = amount /\ \A s \in Slot : s # i => spent[s] = 0
        /\ got[j] = amount /\ \A s \in Slot : s # j => got[s] = 0
    BY <1>0
  <2>3. U = [after EXCEPT ![j] = c]
    BY DEF Raised
  <2>4. c.pk = after[j].pk /\ c.balance = after[j].balance + amount /\ c.nonce = after[j].nonce
    OBVIOUS
  <2> HIDE DEF after, U, spent, got
  <2>5. /\ Total(after) \in Nat
        /\ \A s \in Slot : after[s].balance \in Nat /\ after[s].balance <= Total(after)
    BY <2>1, TotalType, AccountsAssumption DEF Tree, Account
  <2>6. after[j].balance + amount <= MaxBalance /\ ~ (after[j].balance + amount > MaxBalance)
    BY <1>0, <1>1, <2>1, <2>5
  <2>7. c \in Account
    <3>1. after[j] \in Account
      BY <2>1 DEF Tree
    <3>2. after[j].balance + amount \in 0 .. MaxBalance
      BY <1>0, <2>5, <2>6
    <3> QED
      BY <3>1, <3>2 DEF Account
  <2>8. \A s \in Slot : U[s] = IF s = j THEN c ELSE after[s]
    BY <2>1, <2>3 DEF Tree
  <2> HIDE DEF c
  <2>9. U \in Tree /\ Total(U) = Total(after) - after[j].balance + c.balance
    BY <2>1, <2>3, <2>7, TotalSet
  <2>10. Total(U) = Total(T)
    BY <1>0, <1>1, <2>1, <2>4, <2>5, <2>9
  <2>11. /\ \A s \in Slot : U[s].pk = T[s].pk
         /\ U[i].nonce = T[i].nonce + 1
         /\ \A s \in Slot : s # i => U[s].nonce = T[s].nonce
    BY <2>1, <2>4, <2>8
  <2>12. \A s \in Slot : U[s].balance = after[s].balance + got[s]
    <3> TAKE s \in Slot
    <3>1. CASE s = j
      BY <2>2, <2>4, <2>8, <3>1
    <3>2. CASE s # j
      BY <2>2, <2>5, <2>8, <3>2
    <3> QED
      BY <3>1, <3>2
  <2>13. \A s \in Slot : after[s].balance + spent[s] = T[s].balance
    <3> TAKE s \in Slot
    <3>1. CASE s = i
      BY <2>1, <2>2, <3>1
    <3>2. CASE s # i
      BY <1>1, <2>1, <2>2, <3>2
    <3> QED
      BY <3>1, <3>2
  <2>14. \A s \in Slot : U[s].balance + spent[s] = T[s].balance + got[s]
    <3> TAKE s \in Slot
    <3>1. /\ U[s].balance = after[s].balance + got[s] /\ after[s].balance + spent[s] = T[s].balance
          /\ got[s] \in Nat /\ spent[s] \in Nat /\ after[s].balance \in Nat
      BY <2>2, <2>5, <2>12, <2>13
    <3> QED
      BY <3>1
  <2>15. /\ \A s \in Slot : /\ T[s].pk = row.to /\ ~row.withdraw => got[s] = amount
                            /\ T[s].pk # row.to \/ row.withdraw => got[s] = 0
         /\ row.withdraw \/ Holds(T, row.to)
         /\ row.withdraw => Total(U) + amount = Total(T)
         /\ ~row.withdraw => Total(U) = Total(T)
    <3>1. \A s \in Slot : T[s].pk = row.to => s = j
      BY <1>0, <1>2, <1>7 DEF OneSlotEach
    <3>2. Holds(T, row.to)
      BY <1>7, FindOne
    <3> QED
      BY <1>7, <2>2, <2>10, <3>1, <3>2
  <2>16. Moves(T, U, row, i, spent, got)
    BY <1>7, <2>2, <2>11, <2>14, <2>15 DEF Moves
  <2>17. Ledger(U, deps, D, rows, X \cup {t})
    BY <2>9, <2>16, LedgerMoves
  <2> QED
    BY <2>6, <2>9, <2>17 DEF U, after
<1>8. \/ out.error = "SenderNotFound" /\ (~Holds(T, row.from) \/ ~Unique(T, row.from))
      \/ \E i \in Slot :
           /\ T[i].pk = row.from
           /\ \/ out.error = "NonceMismatch" /\ T[i].nonce # row.nonce
              \/ out.error = "InsufficientBalance" /\ T[i].balance < amount
              \/ /\ out.error = "RecipientNotFound"
                 /\ ~row.withdraw /\ ~Holds(T, row.to)
              \/ /\ out.error = "none" /\ row.withdraw
                 /\ T[i].nonce = row.nonce /\ T[i].balance >= amount
                 /\ out.tree = Charged(T, i, amount)
              \/ /\ ~row.withdraw
                 /\ T[i].nonce = row.nonce /\ T[i].balance >= amount
                 /\ \E j \in Slot :
                      LET after == Charged(T, i, amount) IN
                      /\ T[j].pk = row.to
                      /\ \/ /\ out.error = "none"
                            /\ out.tree = Raised(after, j, amount)
                         \/ after[j].balance + amount > MaxBalance
  <2> HIDE DEF row
  <2>1. row.amount \in Nat /\ row.withdraw \in BOOLEAN /\ out = ApplyTx(T, row)
    BY <1>0 DEF row
  <2> QED
    BY <2>1, TxOutcome
<1>9. CASE \E i \in Slot : /\ T[i].pk = row.from /\ T[i].nonce = row.nonce /\ T[i].balance >= amount
                           /\ ~row.withdraw
                           /\ \E j \in Slot :
                                LET after == Charged(T, i, amount) IN
                                /\ T[j].pk = row.to
                                /\ \/ /\ out.error = "none"
                                      /\ out.tree = Raised(after, j, amount)
                                   \/ after[j].balance + amount > MaxBalance
  <2>1. PICK i \in Slot, j \in Slot :
               /\ T[i].pk = row.from /\ T[i].nonce = row.nonce /\ T[i].balance >= amount
               /\ ~row.withdraw /\ T[j].pk = row.to
               /\ \/ out.error = "none" /\ out.tree = Raised(Charged(T, i, amount), j, amount)
                  \/ Charged(T, i, amount)[j].balance + amount > MaxBalance
    BY <1>9
  <2>2. out.error = "none" /\ out.tree \in Tree /\ Ledger(out.tree, deps, D, rows, X \cup {t})
    BY <1>7, <2>1
  <2> QED
    BY <2>1, <2>2
<1>10. CASE \E i \in Slot : /\ T[i].pk = row.from /\ T[i].nonce = row.nonce /\ T[i].balance >= amount
                            /\ row.withdraw /\ out.error = "none" /\ out.tree = Charged(T, i, amount)
  BY <1>6, <1>10
<1> QED
  BY <1>4, <1>8, <1>9, <1>10

-----------------------------------------------------------------------------
(* A build: from the ledger of the confirmed rows A and X, the deposits D  *)
(* and then the transactions S are applied, in order.                      *)

Buildable(T, deps, A, D, rows, X, S) ==
  /\ T \in Tree /\ deps \in Seq(DepRow) /\ rows \in Seq(TxRow)
  /\ A \in SUBSET DOMAIN deps /\ D \in SUBSET (DOMAIN deps \ A)
  /\ X \in SUBSET DOMAIN rows /\ S \in SUBSET (DOMAIN rows \ X)
  /\ Ledger(T, deps, A, rows, X) /\ WellFormed(rows)
  /\ Value(deps, A \cup D) <= MaxBalance + Value(rows, Withdrawn(rows, X))

(* The first n inputs have led to U.                                       *)
LedTo(U, n, deps, A, D, rows, X, S) ==
  LET m == n - Cardinality(D) IN
  /\ U \in Tree
  /\ Ledger(U, deps, A \cup FirstOf(D, n), rows, X \cup FirstOf(S, m))
  /\ InSequence(rows, X, FirstOf(S, m))

Refuses(U, row, error) ==
  \/ error = "SenderNotFound" /\ ~Holds(U, row.from)
  \/ error = "RecipientNotFound" /\ ~row.withdraw /\ ~Holds(U, row.to)
  \/ \E i \in Slot :
       /\ U[i].pk = row.from
       /\ \/ error = "NonceMismatch" /\ U[i].nonce # row.nonce
          \/ error = "InsufficientBalance" /\ U[i].balance < row.amount

LEMMA SequenceGrows ==
  ASSUME NEW rows \in Seq(TxRow), NEW X \in SUBSET DOMAIN rows,
         NEW G \in SUBSET (DOMAIN rows \ X), NEW t \in DOMAIN rows \ (X \cup G),
         \A u \in G : u < t,
         InSequence(rows, X, G),
         rows[t].nonce = Cardinality(TxsBy(rows, X \cup G, rows[t].from))
  PROVE  InSequence(rows, X, G \cup {t})
<1>1. t \in Nat /\ G \in SUBSET Nat /\ IsFiniteSet(G) /\ IsFiniteSet(X)
  <2>1. {t} \in SUBSET DOMAIN rows /\ G \in SUBSET DOMAIN rows
    OBVIOUS
  <2>2. G \in SUBSET Nat /\ IsFiniteSet(G) /\ IsFiniteSet(X)
    BY <2>1, TxRows
  <2>3. {t} \in SUBSET Nat
    BY <2>1, TxRows
  <2> QED
    BY <2>2, <2>3
<1>2. ASSUME NEW k
      PROVE  /\ rows[t].from = k => TxsBy(rows, G \cup {t}, k) = TxsBy(rows, G, k) \cup {t}
             /\ rows[t].from # k => TxsBy(rows, G \cup {t}, k) = TxsBy(rows, G, k)
             /\ TxsBy(rows, G, k) \in SUBSET G
             /\ TxsBy(rows, X \cup G, k) = TxsBy(rows, X, k) \cup TxsBy(rows, G, k)
             /\ TxsBy(rows, X, k) \cap TxsBy(rows, G, k) = {}
             /\ TxsBy(rows, X, k) \in SUBSET X
  BY DEF TxsBy
<1>3. ASSUME NEW k
      PROVE  /\ Rank(TxsBy(rows, G, k) \cup {t}, t) = Cardinality(TxsBy(rows, G, k))
             /\ \A u \in TxsBy(rows, G, k) :
                  Rank(TxsBy(rows, G, k) \cup {t}, u) = Rank(TxsBy(rows, G, k), u)
  <2> DEFINE E == TxsBy(rows, G, k)
  <2>1. E \in SUBSET Nat /\ \A u \in E : u < t
    BY <1>1, <1>2
  <2> HIDE DEF E
  <2>2. /\ Rank(E \cup {t}, t) = Cardinality(E)
        /\ \A u \in E : Rank(E \cup {t}, u) = Rank(E, u)
    BY <1>1, <2>1, RankLast
  <2> QED
    BY <2>2 DEF E
<1>4. ASSUME NEW k
      PROVE  Cardinality(TxsBy(rows, X \cup G, k))
               = Cardinality(TxsBy(rows, X, k)) + Cardinality(TxsBy(rows, G, k))
  <2> DEFINE E == TxsBy(rows, G, k)
             F == TxsBy(rows, X, k)
  <2>1. E \in SUBSET G /\ F \in SUBSET X /\ F \cap E = {} /\ TxsBy(rows, X \cup G, k) = F \cup E
    BY <1>2
  <2>2. IsFiniteSet(E) /\ IsFiniteSet(F)
    BY <1>1, <2>1, FS_Subset
  <2> HIDE DEF E, F
  <2>3. Cardinality(F \cup E) = Cardinality(F) + Cardinality(E) - Cardinality(F \cap E)
    BY <2>2, FS_Union
  <2>4. Cardinality(E) \in Nat /\ Cardinality(F) \in Nat /\ Cardinality({}) = 0
    BY <2>2, FS_CardinalityType, FS_EmptySet
  <2>5. Cardinality(F \cap E) = 0
    BY <2>1, <2>4
  <2>6. Cardinality(F \cup E) = Cardinality(F) + Cardinality(E)
    BY <2>3, <2>4, <2>5
  <2> QED
    BY <2>1, <2>6 DEF E, F
<1>5. ASSUME NEW u \in G \cup {t}
      PROVE  rows[u].nonce = Cardinality(TxsBy(rows, X, rows[u].from))
                               + Rank(TxsBy(rows, G \cup {t}, rows[u].from), u)
  <2> DEFINE k == rows[u].from
  <2>1. CASE u = t
    <3>1. TxsBy(rows, G \cup {t}, k) = TxsBy(rows, G, k) \cup {t}
      BY <1>2, <2>1
    <3>2. Rank(TxsBy(rows, G \cup {t}, k), u) = Cardinality(TxsBy(rows, G, k))
      BY <1>3, <2>1, <3>1
    <3>3. rows[u].nonce = Cardinality(TxsBy(rows, X \cup G, k))
      BY <2>1
    <3> QED
      BY <1>4, <3>2, <3>3
  <2>2. CASE u # t
    <3>1. u \in G /\ u \in TxsBy(rows, G, k)
      BY <2>2 DEF TxsBy
    <3>2. rows[u].nonce = Cardinality(TxsBy(rows, X, k)) + Rank(TxsBy(rows, G, k), u)
      BY <3>1 DEF InSequence
    <3>3. Rank(TxsBy(rows, G \cup {t}, k), u) = Rank(TxsBy(rows, G, k), u)
      BY <1>2, <1>3, <3>1
    <3> QED
      BY <3>2, <3>3
  <2> QED
    BY <2>1, <2>2
<1> QED
  BY <1>5 DEF InSequence

(* What a build has and may still take in.                                 *)
LEMMA BuildNumbers ==
  ASSUME NEW T, NEW deps, NEW A, NEW D, NEW rows, NEW X, NEW S,
         Buildable(T, deps, A, D, rows, X, S)
  PROVE  /\ D \in SUBSET Nat /\ IsFiniteSet(D) /\ Cardinality(D) \in Nat
         /\ S \in SUBSET Nat /\ IsFiniteSet(S) /\ Cardinality(S) \in Nat
         /\ Len(Listed(deps, D)) = Cardinality(D) /\ Len(Listed(rows, S)) = Cardinality(S)
         /\ \A n \in 1 .. Cardinality(D) + Cardinality(S) : \A U :
              ApplyInput(U, Listed(deps, D), Listed(rows, S), n)
                = IF n <= Cardinality(D) THEN ApplyDeposit(U, deps[InOrder(D)[n]])
                  ELSE ApplyTx(U, rows[InOrder(S)[n - Cardinality(D)]])
<1> DEFINE a == Cardinality(D)
           b == Cardinality(S)
<1>1. D \in SUBSET Nat /\ IsFiniteSet(D) /\ S \in SUBSET Nat /\ IsFiniteSet(S)
  <2>1. deps \in Seq(DepRow) /\ D \in SUBSET DOMAIN deps /\ rows \in Seq(TxRow) /\ S \in SUBSET DOMAIN rows
    BY DEF Buildable
  <2> QED
    BY <2>1, DepRows, TxRows
<1>2. a \in Nat /\ b \in Nat
  BY <1>1, FS_CardinalityType
<1> HIDE DEF a, b
<1>3. /\ Listed(deps, D) = [i \in 1 .. a |-> deps[InOrder(D)[i]]]
      /\ Listed(rows, S) = [i \in 1 .. b |-> rows[InOrder(S)[i]]]
  BY DEF Listed, a, b
<1> DEFINE ld == Listed(deps, D)
           lr == Listed(rows, S)
<1>4. Len(ld) = a /\ Len(lr) = b
  BY <1>2, <1>3
<1>5. ASSUME NEW n \in 1 .. a + b, NEW U
      PROVE  ApplyInput(U, ld, lr, n)
                = IF n <= a THEN ApplyDeposit(U, deps[InOrder(D)[n]])
                  ELSE ApplyTx(U, rows[InOrder(S)[n - a]])
  <2>1. CASE n <= a
    <3>1. ld[n] = deps[InOrder(D)[n]]
      BY <1>2, <1>3, <2>1
    <3> HIDE DEF ld, lr
    <3> QED
      BY <1>4, <2>1, <3>1 DEF ApplyInput
  <2>2. CASE ~ (n <= a)
    <3>1. n - a \in 1 .. b
      BY <1>2, <2>2
    <3>2. lr[n - a] = rows[InOrder(S)[n - a]]
      BY <1>3, <3>1
    <3> HIDE DEF ld, lr
    <3> QED
      BY <1>4, <2>2, <3>2 DEF ApplyInput
  <2> QED
    BY <2>1, <2>2
<1> QED
  BY <1>1, <1>2, <1>4, <1>5 DEF a, b

LEMMA DepositInput ==
  ASSUME NEW T, NEW deps, NEW A, NEW D, NEW rows, NEW X, NEW S,
         Buildable(T, deps, A, D, rows, X, S),
         NEW n \in 1 .. Cardinality(D),
         NEW U, LedTo(U, n - 1, deps, A, D, rows, X, S),
         NEW out, out = ApplyDeposit(U, deps[InOrder(D)[n]])
  PROVE  \/ out.error = "TreeFull"
         \/ out.error = "none" /\ LedTo(out.tree, n, deps, A, D, rows, X, S)
<1> DEFINE d == InOrder(D)[n]
           B == A \cup FirstOf(D, n - 1)
           C == A \cup FirstOf(D, n)
<1>1. /\ D \in SUBSET Nat /\ IsFiniteSet(D) /\ Cardinality(D) \in Nat
      /\ S \in SUBSET Nat /\ IsFiniteSet(S)
  BY BuildNumbers
<1>2. /\ deps \in Seq(DepRow) /\ rows \in Seq(TxRow) /\ WellFormed(rows)
      /\ A \in SUBSET DOMAIN deps /\ D \in SUBSET (DOMAIN deps \ A) /\ X \in SUBSET DOMAIN rows
      /\ Value(deps, A \cup D) <= MaxBalance + Value(rows, Withdrawn(rows, X))
  BY DEF Buildable
<1>3. FirstOf(S, n - Cardinality(D)) = {} /\ FirstOf(S, n - 1 - Cardinality(D)) = {}
  <2>1. /\ n - Cardinality(D) \in Int /\ n - Cardinality(D) <= 0
        /\ n - 1 - Cardinality(D) \in Int /\ n - 1 - Cardinality(D) <= 0
    BY <1>1
  <2> QED
    BY <1>1, <2>1, FirstOfFacts
<1>4. U \in Tree /\ Ledger(U, deps, B, rows, X)
  BY <1>3 DEF LedTo
<1>5. d \in D /\ d \notin FirstOf(D, n - 1) /\ FirstOf(D, n) = FirstOf(D, n - 1) \cup {d}
  BY <1>1, InOrderFacts, FirstOfFacts
<1>6. B \in SUBSET DOMAIN deps /\ d \in DOMAIN deps \ B /\ C = B \cup {d} /\ C \in SUBSET (A \cup D)
  BY <1>2, <1>5 DEF FirstOf
<1> HIDE DEF d, B, C
<1>7. Total(U) + deps[d].amount <= MaxBalance
  <2>1. Value(deps, C) = Value(deps, B) + deps[d].amount
    BY <1>2, <1>6, DepositCounted
  <2>2. Value(deps, C) <= Value(deps, A \cup D)
    <3>1. Priced(deps, A \cup D)
      BY <1>2, DepRows
    <3> QED
      BY <1>6, <3>1, ValuePart
  <2>3. Total(U) + Value(rows, Withdrawn(rows, X)) = Value(deps, B)
    BY <1>4 DEF Ledger
  <2>4. /\ Total(U) \in Nat /\ Value(deps, B) \in Nat /\ Value(rows, Withdrawn(rows, X)) \in Nat
    BY <1>2, <1>4, <1>6, LedgerNumbers
  <2>5. deps[d].amount \in Nat /\ Value(deps, A \cup D) \in Nat
    <3>1. {d} \in SUBSET DOMAIN deps /\ A \cup D \in SUBSET DOMAIN deps
      BY <1>2, <1>6
    <3> QED
      BY <1>2, <3>1, DepRows, ValueType
  <2>6. MaxBalance \in Nat
    BY AccountsAssumption
  <2> DEFINE tot == Total(U)
             w == Value(rows, Withdrawn(rows, X))
             vb == Value(deps, B)
             vc == Value(deps, C)
             va == Value(deps, A \cup D)
             am == deps[d].amount
  <2>7. vc = vb + am /\ vc <= va /\ tot + w = vb /\ va <= MaxBalance + w
    BY <1>2, <2>1, <2>2, <2>3
  <2>8. tot \in Nat /\ vb \in Nat /\ w \in Nat /\ am \in Nat /\ va \in Nat
    BY <2>4, <2>5
  <2> HIDE DEF tot, w, vb, vc, va, am
  <2>9. tot + am <= MaxBalance
    BY <2>6, <2>7, <2>8
  <2> QED
    BY <2>9 DEF tot, am
<1>8. out = ApplyDeposit(U, deps[d])
  BY DEF d
<1>9. \/ out.error = "TreeFull"
      \/ out.error = "none" /\ out.tree \in Tree /\ Ledger(out.tree, deps, B \cup {d}, rows, X)
  BY <1>2, <1>4, <1>6, <1>7, <1>8, DepositLedger
<1>10. Ledger(out.tree, deps, B \cup {d}, rows, X)
         => Ledger(out.tree, deps, A \cup FirstOf(D, n), rows, X \cup FirstOf(S, n - Cardinality(D)))
  <2>1. B \cup {d} = A \cup FirstOf(D, n)
    BY <1>6 DEF C
  <2>2. X \cup FirstOf(S, n - Cardinality(D)) = X
    BY <1>3
  <2> QED
    BY <2>1, <2>2
<1>11. InSequence(rows, X, FirstOf(S, n - Cardinality(D)))
  BY <1>3 DEF InSequence
<1> QED
  BY <1>9, <1>10, <1>11 DEF LedTo

LEMMA TxInput ==
  ASSUME NEW T, NEW deps, NEW A, NEW D, NEW rows, NEW X, NEW S,
         Buildable(T, deps, A, D, rows, X, S),
         NEW m \in 1 .. Cardinality(S),
         NEW U, LedTo(U, Cardinality(D) + m - 1, deps, A, D, rows, X, S),
         NEW out, out = ApplyTx(U, rows[InOrder(S)[m]])
  PROVE  \/ Refuses(U, rows[InOrder(S)[m]], out.error)
         \/ /\ out.error = "none"
            /\ LedTo(out.tree, Cardinality(D) + m, deps, A, D, rows, X, S)
<1> DEFINE t == InOrder(S)[m]
           G == FirstOf(S, m - 1)
           C == A \cup D
           dn == Cardinality(D)
<1>1. /\ D \in SUBSET Nat /\ IsFiniteSet(D) /\ dn \in Nat
      /\ S \in SUBSET Nat /\ IsFiniteSet(S) /\ Cardinality(S) \in Nat
  BY BuildNumbers
<1>2. /\ deps \in Seq(DepRow) /\ rows \in Seq(TxRow) /\ WellFormed(rows)
      /\ C \in SUBSET DOMAIN deps /\ X \in SUBSET DOMAIN rows /\ S \in SUBSET (DOMAIN rows \ X)
      /\ Value(deps, C) <= MaxBalance + Value(rows, Withdrawn(rows, X))
  BY DEF Buildable
<1>3. t \in S /\ t \notin G /\ FirstOf(S, m) = G \cup {t} /\ Rank(S, t) = m - 1
  BY <1>1, InOrderFacts, FirstOfFacts
<1>4. \A u \in G : u < t
  <2>1. \A u \in G : u \in S /\ Rank(S, u) < m - 1
    BY DEF FirstOf
  <2> HIDE DEF G, t
  <2>2. ASSUME NEW u \in G PROVE u < t
    <3>1. u \in S /\ Rank(S, u) < Rank(S, t)
      BY <1>3, <2>1
    <3> QED
      BY <1>1, <1>3, <3>1, RankInjective
  <2> QED
    BY <2>2
<1>5. /\ FirstOf(D, dn + m - 1) = D /\ FirstOf(D, dn + m) = D
      /\ (dn + m - 1) - dn = m - 1 /\ (dn + m) - dn = m
  <2> HIDE DEF dn
  <2>1. (dn + m - 1) - dn = m - 1 /\ (dn + m) - dn = m
    BY <1>1
  <2>2. dn + m - 1 \in Int /\ dn + m - 1 >= dn /\ dn + m \in Int /\ dn + m >= dn
    BY <1>1
  <2>3. FirstOf(D, dn + m - 1) = D /\ FirstOf(D, dn + m) = D
    BY <1>1, <2>2, FirstOfFacts DEF dn
  <2> QED
    BY <2>1, <2>3
<1>6. U \in Tree /\ Ledger(U, deps, C, rows, X \cup G) /\ InSequence(rows, X, G)
  <2> DEFINE n == dn + m - 1
  <2>1. /\ U \in Tree /\ Ledger(U, deps, A \cup FirstOf(D, n), rows, X \cup FirstOf(S, n - dn))
        /\ InSequence(rows, X, FirstOf(S, n - dn))
    BY DEF LedTo
  <2>2. FirstOf(D, n) = D /\ n - dn = m - 1
    BY <1>5
  <2> HIDE DEF n
  <2> QED
    BY <2>1, <2>2
<1>7. /\ G \in SUBSET (DOMAIN rows \ X) /\ X \cup G \in SUBSET DOMAIN rows
      /\ t \in DOMAIN rows \ (X \cup G)
  BY <1>2, <1>3 DEF FirstOf
<1>8. out = ApplyTx(U, rows[t])
  OBVIOUS
<1> HIDE DEF t, G, C, dn
<1>9. Total(U) <= MaxBalance
  <2>1. Total(U) + Value(rows, Withdrawn(rows, X \cup G)) = Value(deps, C)
    BY <1>6 DEF Ledger
  <2>2. /\ Total(U) \in Nat /\ Value(deps, C) \in Nat
        /\ Value(rows, Withdrawn(rows, X \cup G)) \in Nat
    BY <1>2, <1>6, <1>7, LedgerNumbers
  <2>3. /\ Value(rows, Withdrawn(rows, X)) <= Value(rows, Withdrawn(rows, X \cup G))
        /\ Value(rows, Withdrawn(rows, X)) \in Nat
    <3>1. Withdrawn(rows, X) \in SUBSET Withdrawn(rows, X \cup G)
      BY DEF Withdrawn
    <3>2. Withdrawn(rows, X \cup G) \in SUBSET DOMAIN rows
      BY <1>7 DEF Withdrawn
    <3>3. Priced(rows, Withdrawn(rows, X \cup G))
      BY <1>2, <3>2, TxRows
    <3> QED
      BY <3>1, <3>3, ValuePart
  <2>4. MaxBalance \in Nat
    BY AccountsAssumption
  <2> DEFINE tot == Total(U)
             w == Value(rows, Withdrawn(rows, X))
             wg == Value(rows, Withdrawn(rows, X \cup G))
             vc == Value(deps, C)
  <2>5. tot + wg = vc /\ tot \in Nat /\ wg \in Nat /\ w \in Nat /\ w <= wg /\ vc <= MaxBalance + w
    BY <1>2, <2>1, <2>2, <2>3
  <2> HIDE DEF tot, w, wg, vc
  <2>6. tot <= MaxBalance
    BY <2>4, <2>5
  <2> QED
    BY <2>6 DEF tot
<1>10. \/ Refuses(U, rows[t], out.error)
       \/ \E i \in Slot :
            /\ U[i].pk = rows[t].from /\ U[i].nonce = rows[t].nonce
            /\ out.error = "none" /\ out.tree \in Tree
            /\ Ledger(out.tree, deps, C, rows, X \cup G \cup {t})
  <2>1. \/ out.error = "SenderNotFound" /\ ~Holds(U, rows[t].from)
        \/ /\ out.error = "RecipientNotFound" /\ ~rows[t].withdraw /\ ~Holds(U, rows[t].to)
        \/ \E i \in Slot :
             /\ U[i].pk = rows[t].from
             /\ \/ out.error = "NonceMismatch" /\ U[i].nonce # rows[t].nonce
                \/ out.error = "InsufficientBalance" /\ U[i].balance < rows[t].amount
                \/ /\ out.error = "none" /\ U[i].nonce = rows[t].nonce
                   /\ out.tree \in Tree
                   /\ Ledger(out.tree, deps, C, rows, X \cup G \cup {t})
    BY <1>2, <1>6, <1>7, <1>8, <1>9, TxLedger
  <2> QED
    BY <2>1 DEF Refuses
<1>11. ASSUME NEW i \in Slot, U[i].pk = rows[t].from, U[i].nonce = rows[t].nonce
       PROVE  InSequence(rows, X, G \cup {t})
  <2>1. rows[t].from # NoKey
    <3>1. rows[t].from \in Key
      BY <1>2, <1>7, TxRows, {t} \in SUBSET DOMAIN rows
    <3> QED
      BY <3>1, AccountsAssumption
  <2>2. U[i].nonce = Cardinality(TxsBy(rows, X \cup G, rows[t].from))
    BY <1>6, <1>11, <2>1 DEF Ledger, Explains
  <2>3. rows[t].nonce = Cardinality(TxsBy(rows, X \cup G, rows[t].from))
    BY <1>11, <2>2
  <2> QED
    BY <1>2, <1>4, <1>6, <1>7, <2>3, SequenceGrows
<1>12. ASSUME out.error = "none", out.tree \in Tree,
              Ledger(out.tree, deps, C, rows, X \cup G \cup {t}), InSequence(rows, X, G \cup {t})
       PROVE  LedTo(out.tree, dn + m, deps, A, D, rows, X, S)
  <2>1. A \cup FirstOf(D, dn + m) = C /\ X \cup FirstOf(S, m) = X \cup G \cup {t}
    BY <1>3, <1>5 DEF C
  <2>2. Ledger(out.tree, deps, A \cup FirstOf(D, dn + m), rows, X \cup FirstOf(S, m))
    BY <1>12, <2>1
  <2>3. InSequence(rows, X, FirstOf(S, m))
    BY <1>3, <1>12
  <2> DEFINE n == dn + m
  <2>4. n - dn = m
    BY <1>5
  <2>5. /\ Ledger(out.tree, deps, A \cup FirstOf(D, n), rows, X \cup FirstOf(S, n - dn))
        /\ InSequence(rows, X, FirstOf(S, n - dn))
    BY <2>2, <2>3, <2>4
  <2> HIDE DEF n
  <2>6. LedTo(out.tree, n, deps, A, D, rows, X, S)
    BY <1>12, <2>5 DEF LedTo, dn
  <2> QED
    BY <2>6 DEF n
<1> QED
  BY <1>10, <1>11, <1>12 DEF t, dn

(* All inputs up to the first that is refused.                             *)
LEMMA BuildRuns ==
  ASSUME NEW T, NEW deps, NEW A, NEW D, NEW rows, NEW X, NEW S,
         Buildable(T, deps, A, D, rows, X, S),
         NEW run, run = Run(T, Listed(deps, D), Listed(rows, S))
  PROVE  \A n \in 0 .. Cardinality(D) + Cardinality(S) :
           run[n].error = "none" => LedTo(run[n].tree, n, deps, A, D, rows, X, S)
<1> DEFINE ld == Listed(deps, D)
           lr == Listed(rows, S)
           dn == Cardinality(D)
           N == dn + Cardinality(S)
           Good(n) == run[n].error = "none" => LedTo(run[n].tree, n, deps, A, D, rows, X, S)
           I == {n \in Nat : n <= N => Good(n)}
<1>1. /\ D \in SUBSET Nat /\ IsFiniteSet(D) /\ dn \in Nat
      /\ S \in SUBSET Nat /\ IsFiniteSet(S) /\ Cardinality(S) \in Nat
      /\ Len(ld) = dn /\ Len(lr) = Cardinality(S)
  BY BuildNumbers
<1>2. N \in Nat /\ Len(ld) + Len(lr) = N
  BY <1>1
<1>3. /\ run[0] = Progress(T, "none", 0)
      /\ \A n \in 1 .. N : run[n] = Step(run[n - 1], ApplyInput(run[n - 1].tree, ld, lr, n))
  <2> HIDE DEF ld, lr, N
  <2> QED
    BY <1>2, RunUnfold DEF ld, lr
<1>4. 0 \in I
  <2>1. FirstOf(D, 0) = {} /\ FirstOf(S, 0 - dn) = {}
    BY <1>1, FirstOfFacts
  <2>2. T \in Tree /\ Ledger(T, deps, A, rows, X)
    BY DEF Buildable
  <2>3. A \cup FirstOf(D, 0) = A /\ X \cup FirstOf(S, 0 - dn) = X
    BY <2>1
  <2>4. LedTo(T, 0, deps, A, D, rows, X, S)
    BY <2>1, <2>2, <2>3 DEF LedTo, InSequence
  <2>5. run[0].tree = T
    BY <1>3 DEF Progress
  <2> QED
    BY <2>4, <2>5
<1>5. ASSUME NEW n \in Nat, n \in I PROVE n + 1 \in I
  <2> SUFFICES ASSUME n + 1 <= N, run[n + 1].error = "none"
               PROVE  LedTo(run[n + 1].tree, n + 1, deps, A, D, rows, X, S)
    OBVIOUS
  <2> DEFINE U == run[n].tree
             out == ApplyInput(U, ld, lr, n + 1)
  <2>1. n + 1 \in 1 .. N /\ n \in 0 .. N /\ n + 1 - 1 = n
    BY <1>2
  <2>2. run[n + 1] = Step(run[n], out)
    <3> HIDE DEF N, ld, lr
    <3> QED
      BY <1>3, <2>1
  <2>3. run[n].error = "none" /\ out.error = "none" /\ run[n + 1].tree = out.tree
    <3> HIDE DEF out
    <3> QED
      BY <2>2 DEF Step, Progress
  <2>4. LedTo(U, n, deps, A, D, rows, X, S)
    <3> HIDE DEF N
    <3> QED
      BY <1>5, <2>1, <2>3
  <2>5. out = IF n + 1 <= dn THEN ApplyDeposit(U, deps[InOrder(D)[n + 1]])
              ELSE ApplyTx(U, rows[InOrder(S)[n + 1 - dn]])
    BY <2>1, BuildNumbers
  <2> HIDE DEF U, out
  <2>6. CASE n + 1 <= dn
    <3>1. n + 1 \in 1 .. Cardinality(D) /\ out = ApplyDeposit(U, deps[InOrder(D)[n + 1]])
      BY <1>1, <2>5, <2>6
    <3>2. LedTo(U, n + 1 - 1, deps, A, D, rows, X, S)
      BY <2>1, <2>4
    <3>3. LedTo(out.tree, n + 1, deps, A, D, rows, X, S)
      BY <2>3, <3>1, <3>2, DepositInput
    <3> QED
      BY <2>3, <3>3
  <2>7. CASE ~ (n + 1 <= dn)
    <3>1. PICK m \in 1 .. Cardinality(S) : n + 1 = dn + m
      <4>1. n + 1 - dn \in 1 .. Cardinality(S) /\ n + 1 = dn + (n + 1 - dn)
        BY <1>1, <2>1, <2>7
      <4> QED
        BY <4>1
    <3>2. n = dn + m - 1 /\ n + 1 - dn = m
      <4> HIDE DEF dn, N, I, Good, ld, lr
      <4> QED
        BY <1>1, <3>1
    <3>3. LedTo(U, Cardinality(D) + m - 1, deps, A, D, rows, X, S)
      BY <2>4, <3>2
    <3>4. out = ApplyTx(U, rows[InOrder(S)[m]])
      BY <2>5, <2>7, <3>2
    <3>5. ~Refuses(U, rows[InOrder(S)[m]], out.error)
      BY <2>3 DEF Refuses
    <3>6. LedTo(out.tree, Cardinality(D) + m, deps, A, D, rows, X, S)
      BY <3>3, <3>4, <3>5, TxInput
    <3> QED
      BY <2>3, <3>1, <3>6
  <2> QED
    BY <2>6, <2>7
<1>6. \A n \in Nat : n \in I
  <2> HIDE DEF I
  <2> QED
    BY <1>4, <1>5, SetInduction
<1>7. ASSUME NEW n \in 0 .. N PROVE Good(n)
  <2>1. n \in Nat /\ n <= N
    BY <1>2
  <2> HIDE DEF N, Good
  <2> QED
    BY <1>6, <2>1
<1> QED
  BY <1>7

(* What a build of build_batch_now comes to.                               *)
LEMMA StatusSets ==
  ASSUME TypeOK
  PROVE  /\ Consumed \in SUBSET DepIds /\ PendingDeps \in SUBSET (DepIds \ Consumed)
         /\ TakenDeps \in SUBSET PendingDeps
         /\ Included \in SUBSET TxIds /\ PendingTxs \in SUBSET (TxIds \ Included)
<1>1. TakenDeps \in SUBSET PendingDeps
  BY DEF TakenDeps, FirstOf
<1>2. Consumed \in SUBSET DepIds /\ PendingDeps \in SUBSET (DepIds \ Consumed)
  BY DEF Consumed, PendingDeps
<1>3. Included \in SUBSET TxIds /\ PendingTxs \in SUBSET (TxIds \ Included)
  BY DEF Included, PendingTxs
<1> QED
  BY <1>1, <1>2, <1>3

LEMMA BuildStarts ==
  ASSUME TypeOK, BatchInv, LedgerInv, RowsInv, building
  PROVE  /\ batch = NoBatch /\ tree = leaves
         /\ Buildable(tree, deposits, Consumed, TakenDeps, mempool, Included, txs)
<1>1. batch = NoBatch /\ txs \in SUBSET PendingTxs
  BY DEF BatchInv
<1>2. batch.status = "none"
  BY <1>1 DEF NoBatch
<1>3. tree = leaves
  BY <1>2 DEF BatchInv
<1>4. tree \in Tree /\ deposits \in Seq(DepRow) /\ mempool \in Seq(TxRow)
  BY DEF TypeOK
<1>5. /\ Consumed \in SUBSET DOMAIN deposits /\ TakenDeps \in SUBSET (DOMAIN deposits \ Consumed)
      /\ Included \in SUBSET DOMAIN mempool /\ txs \in SUBSET (DOMAIN mempool \ Included)
  BY <1>1, StatusSets DEF DepIds, TxIds
<1>6. Ledger(tree, deposits, Consumed, mempool, Included)
  BY <1>3 DEF LedgerInv
<1>7. WellFormed(mempool)
  BY DEF RowsInv
<1>8. Value(deposits, Consumed \cup TakenDeps) <= MaxBalance + Value(mempool, Withdrawn(mempool, Included))
  <2>1. Paid = Withdrawn(mempool, Included)
    BY <1>2 DEF Paid
  <2>2. Value(deposits, DepIds) <= Supply + Value(mempool, Withdrawn(mempool, Included))
    BY <2>1 DEF LedgerInv
  <2>3. Priced(deposits, DepIds)
    BY <1>4, DepRows DEF DepIds
  <2>4. Consumed \cup TakenDeps \in SUBSET DepIds
    BY <1>5 DEF DepIds
  <2>5. /\ Value(deposits, Consumed \cup TakenDeps) <= Value(deposits, DepIds)
        /\ Value(deposits, Consumed \cup TakenDeps) \in Nat
    BY <2>3, <2>4, ValuePart
  <2>6. Value(mempool, Withdrawn(mempool, Included)) \in Nat
    BY <1>4, <1>5, RowNumbers
  <2>7. Supply \in Nat /\ MaxBalance \in Nat /\ Supply <= MaxBalance
    BY AccountsAssumption, MempoolAssumption
  <2>8. Value(deposits, DepIds) \in Nat
    BY <2>3, ValueType
  <2> DEFINE w == Value(mempool, Withdrawn(mempool, Included))
             v == Value(deposits, DepIds)
             c == Value(deposits, Consumed \cup TakenDeps)
  <2>9. v <= Supply + w /\ c <= v /\ c \in Nat /\ w \in Nat /\ v \in Nat
    BY <2>2, <2>5, <2>6, <2>8
  <2> HIDE DEF w, v, c
  <2>10. c <= MaxBalance + w
    BY <2>7, <2>9
  <2> QED
    BY <2>10 DEF c, w
<1> QED
  BY <1>1, <1>3, <1>4, <1>5, <1>6, <1>7, <1>8 DEF Buildable

LEMMA AttemptOutcome ==
  ASSUME TypeOK, BatchInv, LedgerInv, RowsInv, building
  PROVE  \/ /\ Attempt.error = "none" /\ Attempt.tree \in Tree
            /\ Ledger(Attempt.tree, deposits, Consumed \cup TakenDeps, mempool, Included \cup txs)
            /\ InSequence(mempool, Included, txs)
         \/ Attempt.error = "TreeFull"
         \/ \E m \in 1 .. Cardinality(txs) : \E U :
              /\ RefusedTx = InOrder(txs)[m]
              /\ LedTo(U, Cardinality(TakenDeps) + m - 1, deposits, Consumed, TakenDeps,
                       mempool, Included, txs)
              /\ Refuses(U, mempool[RefusedTx], Attempt.error)
<1> DEFINE D == TakenDeps
           S == txs
           ld == Listed(deposits, D)
           lr == Listed(mempool, S)
           dn == Cardinality(D)
           N == dn + Cardinality(S)
           run == Run(tree, ld, lr)
           Good(U, n) == LedTo(U, n, deposits, Consumed, D, mempool, Included, S)
<1>1. Buildable(tree, deposits, Consumed, D, mempool, Included, S)
  BY BuildStarts
<1> HIDE DEF D
<1>2. /\ D \in SUBSET Nat /\ IsFiniteSet(D) /\ dn \in Nat
      /\ S \in SUBSET Nat /\ IsFiniteSet(S) /\ Cardinality(S) \in Nat
      /\ Len(ld) = dn /\ Len(lr) = Cardinality(S)
  BY <1>1, BuildNumbers
<1>3. \A n \in 1 .. N : \A U :
        ApplyInput(U, ld, lr, n)
          = IF n <= dn THEN ApplyDeposit(U, deposits[InOrder(D)[n]])
            ELSE ApplyTx(U, mempool[InOrder(S)[n - dn]])
  BY <1>1, BuildNumbers
<1>4. \A n \in 0 .. N : run[n].error = "none" => Good(run[n].tree, n)
  BY <1>1, BuildRuns
<1>5. N \in Nat /\ Len(ld) + Len(lr) = N
  BY <1>2
<1>6. Attempt = run[N]
  BY <1>5 DEF Attempt, BuildBatch, D
<1> HIDE DEF ld, lr, run, dn, N
<1>7. \A n \in 0 .. N :
        \/ run[n].error = "none" /\ run[n].applied = n
        \/ \E m \in 1 .. n :
             /\ run[m - 1].error = "none" /\ run[m - 1].applied = m - 1
             /\ run[n].error = ApplyInput(run[m - 1].tree, ld, lr, m).error
             /\ run[n].error # "none" /\ run[n].applied = m - 1
  BY <1>5, RunStops DEF run
<1>8. CASE run[N].error = "none"
  <2>1. Good(run[N].tree, N)
    BY <1>4, <1>5, <1>8
  <2>2. FirstOf(D, N) = D /\ FirstOf(S, N - dn) = S
    <3>1. N \in Int /\ N >= dn /\ N - dn \in Int /\ N - dn >= Cardinality(S)
      BY <1>2 DEF N
    <3> QED
      BY <1>2, <3>1, FirstOfFacts DEF dn
  <2>3. /\ run[N].tree \in Tree
        /\ Ledger(run[N].tree, deposits, Consumed \cup FirstOf(D, N), mempool, Included \cup FirstOf(S, N - dn))
        /\ InSequence(mempool, Included, FirstOf(S, N - dn))
    BY <2>1 DEF LedTo, dn
  <2> QED
    BY <1>6, <1>8, <2>2, <2>3 DEF D
<1>9. CASE run[N].error # "none"
  <2>1. PICK n \in 1 .. N :
             /\ run[n - 1].error = "none"
             /\ run[N].error = ApplyInput(run[n - 1].tree, ld, lr, n).error
             /\ run[N].applied = n - 1
    BY <1>5, <1>7, <1>9
  <2> DEFINE U == run[n - 1].tree
             out == ApplyInput(U, ld, lr, n)
  <2>2. Good(U, n - 1)
    BY <1>4, <1>5, <2>1
  <2>3. out = IF n <= dn THEN ApplyDeposit(U, deposits[InOrder(D)[n]])
              ELSE ApplyTx(U, mempool[InOrder(S)[n - dn]])
    BY <1>3
  <2>4. run[N].error = out.error
    BY <2>1
  <2> HIDE DEF U, out
  <2>5. CASE n <= dn
    <3>1. n \in 1 .. Cardinality(D) /\ out = ApplyDeposit(U, deposits[InOrder(D)[n]])
      BY <1>2, <2>3, <2>5 DEF dn
    <3>2. out.error = "TreeFull"
      BY <1>1, <1>9, <2>2, <2>4, <3>1, DepositInput
    <3> QED
      BY <1>6, <2>4, <3>2
  <2>6. CASE ~ (n <= dn)
    <3>1. PICK m \in 1 .. Cardinality(S) : n = dn + m
      <4>1. n - dn \in 1 .. Cardinality(S) /\ n = dn + (n - dn)
        BY <1>2, <2>6 DEF N
      <4> QED
        BY <4>1
    <3>2. n - 1 = dn + m - 1 /\ n - dn = m /\ n - 1 - dn + 1 = m
      BY <1>2, <3>1
    <3>3. Good(U, dn + m - 1)
      BY <2>2, <3>2
    <3>4. out = ApplyTx(U, mempool[InOrder(S)[m]])
      BY <2>3, <2>6, <3>2
    <3>5. Refuses(U, mempool[InOrder(S)[m]], out.error)
      <4>1. LedTo(U, Cardinality(D) + m - 1, deposits, Consumed, D, mempool, Included, S)
        BY <3>3 DEF dn
      <4> QED
        BY <1>1, <1>9, <2>4, <3>4, <4>1, TxInput
    <3>6. RefusedTx = InOrder(S)[m]
      <4>1. Attempt.applied = n - 1
        BY <1>6, <2>1
      <4> QED
        BY <3>2, <4>1 DEF RefusedTx, D, dn
    <3>7. Refuses(U, mempool[RefusedTx], Attempt.error)
      BY <1>6, <2>4, <3>5, <3>6
    <3> QED
      BY <3>3, <3>6, <3>7 DEF D, dn
  <2> QED
    BY <2>5, <2>6
<1> QED
  BY <1>8, <1>9

-----------------------------------------------------------------------------
(* Changes of status.                                                      *)

SameDeps(deps, other) ==
  /\ DOMAIN other = DOMAIN deps
  /\ \A d \in DOMAIN deps : other[d].to = deps[d].to /\ other[d].amount = deps[d].amount

SameRows(rows, other) ==
  /\ DOMAIN other = DOMAIN rows
  /\ \A t \in DOMAIN rows :
       /\ other[t].from = rows[t].from /\ other[t].to = rows[t].to
       /\ other[t].amount = rows[t].amount /\ other[t].nonce = rows[t].nonce
       /\ other[t].withdraw = rows[t].withdraw

(* What a status does not tell is not lost with it.                        *)
LEMMA DepsKept ==
  ASSUME NEW deps, NEW other, SameDeps(deps, other)
  PROVE  /\ \A D \in SUBSET DOMAIN deps : Value(other, D) = Value(deps, D)
         /\ \A D \in SUBSET DOMAIN deps : \A k : DepsTo(other, D, k) = DepsTo(deps, D, k)
<1>1. ASSUME NEW D \in SUBSET DOMAIN deps PROVE Value(other, D) = Value(deps, D)
  BY ValueSame DEF SameDeps
<1>2. ASSUME NEW D \in SUBSET DOMAIN deps, NEW k PROVE DepsTo(other, D, k) = DepsTo(deps, D, k)
  BY DEF SameDeps, DepsTo
<1> QED
  BY <1>1, <1>2

LEMMA RowsKept ==
  ASSUME NEW rows, NEW other, SameRows(rows, other)
  PROVE  /\ \A X \in SUBSET DOMAIN rows : /\ Value(other, X) = Value(rows, X)
                                          /\ Withdrawn(other, X) = Withdrawn(rows, X)
         /\ \A X \in SUBSET DOMAIN rows : \A k : TxsBy(other, X, k) = TxsBy(rows, X, k)
         /\ WellFormed(rows) => WellFormed(other)
         /\ \A X, S \in SUBSET DOMAIN rows :
              InSequence(rows, X, S) => InSequence(other, X, S)
         /\ Numbered(rows) => Numbered(other)
         /\ \A X \in SUBSET DOMAIN rows : SettledFirst(rows, X) => SettledFirst(other, X)
<1>1. ASSUME NEW X \in SUBSET DOMAIN rows
      PROVE  Value(other, X) = Value(rows, X) /\ Withdrawn(other, X) = Withdrawn(rows, X)
  <2>1. Value(other, X) = Value(rows, X)
    BY ValueSame DEF SameRows
  <2>2. Withdrawn(other, X) = Withdrawn(rows, X)
    BY DEF SameRows, Withdrawn
  <2> QED
    BY <2>1, <2>2
<1>2. \A X \in SUBSET DOMAIN rows : \A k : TxsBy(other, X, k) = TxsBy(rows, X, k)
  BY DEF SameRows, TxsBy
<1>3. WellFormed(rows) => WellFormed(other)
  BY DEF SameRows, WellFormed
<1>4. ASSUME NEW X \in SUBSET DOMAIN rows, NEW S \in SUBSET DOMAIN rows, InSequence(rows, X, S)
      PROVE  InSequence(other, X, S)
  BY <1>2, <1>4 DEF SameRows, InSequence
<1>5. Numbered(rows) => Numbered(other)
  <2>1. DOMAIN rows \in SUBSET DOMAIN rows
    OBVIOUS
  <2> QED
    BY <1>2, <2>1 DEF SameRows, Numbered
<1>6. ASSUME NEW X \in SUBSET DOMAIN rows, SettledFirst(rows, X)
      PROVE  SettledFirst(other, X)
  BY <1>6 DEF SameRows, SettledFirst
<1> QED
  BY <1>1, <1>2, <1>3, <1>4, <1>5, <1>6

LEMMA HeldAccount ==
  ASSUME NEW T \in Tree, NEW k, Holds(T, k)
  PROVE  /\ AccountOf(T, k).balance \in Nat /\ AccountOf(T, k).nonce \in Nat
         /\ \E i \in Slot : T[i].pk = k /\ Find(T, k) = {i} /\ AccountOf(T, k) = T[i]
<1>1. PICK i \in Find(T, k) : TRUE
  BY DEF Holds
<1>2. i \in Slot /\ T[i].pk = k /\ Find(T, k) = {i} /\ AccountOf(T, k) = T[i]
  BY FindOne
<1>3. T[i].balance \in Nat /\ T[i].nonce \in Nat
  BY <1>2, AccountsAssumption DEF Tree, Account
<1> QED
  BY <1>2, <1>3

LEMMA LedgerKept ==
  ASSUME NEW deps, NEW deps2, NEW rows, NEW rows2,
         SameDeps(deps, deps2), SameRows(rows, rows2),
         NEW T, NEW D \in SUBSET DOMAIN deps, NEW X \in SUBSET DOMAIN rows,
         Ledger(T, deps, D, rows, X)
  PROVE  Ledger(T, deps2, D, rows2, X)
<1>1. \A d \in D : deps[d].to = deps2[d].to /\ deps[d].amount = deps2[d].amount
  BY DEF SameDeps
<1>2. \A t \in X : /\ rows[t].from = rows2[t].from /\ rows[t].to = rows2[t].to
                   /\ rows[t].amount = rows2[t].amount /\ rows[t].withdraw = rows2[t].withdraw
  BY DEF SameRows
<1> QED
  BY <1>1, <1>2, LedgerSame

LEMMA BothKept ==
  ASSUME NEW deps, NEW deps2, NEW rows, NEW rows2,
         SameDeps(deps, deps2), SameRows(rows, rows2)
  PROVE  /\ RecipientsFunded(deps, rows) => RecipientsFunded(deps2, rows2)
         /\ \A T : SendersHeld(T, rows) => SendersHeld(T, rows2)
         /\ \A T \in Tree, S, R \in SUBSET DOMAIN rows :
              rows \in Seq(TxRow) /\ FundsCover(T, rows, S) /\ R \subseteq S => FundsCover(T, rows2, R)
<1>2. RecipientsFunded(deps, rows) => RecipientsFunded(deps2, rows2)
  <2>1. \A k : DepsTo(deps2, DOMAIN deps2, k) = DepsTo(deps, DOMAIN deps, k)
    BY DepsKept, DOMAIN deps \in SUBSET DOMAIN deps DEF SameDeps
  <2> QED
    BY <2>1 DEF SameRows, RecipientsFunded
<1>3. \A T : SendersHeld(T, rows) => SendersHeld(T, rows2)
  BY DEF SendersHeld, SameRows
<1>4. ASSUME NEW T \in Tree, NEW S \in SUBSET DOMAIN rows, NEW R \in SUBSET DOMAIN rows,
             rows \in Seq(TxRow), FundsCover(T, rows, S), R \subseteq S
      PROVE  FundsCover(T, rows2, R)
  <2> SUFFICES ASSUME NEW k \in Key, Holds(T, k)
               PROVE  Value(rows2, TxsBy(rows2, R, k)) <= AccountOf(T, k).balance
    BY DEF FundsCover
  <2>1. Value(rows, TxsBy(rows, S, k)) <= AccountOf(T, k).balance
    BY <1>4 DEF FundsCover
  <2>2. TxsBy(rows2, R, k) = TxsBy(rows, R, k)
    BY RowsKept
  <2>3. TxsBy(rows, R, k) \in SUBSET DOMAIN rows /\ TxsBy(rows, S, k) \in SUBSET DOMAIN rows
    BY DEF TxsBy
  <2>4. Value(rows2, TxsBy(rows, R, k)) = Value(rows, TxsBy(rows, R, k))
    BY <2>3, RowsKept
  <2>5. TxsBy(rows, R, k) \in SUBSET TxsBy(rows, S, k)
    BY <1>4 DEF TxsBy
  <2>6. Priced(rows, TxsBy(rows, S, k))
    BY <1>4, <2>3, TxRows
  <2>7. /\ Value(rows, TxsBy(rows, R, k)) <= Value(rows, TxsBy(rows, S, k))
        /\ Value(rows, TxsBy(rows, R, k)) \in Nat
    BY <2>5, <2>6, ValuePart
  <2>8. Value(rows, TxsBy(rows, S, k)) \in Nat
    BY <2>6, ValueType
  <2>9. AccountOf(T, k).balance \in Nat
    BY HeldAccount
  <2> QED
    BY <2>1, <2>2, <2>4, <2>7, <2>8, <2>9
<1> QED
  BY <1>2, <1>3, <1>4

(* Inputs that get a status.                                               *)
LEMMA StatusSet ==
  ASSUME TypeOK
  PROVE  /\ \A D \in SUBSET DepIds, s \in {"pending", "batching", "consumed"} :
              /\ DepStatus(D, s) \in Seq(DepRow) /\ SameDeps(deposits, DepStatus(D, s))
              /\ \A d \in DepIds :
                   DepStatus(D, s)[d].status = IF d \in D THEN s ELSE deposits[d].status
         /\ \A X \in SUBSET TxIds, s \in {"pending", "batching", "included"} :
              /\ TxStatus(X, s) \in Seq(TxRow) /\ SameRows(mempool, TxStatus(X, s))
              /\ \A t \in TxIds :
                   TxStatus(X, s)[t].status = IF t \in X THEN s ELSE mempool[t].status
<1>1. ASSUME NEW D \in SUBSET DepIds, NEW s \in {"pending", "batching", "consumed"}
      PROVE  /\ DepStatus(D, s) \in Seq(DepRow) /\ SameDeps(deposits, DepStatus(D, s))
             /\ \A d \in DepIds :
                  DepStatus(D, s)[d].status = IF d \in D THEN s ELSE deposits[d].status
  <2> DEFINE other == DepStatus(D, s)
  <2>1. DepIds = 1 .. Len(deposits) /\ Len(deposits) \in Nat /\ \A d \in DepIds : deposits[d] \in DepRow
    BY DEF TypeOK, DepIds
  <2>2. /\ DOMAIN other = DepIds
        /\ \A d \in DepIds :
             other[d] = IF d \in D THEN [deposits[d] EXCEPT !.status = s] ELSE deposits[d]
    BY DEF DepStatus
  <2>3. ASSUME NEW d \in DepIds
        PROVE  /\ other[d] \in DepRow /\ other[d].to = deposits[d].to
               /\ other[d].amount = deposits[d].amount
               /\ other[d].status = IF d \in D THEN s ELSE deposits[d].status
    <3> HIDE DEF other
    <3>1. deposits[d] \in DepRow
      BY <2>1
    <3>2. CASE d \in D
      <4>1. other[d] = [deposits[d] EXCEPT !.status = s]
        BY <2>2, <3>2
      <4> QED
        BY <3>1, <3>2, <4>1 DEF DepRow
    <3>3. CASE d \notin D
      BY <2>2, <3>1, <3>3
    <3> QED
      BY <3>2, <3>3
  <2>4. other \in [1 .. Len(deposits) -> DepRow]
    <3>1. other = [d \in 1 .. Len(deposits) |-> other[d]]
      BY <2>1 DEF DepStatus
    <3> HIDE DEF other
    <3> QED
      BY <2>1, <2>3, <3>1
  <2>5. other \in Seq(DepRow)
    <3> HIDE DEF other
    <3> QED
      BY <2>1, <2>4
  <2>6. SameDeps(deposits, other)
    <3> HIDE DEF other
    <3> QED
      BY <2>2, <2>3 DEF SameDeps, DepIds
  <2> QED
    BY <2>3, <2>5, <2>6
<1>2. ASSUME NEW X \in SUBSET TxIds, NEW s \in {"pending", "batching", "included"}
      PROVE  /\ TxStatus(X, s) \in Seq(TxRow) /\ SameRows(mempool, TxStatus(X, s))
             /\ \A t \in TxIds :
                  TxStatus(X, s)[t].status = IF t \in X THEN s ELSE mempool[t].status
  <2> DEFINE other == TxStatus(X, s)
  <2>1. TxIds = 1 .. Len(mempool) /\ Len(mempool) \in Nat /\ \A t \in TxIds : mempool[t] \in TxRow
    BY DEF TypeOK, TxIds
  <2>2. /\ DOMAIN other = TxIds
        /\ \A t \in TxIds :
             other[t] = IF t \in X THEN [mempool[t] EXCEPT !.status = s] ELSE mempool[t]
    BY DEF TxStatus
  <2>3. ASSUME NEW t \in TxIds
        PROVE  /\ other[t] \in TxRow /\ other[t].to = mempool[t].to
               /\ other[t].from = mempool[t].from /\ other[t].nonce = mempool[t].nonce
               /\ other[t].amount = mempool[t].amount /\ other[t].withdraw = mempool[t].withdraw
               /\ other[t].status = IF t \in X THEN s ELSE mempool[t].status
    <3> HIDE DEF other
    <3>1. mempool[t] \in TxRow
      BY <2>1
    <3>2. CASE t \in X
      <4>1. other[t] = [mempool[t] EXCEPT !.status = s]
        BY <2>2, <3>2
      <4> QED
        BY <3>1, <3>2, <4>1 DEF TxRow
    <3>3. CASE t \notin X
      BY <2>2, <3>1, <3>3
    <3> QED
      BY <3>2, <3>3
  <2>4. other \in [1 .. Len(mempool) -> TxRow]
    <3>1. other = [t \in 1 .. Len(mempool) |-> other[t]]
      BY <2>1 DEF TxStatus
    <3> HIDE DEF other
    <3> QED
      BY <2>1, <2>3, <3>1
  <2>5. other \in Seq(TxRow)
    <3> HIDE DEF other
    <3> QED
      BY <2>1, <2>4
  <2>6. SameRows(mempool, other)
    <3> HIDE DEF other
    <3> QED
      BY <2>2, <2>3 DEF SameRows, TxIds
  <2> QED
    BY <2>3, <2>5, <2>6
<1> QED
  BY <1>1, <1>2

(* A step that changes statuses at most, and no confirmed account.         *)
Restatused == SameDeps(deposits, deposits') /\ SameRows(mempool, mempool')

LEMMA RestatusedInv ==
  ASSUME AdmissionInv, Restatused, leaves' = leaves, faults' = faults,
         Consumed' = Consumed, Included' = Included, Live' \subseteq Live,
         InSequence(mempool, Included, batch'.txs) /\ batch'.txs \in SUBSET TxIds
  PROVE  /\ Ledger(leaves, deposits, Consumed, mempool, Included)'
         /\ Value(deposits, DepIds)' = Value(deposits, DepIds)
         /\ RowsInv' /\ ShadowInv'
<1>1. /\ DepIds' = DepIds /\ TxIds' = TxIds /\ Consumed \in SUBSET DepIds /\ Included \in SUBSET TxIds
      /\ Live \in SUBSET TxIds /\ Live' \in SUBSET TxIds
  BY DEF Restatused, SameDeps, SameRows, DepIds, TxIds, Consumed, Included, Live
<1>2. SameDeps(deposits, deposits') /\ SameRows(mempool, mempool')
  BY DEF Restatused
<1>3. Ledger(leaves', deposits', Consumed', mempool', Included')
  <2>1. Ledger(leaves, deposits, Consumed, mempool, Included)
    BY DEF AdmissionInv, LedgerInv
  <2>2. Ledger(leaves, deposits', Consumed, mempool', Included)
    BY <1>1, <1>2, <2>1, LedgerKept DEF DepIds, TxIds
  <2> QED
    BY <2>2
<1>4. Value(deposits', DepIds') = Value(deposits, DepIds)
  BY <1>1, <1>2, DepsKept, DepIds \in SUBSET DepIds DEF DepIds
<1>5. RowsInv'
  <2>1. WellFormed(mempool) /\ RecipientsFunded(deposits, mempool)
    BY DEF AdmissionInv, RowsInv
  <2>2. WellFormed(mempool') /\ RecipientsFunded(deposits', mempool')
    BY <1>2, <2>1, RowsKept, BothKept
  <2>3. InSequence(mempool', Included, batch'.txs)
    BY <1>1, <1>2, RowsKept DEF TxIds
  <2> QED
    BY <2>2, <2>3 DEF RowsInv
<1>6. ShadowInv'
  <2> SUFFICES ASSUME faults = 0
               PROVE  /\ SendersHeld(leaves', mempool') /\ Numbered(mempool')
                      /\ SettledFirst(mempool', Included')
                      /\ FundsCover(leaves', mempool', Live')
    BY DEF ShadowInv
  <2>1. /\ SendersHeld(leaves, mempool) /\ Numbered(mempool)
        /\ SettledFirst(mempool, Included) /\ FundsCover(leaves, mempool, Live)
    BY DEF AdmissionInv, ShadowInv
  <2>2. SendersHeld(leaves, mempool')
    BY <1>2, <2>1, BothKept
  <2>3. Numbered(mempool') /\ SettledFirst(mempool', Included)
    BY <1>1, <1>2, <2>1, RowsKept DEF TxIds
  <2>4. FundsCover(leaves, mempool', Live')
    <3>1. mempool \in Seq(TxRow) /\ leaves \in Tree
      BY DEF AdmissionInv, TypeOK
    <3> QED
      BY <1>1, <1>2, <2>1, <3>1, BothKept DEF TxIds
  <2> QED
    BY <2>2, <2>3, <2>4
<1> QED
  BY <1>3, <1>4, <1>5, <1>6

-----------------------------------------------------------------------------
(* Each step keeps the invariant.  First those that leave the rows alone.  *)

LEMMA QuietStep ==
  ASSUME AdmissionInv, UNCHANGED <<leaves, deposits, mempool, batch, paid>>,
         faults' # 0 \/ faults' = faults,
         tree' \in Tree, faults' \in 0 .. MaxFaults,
         building' \in BOOLEAN, txs' \subseteq TxIds,
         building' => batch = NoBatch /\ txs' \subseteq PendingTxs,
         tree' = leaves \/ (faults' > 0 /\ batch.status = "landed" /\ tree' = batch.new)
  PROVE  AdmissionInv'
<1>1. LedgerInv'
  <2>1. LedgerInv
    BY DEF AdmissionInv
  <2> QED
    BY <2>1 DEF LedgerInv, Paid, Consumed, Included, DepIds, TxIds
<1>2. RowsInv'
  <2>1. RowsInv
    BY DEF AdmissionInv
  <2> QED
    BY <2>1 DEF RowsInv, Included, TxIds
<1>3. ShadowInv'
  <2>1. ShadowInv
    BY DEF AdmissionInv
  <2> QED
    BY <2>1 DEF ShadowInv, Included, Live, TxIds
<1>4. TypeOK'
  <2>1. TypeOK
    BY DEF AdmissionInv
  <2>2. /\ leaves' \in Tree /\ deposits' \in Seq(DepRow) /\ mempool' \in Seq(TxRow) /\ paid' \in Nat
        /\ batch' \in [deps : SUBSET DepIds, txs : SUBSET TxIds, new : Tree,
                       status : {"none", "built", "landed"}]
    BY <2>1 DEF TypeOK
  <2>3. DepIds' = DepIds /\ TxIds' = TxIds
    BY DEF DepIds, TxIds
  <2> QED
    BY <2>2, <2>3 DEF TypeOK
<1>5. BatchInv'
  <2>1. BatchInv
    BY DEF AdmissionInv
  <2>2. PendingTxs' = PendingTxs
    BY DEF PendingTxs, TxIds
  <2>3. (batch.status = "none" => batch = NoBatch)'
    BY <2>1 DEF BatchInv, NoBatch
  <2>4. /\ (batch.deps = {d \in DepIds : deposits[d].status = "batching"})'
        /\ (batch.txs = {t \in TxIds : mempool[t].status = "batching"})'
    BY <2>1 DEF BatchInv, DepIds, TxIds
  <2>5. (building => batch = NoBatch /\ txs \subseteq PendingTxs)'
    BY <2>2 DEF NoBatch
  <2> QED
    BY <2>3, <2>4, <2>5 DEF BatchInv
<1> QED
  BY <1>1, <1>2, <1>3, <1>4, <1>5 DEF AdmissionInv

LEMMA SelectedPending == Selected \subseteq PendingTxs
<1>1. Candidates \subseteq PendingTxs
  BY DEF Candidates, FirstOf
<1>2. WithinCap \subseteq Candidates
  BY DEF WithinCap
<1>3. Selected \subseteq WithinCap
  BY DEF Selected, FirstOf
<1> QED
  BY <1>1, <1>2, <1>3

LEMMA TryBuildInv == AdmissionInv /\ TryBuild => AdmissionInv'
<1> SUFFICES ASSUME AdmissionInv, TryBuild PROVE AdmissionInv'
  OBVIOUS
<1>1. TypeOK /\ BatchInv
  BY DEF AdmissionInv
<1>2. /\ building' = TRUE /\ batch = NoBatch /\ txs' \subseteq PendingTxs
      /\ UNCHANGED <<tree, leaves, deposits, mempool, batch, paid, faults>>
  BY SelectedPending DEF TryBuild
<1>3. txs' \subseteq TxIds
  BY <1>2 DEF PendingTxs
<1>4. tree' \in Tree /\ faults' \in 0 .. MaxFaults
  BY <1>1, <1>2 DEF TypeOK
<1>5. tree' = leaves \/ (faults' > 0 /\ batch.status = "landed" /\ tree' = batch.new)
  BY <1>1, <1>2 DEF BatchInv
<1> QED
  BY <1>2, <1>3, <1>4, <1>5, QuietStep

LEMMA StallInv == AdmissionInv /\ Stall => AdmissionInv'
<1> SUFFICES ASSUME AdmissionInv, Stall PROVE AdmissionInv'
  OBVIOUS
<1>1. TypeOK /\ BatchInv
  BY DEF AdmissionInv
<1>2. /\ building' = FALSE /\ txs' = {}
      /\ UNCHANGED <<tree, leaves, deposits, mempool, batch, paid, faults>>
  BY DEF Stall
<1>3. tree' \in Tree /\ faults' \in 0 .. MaxFaults
  BY <1>1, <1>2 DEF TypeOK
<1>4. tree' = leaves \/ (faults' > 0 /\ batch.status = "landed" /\ tree' = batch.new)
  BY <1>1, <1>2 DEF BatchInv
<1> QED
  BY <1>2, <1>3, <1>4, QuietStep

LEMMA RestartInv == AdmissionInv /\ Restart => AdmissionInv'
<1> SUFFICES ASSUME AdmissionInv, Restart PROVE AdmissionInv'
  OBVIOUS
<1>1. TypeOK
  BY DEF AdmissionInv
<1>2. /\ building' = FALSE /\ txs' = {} /\ tree' = leaves
      /\ UNCHANGED <<leaves, deposits, mempool, batch, paid, faults>>
  BY DEF Restart
<1>3. tree' \in Tree /\ faults' \in 0 .. MaxFaults
  BY <1>1, <1>2 DEF TypeOK
<1> QED
  BY <1>2, <1>3, QuietStep

LEMMA ConfirmFaultInv == AdmissionInv /\ ConfirmFault => AdmissionInv'
<1> SUFFICES ASSUME AdmissionInv, ConfirmFault PROVE AdmissionInv'
  OBVIOUS
<1>1. TypeOK
  BY DEF AdmissionInv
<1>2. /\ building = FALSE /\ building' = building /\ txs' = txs
      /\ UNCHANGED <<leaves, deposits, mempool, batch, paid>>
      /\ tree' = batch.new /\ batch.status = "landed"
      /\ faults' = faults + 1 /\ faults < MaxFaults
  BY <1>1 DEF ConfirmFault, Replays, TypeOK
<1>3. faults \in Nat /\ MaxFaults \in Nat
  BY <1>1, MempoolAssumption DEF TypeOK
<1>4. faults' \in 0 .. MaxFaults /\ faults' > 0 /\ faults' # 0
  BY <1>2, <1>3
<1>5. tree' \in Tree /\ txs' \subseteq TxIds
  BY <1>1, <1>2 DEF TypeOK
<1> QED
  BY <1>2, <1>4, <1>5, QuietStep

LEMMA StutterInv == AdmissionInv /\ UNCHANGED vars => AdmissionInv'
<1> SUFFICES ASSUME AdmissionInv, UNCHANGED vars PROVE AdmissionInv'
  OBVIOUS
<1>1. TypeOK /\ BatchInv
  BY DEF AdmissionInv
<1>2. UNCHANGED <<tree, leaves, deposits, mempool, batch, building, txs, paid, faults>>
  BY DEF vars
<1>3. tree' \in Tree /\ faults' \in 0 .. MaxFaults /\ building' \in BOOLEAN /\ txs' \subseteq TxIds
  BY <1>1, <1>2 DEF TypeOK
<1>4. /\ building' => batch = NoBatch /\ txs' \subseteq PendingTxs
      /\ tree' = leaves \/ (faults' > 0 /\ batch.status = "landed" /\ tree' = batch.new)
  BY <1>1, <1>2 DEF BatchInv
<1> QED
  BY <1>2, <1>3, <1>4, QuietStep

(* A batch that fails: its inputs are pending again.                       *)
LEMMA FailBatchInv == AdmissionInv /\ FailBatch => AdmissionInv'
<1> SUFFICES ASSUME AdmissionInv, FailBatch PROVE AdmissionInv'
  OBVIOUS
<1>1. TypeOK /\ BatchInv /\ LedgerInv
  BY DEF AdmissionInv
<1>2. /\ building = FALSE /\ batch.status = "built" /\ batch' = NoBatch
      /\ deposits' = DepStatus(batch.deps, "pending") /\ mempool' = TxStatus(batch.txs, "pending")
      /\ UNCHANGED <<tree, leaves, building, txs, paid, faults>>
  BY <1>1 DEF FailBatch, TypeOK
<1>3. /\ batch.deps \in SUBSET DepIds /\ batch.txs \in SUBSET TxIds
      /\ \A d \in DepIds : d \in batch.deps <=> deposits[d].status = "batching"
      /\ \A t \in TxIds : t \in batch.txs <=> mempool[t].status = "batching"
  BY <1>1 DEF TypeOK, BatchInv
<1>4. /\ deposits' \in Seq(DepRow) /\ SameDeps(deposits, deposits')
      /\ \A d \in DepIds : deposits'[d].status = IF d \in batch.deps THEN "pending" ELSE deposits[d].status
      /\ mempool' \in Seq(TxRow) /\ SameRows(mempool, mempool')
      /\ \A t \in TxIds : mempool'[t].status = IF t \in batch.txs THEN "pending" ELSE mempool[t].status
  BY <1>1, <1>2, <1>3, StatusSet
<1>5. DepIds' = DepIds /\ TxIds' = TxIds
  BY <1>4 DEF DepIds, TxIds, SameDeps, SameRows
<1>6. Consumed' = Consumed /\ Included' = Included /\ Live' = Live
  <2>1. \A d \in DepIds : deposits'[d].status = "consumed" <=> deposits[d].status = "consumed"
    BY <1>3, <1>4
  <2>2. \A t \in TxIds : mempool'[t].status = "included" <=> mempool[t].status = "included"
    BY <1>3, <1>4
  <2>3. \A t \in TxIds : mempool'[t].status \in {"pending", "batching"}
                           <=> mempool[t].status \in {"pending", "batching"}
    BY <1>3, <1>4
  <2> QED
    BY <1>5, <2>1, <2>2, <2>3 DEF Consumed, Included, Live
<1>7. /\ Ledger(leaves, deposits, Consumed, mempool, Included)'
      /\ Value(deposits, DepIds)' = Value(deposits, DepIds)
      /\ RowsInv' /\ ShadowInv'
  <2>1. InSequence(mempool, Included, batch'.txs) /\ batch'.txs \in SUBSET TxIds
    BY <1>2 DEF NoBatch, InSequence
  <2> QED
    BY <1>2, <1>4, <1>6, <2>1, RestatusedInv DEF Restatused
<1>8. LedgerInv'
  <2>1. batch'.status = "none"
    BY <1>2 DEF NoBatch
  <2>2. Paid = Withdrawn(mempool, Included) /\ Paid' = Withdrawn(mempool', Included)
    BY <1>2, <1>6, <2>1 DEF Paid
  <2>3. Value(mempool', Paid') = Value(mempool, Paid)
    <3>1. Included \in SUBSET DOMAIN mempool /\ Withdrawn(mempool, Included) \in SUBSET DOMAIN mempool
      BY DEF Included, TxIds, Withdrawn
    <3> QED
      BY <1>4, <2>2, <3>1, RowsKept
  <2>4. paid' = Value(mempool', Paid')
    BY <1>1, <1>2, <2>3 DEF LedgerInv
  <2>5. Value(deposits', DepIds') <= Supply + paid'
    BY <1>1, <1>2, <1>7 DEF LedgerInv
  <2> QED
    BY <1>7, <2>1, <2>4, <2>5 DEF LedgerInv
<1>9. TypeOK'
  <2>1. /\ batch'.deps = {} /\ batch'.txs = {} /\ batch'.new \in Tree
    BY <1>2, EmptyTreeFacts DEF NoBatch
  <2>2. batch' \in [deps : SUBSET DepIds', txs : SUBSET TxIds', new : Tree,
                    status : {"none", "built", "landed"}]
    BY <1>2, EmptyTreeFacts DEF NoBatch
  <2>3. /\ tree' \in Tree /\ leaves' \in Tree /\ building' \in BOOLEAN /\ txs' \subseteq TxIds'
        /\ paid' \in Nat /\ faults' \in 0 .. MaxFaults
    BY <1>1, <1>2, <1>5 DEF TypeOK
  <2> QED
    BY <1>4, <2>2, <2>3 DEF TypeOK
<1>10. BatchInv'
  <2>1. \A d \in DepIds : deposits'[d].status # "batching"
    BY <1>3, <1>4
  <2>2. \A t \in TxIds : mempool'[t].status # "batching"
    BY <1>3, <1>4
  <2>3. batch'.deps = {} /\ batch'.txs = {}
    BY <1>2 DEF NoBatch
  <2>4. tree' = leaves'
    BY <1>1, <1>2 DEF BatchInv
  <2>5. /\ (batch.deps = {d \in DepIds : deposits[d].status = "batching"})'
        /\ (batch.txs = {t \in TxIds : mempool[t].status = "batching"})'
    BY <1>5, <2>1, <2>2, <2>3
  <2>6. (batch.status = "none" => batch = NoBatch)' /\ ~building'
    BY <1>2 DEF NoBatch
  <2> QED
    BY <2>4, <2>5, <2>6 DEF BatchInv
<1> QED
  BY <1>1, <1>7, <1>8, <1>9, <1>10 DEF AdmissionInv

(* The contract applies a batch and pays its withdrawals.                  *)
LEMMA LandInv == AdmissionInv /\ Land => AdmissionInv'
<1> SUFFICES ASSUME AdmissionInv, Land PROVE AdmissionInv'
  OBVIOUS
<1> DEFINE W == Withdrawn(mempool, Included)
           B == Withdrawn(mempool, batch.txs)
<1>1. TypeOK /\ BatchInv /\ LedgerInv /\ RowsInv /\ ShadowInv
  BY DEF AdmissionInv
<1>2. /\ batch.status = "built" /\ batch' = [batch EXCEPT !.status = "landed"]
      /\ paid' = paid + Value(mempool, B)
      /\ UNCHANGED <<tree, leaves, deposits, mempool, building, txs, faults>>
  BY DEF Land, Withdrawn
<1>3. /\ batch'.deps = batch.deps /\ batch'.txs = batch.txs /\ batch'.new = batch.new
      /\ batch'.status = "landed"
      /\ batch' \in [deps : SUBSET DepIds, txs : SUBSET TxIds, new : Tree,
                     status : {"none", "built", "landed"}]
  BY <1>1, <1>2 DEF TypeOK
<1>4. /\ DepIds' = DepIds /\ TxIds' = TxIds /\ Consumed' = Consumed
      /\ Included' = Included /\ Live' = Live
  BY <1>2 DEF DepIds, TxIds, Consumed, Included, Live
<1>5. /\ mempool \in Seq(TxRow) /\ W \in SUBSET DOMAIN mempool /\ B \in SUBSET DOMAIN mempool
      /\ W \cap B = {}
  <2>1. mempool \in Seq(TxRow) /\ batch.txs \in SUBSET DOMAIN mempool
    BY <1>1 DEF TypeOK, TxIds
  <2>2. \A t \in batch.txs : mempool[t].status = "batching"
    BY <1>1 DEF BatchInv
  <2>3. \A t \in Included : mempool[t].status = "included" /\ t \in DOMAIN mempool
    BY DEF Included, TxIds
  <2> QED
    BY <2>1, <2>2, <2>3 DEF Withdrawn
<1>6. Paid = W /\ Paid' = W \cup B
  BY <1>2, <1>3, <1>4 DEF Paid
<1> HIDE DEF W, B
<1>7. Value(mempool, W \cup B) = Value(mempool, W) + Value(mempool, B) /\ Value(mempool, B) \in Nat
  <2>1. Priced(mempool, W) /\ Priced(mempool, B)
    BY <1>5, TxRows
  <2> QED
    BY <1>5, <2>1, ValueUnion
<1>8. paid \in Nat /\ paid' \in Nat /\ paid <= paid'
  BY <1>1, <1>2, <1>7 DEF TypeOK
<1>9. LedgerInv'
  <2>1. Ledger(leaves, deposits, Consumed, mempool, Included)'
    BY <1>1, <1>2, <1>4 DEF LedgerInv
  <2>2. Ledger(batch.new, deposits, Consumed \cup batch.deps, mempool, Included \cup batch.txs)'
    BY <1>1, <1>2, <1>3, <1>4 DEF LedgerInv
  <2>3. paid' = Value(mempool', Paid')
    <3>1. paid = Value(mempool, W)
      BY <1>1, <1>6 DEF LedgerInv
    <3> QED
      BY <1>2, <1>6, <1>7, <3>1
  <2>4. Value(deposits', DepIds') <= Supply + paid'
    <3>1. Value(deposits, DepIds) <= Supply + paid
      BY <1>1 DEF LedgerInv
    <3>2. Value(deposits, DepIds) \in Nat
      <4>1. Priced(deposits, DepIds)
        BY <1>1, DepRows DEF TypeOK, DepIds
      <4> QED
        BY <4>1, ValueType
    <3>3. Supply \in Nat
      BY MempoolAssumption, AccountsAssumption
    <3>4. Value(deposits', DepIds') = Value(deposits, DepIds)
      BY <1>2, <1>4
    <3> QED
      BY <1>8, <3>1, <3>2, <3>3, <3>4
  <2> QED
    BY <2>1, <2>2, <2>3, <2>4 DEF LedgerInv
<1>10. RowsInv' /\ ShadowInv'
  BY <1>1, <1>2, <1>3, <1>4 DEF RowsInv, ShadowInv
<1>11. TypeOK'
  BY <1>1, <1>2, <1>3, <1>4, <1>8 DEF TypeOK
<1>12. BatchInv'
  <2>1. ~building
    BY <1>1, <1>2 DEF BatchInv, NoBatch
  <2> QED
    BY <1>1, <1>2, <1>3, <1>4, <2>1 DEF BatchInv
<1> QED
  BY <1>9, <1>10, <1>11, <1>12 DEF AdmissionInv

(* A batch that is built: what AttemptOutcome says of a success.           *)
LEMMA InsertBatchInv == AdmissionInv /\ InsertBatch => AdmissionInv'
<1> SUFFICES ASSUME AdmissionInv, InsertBatch PROVE AdmissionInv'
  OBVIOUS
<1>1. TypeOK /\ BatchInv /\ LedgerInv /\ RowsInv
  BY DEF AdmissionInv
<1>2. /\ building /\ Attempt.error = "none"
      /\ batch' = [deps |-> TakenDeps, txs |-> txs, new |-> Attempt.tree, status |-> "built"]
      /\ deposits' = DepStatus(TakenDeps, "batching") /\ mempool' = TxStatus(txs, "batching")
      /\ building' = FALSE /\ txs' = {} /\ UNCHANGED <<tree, leaves, paid, faults>>
  BY DEF InsertBatch
<1>3. /\ Attempt.tree \in Tree
      /\ Ledger(Attempt.tree, deposits, Consumed \cup TakenDeps, mempool, Included \cup txs)
      /\ InSequence(mempool, Included, txs)
  <2>1. ~ \E m \in 1 .. Cardinality(txs) : \E U : Refuses(U, mempool[RefusedTx], Attempt.error)
    BY <1>2 DEF Refuses
  <2> QED
    BY <1>1, <1>2, <2>1, AttemptOutcome
<1>4. batch = NoBatch /\ tree = leaves /\ txs \in SUBSET PendingTxs
  BY <1>1, <1>2, BuildStarts DEF BatchInv
<1>5. /\ TakenDeps \in SUBSET DepIds /\ \A d \in TakenDeps : deposits[d].status = "pending"
      /\ txs \in SUBSET TxIds /\ \A t \in txs : mempool[t].status = "pending"
  BY <1>1, <1>4, StatusSets DEF PendingDeps, PendingTxs
<1>6. /\ \A d \in DepIds : deposits[d].status # "batching"
      /\ \A t \in TxIds : mempool[t].status # "batching"
  BY <1>1, <1>4 DEF BatchInv, NoBatch
<1>7. /\ deposits' \in Seq(DepRow) /\ SameDeps(deposits, deposits')
      /\ \A d \in DepIds : deposits'[d].status = IF d \in TakenDeps THEN "batching" ELSE deposits[d].status
      /\ mempool' \in Seq(TxRow) /\ SameRows(mempool, mempool')
      /\ \A t \in TxIds : mempool'[t].status = IF t \in txs THEN "batching" ELSE mempool[t].status
  BY <1>1, <1>2, <1>5, StatusSet
<1>8. DepIds' = DepIds /\ TxIds' = TxIds
  BY <1>7 DEF DepIds, TxIds, SameDeps, SameRows
<1>9. Consumed' = Consumed /\ Included' = Included /\ Live' = Live
  <2>1. \A d \in DepIds : deposits'[d].status = "consumed" <=> deposits[d].status = "consumed"
    BY <1>5, <1>7
  <2>2. \A t \in TxIds : mempool'[t].status = "included" <=> mempool[t].status = "included"
    BY <1>5, <1>7
  <2>3. \A t \in TxIds : mempool'[t].status \in {"pending", "batching"}
                           <=> mempool[t].status \in {"pending", "batching"}
    BY <1>5, <1>7
  <2> QED
    BY <1>8, <2>1, <2>2, <2>3 DEF Consumed, Included, Live
<1>10. /\ batch'.deps = TakenDeps /\ batch'.txs = txs /\ batch'.new = Attempt.tree
       /\ batch'.status = "built"
  BY <1>2
<1>11. /\ Ledger(leaves, deposits, Consumed, mempool, Included)'
       /\ Value(deposits, DepIds)' = Value(deposits, DepIds)
       /\ RowsInv' /\ ShadowInv'
  <2>1. InSequence(mempool, Included, batch'.txs) /\ batch'.txs \in SUBSET TxIds
    BY <1>3, <1>5, <1>10
  <2> QED
    BY <1>2, <1>7, <1>9, <2>1, RestatusedInv DEF Restatused
<1>12. LedgerInv'
  <2>1. Ledger(Attempt.tree, deposits', Consumed \cup TakenDeps, mempool', Included \cup txs)
    <3>1. /\ Consumed \cup TakenDeps \in SUBSET DOMAIN deposits
          /\ Included \cup txs \in SUBSET DOMAIN mempool
      BY <1>5 DEF Consumed, Included, DepIds, TxIds
    <3> QED
      BY <1>3, <1>7, <3>1, LedgerKept
  <2>2. Ledger(batch.new, deposits, Consumed \cup batch.deps, mempool, Included \cup batch.txs)'
    BY <1>9, <1>10, <2>1
  <2>3. Paid = Withdrawn(mempool, Included) /\ Paid' = Withdrawn(mempool', Included)
    BY <1>4, <1>9, <1>10 DEF Paid, NoBatch
  <2>4. Value(mempool', Paid') = Value(mempool, Paid)
    <3>1. Included \in SUBSET DOMAIN mempool /\ Withdrawn(mempool, Included) \in SUBSET DOMAIN mempool
      BY DEF Included, TxIds, Withdrawn
    <3> QED
      BY <1>7, <2>3, <3>1, RowsKept
  <2>5. paid' = Value(mempool', Paid')
    BY <1>1, <1>2, <2>4 DEF LedgerInv
  <2>6. Value(deposits', DepIds') <= Supply + paid'
    BY <1>1, <1>2, <1>11 DEF LedgerInv
  <2> QED
    BY <1>11, <2>2, <2>5, <2>6 DEF LedgerInv
<1>13. TypeOK'
  <2>1. batch' \in [deps : SUBSET DepIds', txs : SUBSET TxIds', new : Tree,
                    status : {"none", "built", "landed"}]
    BY <1>2, <1>3, <1>5, <1>8
  <2>2. /\ tree' \in Tree /\ leaves' \in Tree /\ building' \in BOOLEAN /\ txs' \subseteq TxIds'
        /\ paid' \in Nat /\ faults' \in 0 .. MaxFaults
    BY <1>1, <1>2 DEF TypeOK
  <2> QED
    BY <1>7, <2>1, <2>2 DEF TypeOK
<1>14. BatchInv'
  <2>1. \A d \in DepIds : d \in TakenDeps <=> deposits'[d].status = "batching"
    BY <1>6, <1>7
  <2>2. \A t \in TxIds : t \in txs <=> mempool'[t].status = "batching"
    BY <1>6, <1>7
  <2>3. /\ (batch.deps = {d \in DepIds : deposits[d].status = "batching"})'
        /\ (batch.txs = {t \in TxIds : mempool[t].status = "batching"})'
    BY <1>5, <1>8, <1>10, <2>1, <2>2
  <2>4. (batch.status = "none" => batch = NoBatch)' /\ ~building' /\ tree' = leaves'
    BY <1>2, <1>4, <1>10
  <2> QED
    BY <2>3, <2>4 DEF BatchInv
<1> QED
  BY <1>11, <1>12, <1>13, <1>14 DEF AdmissionInv

(* The row that a build rejects is one of its own.                         *)
LEMMA RefusedRow ==
  ASSUME TypeOK, BatchInv, LedgerInv, RowsInv, building, Attempt.error \in EvictableErrors
  PROVE  /\ RefusedTx \in txs
         /\ \E m \in 1 .. Cardinality(txs) : \E U :
              /\ RefusedTx = InOrder(txs)[m]
              /\ LedTo(U, Cardinality(TakenDeps) + m - 1, deposits, Consumed, TakenDeps,
                       mempool, Included, txs)
              /\ Refuses(U, mempool[RefusedTx], Attempt.error)
<1>1. \E m \in 1 .. Cardinality(txs) : \E U :
        /\ RefusedTx = InOrder(txs)[m]
        /\ LedTo(U, Cardinality(TakenDeps) + m - 1, deposits, Consumed, TakenDeps,
                 mempool, Included, txs)
        /\ Refuses(U, mempool[RefusedTx], Attempt.error)
  <2>1. Attempt.error # "none" /\ Attempt.error # "TreeFull"
    BY DEF EvictableErrors
  <2> QED
    BY <2>1, AttemptOutcome
<1>2. txs \in SUBSET Nat /\ IsFiniteSet(txs)
  BY BuildStarts, BuildNumbers
<1>3. RefusedTx \in txs
  BY <1>1, <1>2, InOrderFacts
<1> QED
  BY <1>1, <1>3

LEMMA EvictInv == AdmissionInv /\ Evict => AdmissionInv'
<1> SUFFICES ASSUME AdmissionInv, Evict PROVE AdmissionInv'
  OBVIOUS
<1>1. TypeOK /\ BatchInv /\ LedgerInv /\ RowsInv
  BY DEF AdmissionInv
<1> DEFINE r == RefusedTx
           why == Attempt.error
           row == [mempool[r] EXCEPT !.status = "rejected", !.reason = why]
<1>2. /\ building /\ why \in EvictableErrors
      /\ txs' = txs \ {r} /\ building' = (txs' # {} \/ TakenDeps # {})
      /\ UNCHANGED <<tree, leaves, deposits, batch, paid, faults>>
  BY DEF Evict
<1>3. mempool' = [mempool EXCEPT ![r] = row]
  <2>1. mempool' = [mempool EXCEPT ![r].status = "rejected", ![r].reason = why]
    BY DEF Evict
  <2>2. r \in DOMAIN mempool
    BY <1>1, <1>2, RefusedRow DEF TypeOK, TxIds
  <2> HIDE DEF r, why
  <2> QED
    BY <2>1, <2>2
<1>4. r \in txs /\ txs \in SUBSET PendingTxs /\ r \in TxIds /\ mempool[r].status = "pending"
  BY <1>1, <1>2, RefusedRow DEF BatchInv, PendingTxs
<1> HIDE DEF r, why
<1>5. batch = NoBatch /\ tree = leaves
  BY <1>1, <1>2, BuildStarts
<1>6. /\ TxIds = 1 .. Len(mempool) /\ Len(mempool) \in Nat /\ mempool \in Seq(TxRow)
      /\ mempool[r] \in TxRow
  BY <1>1, <1>4 DEF TypeOK, TxIds
<1>7. /\ row \in TxRow /\ row.status = "rejected" /\ row.to = mempool[r].to
      /\ row.from = mempool[r].from /\ row.nonce = mempool[r].nonce
      /\ row.amount = mempool[r].amount /\ row.withdraw = mempool[r].withdraw
  BY <1>2, <1>6 DEF TxRow
<1> HIDE DEF row
<1>8. /\ mempool' \in Seq(TxRow) /\ DOMAIN mempool' = TxIds
      /\ \A t \in TxIds : mempool'[t] = IF t = r THEN row ELSE mempool[t]
  <2>1. mempool \in [1 .. Len(mempool) -> TxRow]
    BY <1>6
  <2>2. mempool' \in [1 .. Len(mempool) -> TxRow]
    BY <1>3, <1>7, <2>1
  <2>3. mempool' \in Seq(TxRow)
    BY <1>6, <2>2
  <2> QED
    BY <1>3, <1>6, <2>1, <2>3
<1>9. SameRows(mempool, mempool') /\ SameDeps(deposits, deposits')
  BY <1>2, <1>7, <1>8 DEF SameRows, SameDeps, TxIds
<1>10. DepIds' = DepIds /\ TxIds' = TxIds /\ Consumed' = Consumed
  BY <1>2, <1>8 DEF DepIds, TxIds, Consumed
<1>11. \A t \in TxIds : mempool'[t].status = IF t = r THEN "rejected" ELSE mempool[t].status
  BY <1>7, <1>8
<1>12. Included' = Included /\ Live' \subseteq Live
  <2>1. \A t \in TxIds : mempool'[t].status = "included" <=> mempool[t].status = "included"
    BY <1>4, <1>11
  <2>2. \A t \in TxIds : mempool'[t].status \in {"pending", "batching"}
                           => mempool[t].status \in {"pending", "batching"}
    BY <1>11
  <2> QED
    BY <1>10, <2>1, <2>2 DEF Included, Live
<1>13. /\ Ledger(leaves, deposits, Consumed, mempool, Included)'
       /\ Value(deposits, DepIds)' = Value(deposits, DepIds)
       /\ RowsInv' /\ ShadowInv'
  <2>1. InSequence(mempool, Included, batch'.txs) /\ batch'.txs \in SUBSET TxIds
    BY <1>2, <1>5 DEF NoBatch, InSequence
  <2> QED
    BY <1>2, <1>9, <1>10, <1>12, <2>1, RestatusedInv DEF Restatused
<1>14. LedgerInv'
  <2>1. batch'.status = "none"
    BY <1>2, <1>5 DEF NoBatch
  <2>2. Paid = Withdrawn(mempool, Included) /\ Paid' = Withdrawn(mempool', Included)
    BY <1>2, <1>12, <2>1 DEF Paid
  <2>3. Value(mempool', Paid') = Value(mempool, Paid)
    <3>1. Included \in SUBSET DOMAIN mempool /\ Withdrawn(mempool, Included) \in SUBSET DOMAIN mempool
      BY DEF Included, TxIds, Withdrawn
    <3> QED
      BY <1>9, <2>2, <3>1, RowsKept
  <2>4. paid' = Value(mempool', Paid')
    BY <1>1, <1>2, <2>3 DEF LedgerInv
  <2>5. Value(deposits', DepIds') <= Supply + paid'
    BY <1>1, <1>2, <1>13 DEF LedgerInv
  <2> QED
    BY <1>13, <2>1, <2>4, <2>5 DEF LedgerInv
<1>15. TypeOK'
  <2>1. /\ tree' \in Tree /\ leaves' \in Tree /\ deposits' \in Seq(DepRow)
        /\ txs' \subseteq TxIds' /\ paid' \in Nat /\ faults' \in 0 .. MaxFaults
    BY <1>1, <1>2, <1>10 DEF TypeOK
  <2>2. batch' \in [deps : SUBSET DepIds', txs : SUBSET TxIds', new : Tree,
                    status : {"none", "built", "landed"}]
    BY <1>1, <1>2, <1>10 DEF TypeOK
  <2>3. building' \in BOOLEAN
    BY <1>2
  <2> QED
    BY <1>8, <2>1, <2>2, <2>3 DEF TypeOK
<1>16. BatchInv'
  <2>1. \A t \in TxIds : mempool[t].status = "batching" <=> mempool'[t].status = "batching"
    BY <1>4, <1>11
  <2>2. /\ (batch.deps = {d \in DepIds : deposits[d].status = "batching"})'
        /\ (batch.txs = {t \in TxIds : mempool[t].status = "batching"})'
    BY <1>1, <1>2, <1>10, <2>1 DEF BatchInv
  <2>3. txs' \subseteq PendingTxs'
    BY <1>2, <1>4, <1>10, <1>11 DEF PendingTxs
  <2>4. (batch.status = "none" => batch = NoBatch)' /\ batch' = NoBatch /\ tree' = leaves'
    BY <1>2, <1>5 DEF NoBatch
  <2> QED
    BY <2>2, <2>3, <2>4 DEF BatchInv, NoBatch
<1> QED
  BY <1>13, <1>14, <1>15, <1>16 DEF AdmissionInv

(* A confirmation.  What it settles are the next rows of each sender ...   *)
LEMMA SettleInOrder ==
  ASSUME NEW rows \in Seq(TxRow), NEW X \in SUBSET DOMAIN rows, NEW S \in SUBSET (DOMAIN rows \ X),
         Numbered(rows), SettledFirst(rows, X), InSequence(rows, X, S)
  PROVE  SettledFirst(rows, X \cup S)
<1> SUFFICES ASSUME NEW t \in X \cup S, NEW u \in DOMAIN rows,
                    rows[u].from = rows[t].from, u < t
             PROVE  u \in X \cup S
  BY DEF SettledFirst
<1>1. CASE t \in X
  BY <1>1 DEF SettledFirst
<1>2. CASE t \in S
  <2> DEFINE k == rows[t].from
             R == TxsBy(rows, DOMAIN rows, k)
             XK == TxsBy(rows, X, k)
             SK == TxsBy(rows, S, k)
             Before == {v \in R : v < t}
             SB == {v \in SK : v < t}
  <2>1. /\ R \in SUBSET Nat /\ IsFiniteSet(R) /\ t \in Nat /\ t \in DOMAIN rows /\ t \notin X
        /\ IsFiniteSet(X) /\ IsFiniteSet(S)
    <3>1. R \in SUBSET DOMAIN rows /\ {t} \in SUBSET DOMAIN rows /\ S \in SUBSET DOMAIN rows
      BY <1>2 DEF TxsBy
    <3>2. {t} \in SUBSET Nat
      BY <3>1, TxRows
    <3> HIDE DEF R
    <3> QED
      BY <1>2, <3>1, <3>2, TxRows
  <2>2. ASSUME NEW v \in XK PROVE v \in R /\ v < t
    <3>1. v \in X /\ v \in DOMAIN rows /\ rows[v].from = k /\ v \in R
      BY DEF TxsBy
    <3>2. v \in Nat
      BY <2>1, <3>1
    <3>3. ~ (t < v)
      BY <2>1, <3>1 DEF SettledFirst
    <3>4. v # t
      BY <2>1, <3>1
    <3> QED
      BY <2>1, <3>1, <3>2, <3>3, <3>4
  <2>3. SB \in SUBSET R /\ XK \cap SB = {} /\ SB \in SUBSET S /\ XK \in SUBSET X
    BY DEF TxsBy
  <2>4. XK \cup SB \in SUBSET Before
    BY <2>2, <2>3
  <2>5. Cardinality(XK) + Cardinality(SB) = Cardinality(Before)
    <3>1. rows[t].nonce = Cardinality(XK) + Cardinality(SB)
      BY <1>2 DEF InSequence, Rank
    <3>2. rows[t].nonce = Cardinality(Before)
      BY <2>1 DEF Numbered, Rank
    <3> QED
      BY <3>1, <3>2
  <2>6. u \in Before
    BY <2>1 DEF TxsBy
  <2>7. \A v \in SB : v \in S
    BY <2>3
  <2>8. Before \in SUBSET R
    OBVIOUS
  <2> HIDE DEF R, XK, SK, SB, Before
  <2>9. IsFiniteSet(XK) /\ IsFiniteSet(SB) /\ IsFiniteSet(Before)
    BY <2>1, <2>3, <2>8, FS_Subset
  <2>10. Cardinality(XK \cup SB) = Cardinality(Before)
    <3>1. Cardinality(XK \cup SB) = Cardinality(XK) + Cardinality(SB) - Cardinality(XK \cap SB)
      BY <2>9, FS_Union
    <3>2. Cardinality({}) = 0 /\ Cardinality(XK) \in Nat /\ Cardinality(SB) \in Nat
      BY <2>9, FS_EmptySet, FS_CardinalityType
    <3>3. Cardinality(XK \cap SB) = 0
      BY <2>3, <3>2
    <3> QED
      BY <2>5, <3>1, <3>2, <3>3
  <2>11. XK \cup SB = Before
    BY <2>4, <2>9, <2>10, FS_Subset
  <2> QED
    BY <2>3, <2>6, <2>7, <2>11
<1> QED
  BY <1>1, <1>2

LEMMA HeldExplained ==
  ASSUME NEW T \in Tree, NEW deps, NEW D, NEW rows, NEW X, Ledger(T, deps, D, rows, X),
         NEW k \in Key, Holds(T, k)
  PROVE  Explains(AccountOf(T, k), k, deps, D, rows, X)
<1>1. PICK i \in Slot : T[i].pk = k /\ AccountOf(T, k) = T[i]
  BY HeldAccount
<1>2. k # NoKey
  BY AccountsAssumption
<1> QED
  BY <1>1, <1>2 DEF Ledger

(* ... paid for out of the balances, which still cover the rest.           *)
LEMMA SettleFunds ==
  ASSUME NEW T \in Tree, NEW U \in Tree, NEW deps \in Seq(DepRow), NEW rows \in Seq(TxRow),
         NEW C \in SUBSET DOMAIN deps, NEW E \in SUBSET DOMAIN deps,
         NEW X \in SUBSET DOMAIN rows, NEW S \in SUBSET (DOMAIN rows \ X),
         Ledger(T, deps, C, rows, X), Ledger(U, deps, C \cup E, rows, X \cup S),
         NEW L \in SUBSET DOMAIN rows, S \subseteq L,
         SendersHeld(T, rows), FundsCover(T, rows, L)
  PROVE  SendersHeld(U, rows) /\ FundsCover(U, rows, L \ S)
<1>1. ASSUME NEW k \in Key, Holds(T, k) PROVE Holds(U, k)
  <2>1. DepsTo(deps, C, k) # {}
    BY <1>1 DEF Ledger
  <2>2. DepsTo(deps, C \cup E, k) # {}
    BY <2>1 DEF DepsTo
  <2> QED
    BY <2>2 DEF Ledger
<1>2. SendersHeld(U, rows)
  <2> SUFFICES ASSUME NEW t \in DOMAIN rows PROVE Holds(U, rows[t].from)
    BY DEF SendersHeld
  <2>1. rows[t].from \in Key
    BY TxRows, {t} \in SUBSET DOMAIN rows
  <2> QED
    BY <1>1, <2>1 DEF SendersHeld
<1>3. ASSUME NEW k \in Key, Holds(U, k)
      PROVE  Value(rows, TxsBy(rows, L \ S, k)) <= AccountOf(U, k).balance
  <2> DEFINE LK == TxsBy(rows, L, k)
             SK == TxsBy(rows, S, k)
             XK == TxsBy(rows, X, k)
             RK == TxsBy(rows, L \ S, k)
  <2>1. /\ LK \in SUBSET DOMAIN rows /\ SK \in SUBSET LK /\ RK = LK \ SK
        /\ XK \in SUBSET DOMAIN rows /\ SK \in SUBSET DOMAIN rows /\ XK \cap SK = {}
        /\ TxsBy(rows, X \cup S, k) = XK \cup SK
    BY DEF TxsBy
  <2>2. AccountOf(U, k).balance \in Nat
    BY <1>3, HeldAccount
  <2>3. CASE ~Holds(T, k)
    <3>1. RK = {}
      BY <2>3 DEF TxsBy, SendersHeld
    <3>2. Value(rows, RK) = 0
      BY <3>1, ValueEmpty
    <3> QED
      BY <2>2, <3>2
  <2>4. CASE Holds(T, k)
    <3> DEFINE a == AccountOf(T, k).balance
               b == AccountOf(U, k).balance
               lv == Value(rows, LK)
               sv == Value(rows, SK)
               rv == Value(rows, RK)
               xv == Value(rows, XK)
               d == Value(deps, DepsTo(deps, C, k))
               d2 == Value(deps, DepsTo(deps, C \cup E, k))
               r == Value(rows, TxsTo(rows, X, k))
               r2 == Value(rows, TxsTo(rows, X \cup S, k))
    <3>1. /\ a + xv = d + r
          /\ b + Value(rows, TxsBy(rows, X \cup S, k)) = d2 + r2
      BY <1>3, <2>4, HeldExplained DEF Explains
    <3>2. Value(rows, TxsBy(rows, X \cup S, k)) = xv + sv /\ xv \in Nat /\ sv \in Nat
      <4>1. Priced(rows, XK) /\ Priced(rows, SK)
        <5> HIDE DEF XK, SK, LK
        <5> QED
          BY <2>1, TxRows
      <4> HIDE DEF XK, SK, LK, RK
      <4> QED
        BY <2>1, <4>1, ValueUnion
    <3>3. lv = sv + rv /\ rv \in Nat
      <4> HIDE DEF XK, SK, LK, RK
      <4>1. Priced(rows, LK)
        BY <2>1, TxRows
      <4> QED
        BY <2>1, <4>1, ValuePart
    <3>4. d <= d2 /\ d \in Nat /\ d2 \in Nat
      <4>1. /\ DepsTo(deps, C, k) \in SUBSET DepsTo(deps, C \cup E, k)
            /\ DepsTo(deps, C \cup E, k) \in SUBSET DOMAIN deps
        BY DEF DepsTo
      <4>2. Priced(deps, DepsTo(deps, C \cup E, k))
        BY <4>1, DepRows
      <4> QED
        BY <4>1, <4>2, ValuePart, ValueType
    <3>5. r <= r2 /\ r \in Nat /\ r2 \in Nat
      <4>1. /\ TxsTo(rows, X, k) \in SUBSET TxsTo(rows, X \cup S, k)
            /\ TxsTo(rows, X \cup S, k) \in SUBSET DOMAIN rows
        BY DEF TxsTo
      <4>2. Priced(rows, TxsTo(rows, X \cup S, k))
        BY <4>1, TxRows
      <4> QED
        BY <4>1, <4>2, ValuePart, ValueType
    <3>6. lv <= a
      BY <2>4 DEF FundsCover
    <3>7. a \in Nat /\ b \in Nat
      BY <2>2, <2>4, HeldAccount
    <3>8. b + (xv + sv) = d2 + r2
      BY <3>1, <3>2
    <3> HIDE DEF a, b, lv, sv, rv, xv, d, d2, r, r2, LK, SK, XK, RK
    <3>9. rv <= b
      BY <3>1, <3>2, <3>3, <3>4, <3>5, <3>6, <3>7, <3>8
    <3> QED
      BY <3>9 DEF rv, b, RK
  <2> QED
    BY <2>3, <2>4
<1> QED
  BY <1>2, <1>3 DEF FundsCover

LEMMA ConfirmInv == AdmissionInv /\ Confirm => AdmissionInv'
<1> SUFFICES ASSUME AdmissionInv, Confirm PROVE AdmissionInv'
  OBVIOUS
<1> DEFINE B == batch.txs
           E == batch.deps
           new == batch.new
<1>1. TypeOK /\ BatchInv /\ LedgerInv /\ RowsInv /\ ShadowInv
  BY DEF AdmissionInv
<1>2. /\ building = FALSE /\ batch.status = "landed" /\ tree' = new /\ leaves' = new
      /\ deposits' = DepStatus(E, "consumed") /\ mempool' = TxStatus(B, "included")
      /\ batch' = NoBatch /\ UNCHANGED <<building, txs, paid, faults>>
  BY <1>1 DEF Confirm, Replays, TypeOK
<1>3. /\ E \in SUBSET DepIds /\ B \in SUBSET TxIds /\ new \in Tree
      /\ \A d \in DepIds : d \in E <=> deposits[d].status = "batching"
      /\ \A t \in TxIds : t \in B <=> mempool[t].status = "batching"
  BY <1>1 DEF TypeOK, BatchInv
<1>4. /\ Ledger(leaves, deposits, Consumed, mempool, Included)
      /\ Ledger(new, deposits, Consumed \cup E, mempool, Included \cup B)
      /\ paid = Value(mempool, Paid) /\ Value(deposits, DepIds) <= Supply + paid
  BY <1>1, <1>2 DEF LedgerInv
<1>5. /\ leaves \in Tree /\ deposits \in Seq(DepRow) /\ mempool \in Seq(TxRow)
      /\ Consumed \in SUBSET DepIds /\ Included \in SUBSET TxIds /\ Live \in SUBSET TxIds
      /\ B \in SUBSET (TxIds \ Included) /\ B \subseteq Live
  <2>1. Consumed \in SUBSET DepIds /\ Included \in SUBSET TxIds /\ Live \in SUBSET TxIds
    BY DEF Consumed, Included, Live
  <2>2. B \in SUBSET (TxIds \ Included) /\ B \subseteq Live
    BY <1>3 DEF Included, Live
  <2> QED
    BY <1>1, <2>1, <2>2 DEF TypeOK
<1> HIDE DEF B, E, new
<1>6. /\ deposits' \in Seq(DepRow) /\ SameDeps(deposits, deposits')
      /\ \A d \in DepIds : deposits'[d].status = IF d \in E THEN "consumed" ELSE deposits[d].status
      /\ mempool' \in Seq(TxRow) /\ SameRows(mempool, mempool')
      /\ \A t \in TxIds : mempool'[t].status = IF t \in B THEN "included" ELSE mempool[t].status
  BY <1>1, <1>2, <1>3, StatusSet
<1>7. DepIds' = DepIds /\ TxIds' = TxIds
  BY <1>6 DEF DepIds, TxIds, SameDeps, SameRows
<1>8. Consumed' = Consumed \cup E /\ Included' = Included \cup B /\ Live' = Live \ B
  <2>1. \A d \in DepIds : deposits'[d].status = "consumed" <=> d \in E \/ deposits[d].status = "consumed"
    BY <1>3, <1>6
  <2>2. \A t \in TxIds : mempool'[t].status = "included" <=> t \in B \/ mempool[t].status = "included"
    BY <1>3, <1>6
  <2>3. \A t \in TxIds : mempool'[t].status \in {"pending", "batching"}
                           <=> t \notin B /\ mempool[t].status \in {"pending", "batching"}
    BY <1>3, <1>6
  <2>4. Consumed' = Consumed \cup E
    BY <1>3, <1>7, <2>1 DEF Consumed
  <2>5. Included' = Included \cup B
    BY <1>3, <1>7, <2>2 DEF Included
  <2>6. Live' = Live \ B
    BY <1>3, <1>7, <2>3 DEF Live
  <2> QED
    BY <2>4, <2>5, <2>6
<1>9. LedgerInv'
  <2>1. Ledger(new, deposits', Consumed \cup E, mempool', Included \cup B)
    <3>1. Consumed \cup E \in SUBSET DOMAIN deposits /\ Included \cup B \in SUBSET DOMAIN mempool
      BY <1>3, <1>5 DEF DepIds, TxIds
    <3> QED
      BY <1>4, <1>6, <3>1, LedgerKept
  <2>2. Ledger(leaves', deposits', Consumed', mempool', Included')
    BY <1>2, <1>8, <2>1
  <2>3. batch'.status = "none"
    BY <1>2 DEF NoBatch
  <2>4. Paid = Withdrawn(mempool, Included \cup B) /\ Paid' = Withdrawn(mempool', Included \cup B)
    <3>1. Paid = Withdrawn(mempool, Included) \cup Withdrawn(mempool, B)
      BY <1>2 DEF Paid, B
    <3>2. Paid' = Withdrawn(mempool', Included')
      BY <2>3 DEF Paid
    <3> QED
      BY <1>8, <3>1, <3>2 DEF Withdrawn
  <2>5. Value(mempool', Paid') = Value(mempool, Paid)
    <3>1. /\ Included \cup B \in SUBSET DOMAIN mempool
          /\ Withdrawn(mempool, Included \cup B) \in SUBSET DOMAIN mempool
      BY <1>3, <1>5 DEF TxIds, Withdrawn
    <3> DEFINE W == Withdrawn(mempool, Included \cup B)
    <3>2. Withdrawn(mempool', Included \cup B) = W
      BY <1>6, <3>1, RowsKept
    <3>3. Value(mempool', W) = Value(mempool, W)
      BY <1>6, <3>1, RowsKept
    <3>4. Paid = W /\ Paid' = W
      BY <2>4, <3>2
    <3> HIDE DEF W
    <3> QED
      BY <3>3, <3>4
  <2>6. paid' = Value(mempool', Paid')
    BY <1>2, <1>4, <2>5
  <2>7. Value(deposits', DepIds') = Value(deposits, DepIds)
    BY <1>6, <1>7, DepsKept, DepIds \in SUBSET DepIds DEF DepIds
  <2>8. Value(deposits', DepIds') <= Supply + paid'
    BY <1>2, <1>4, <2>7
  <2> QED
    BY <2>2, <2>3, <2>6, <2>8 DEF LedgerInv
<1>10. RowsInv'
  <2>1. WellFormed(mempool) /\ RecipientsFunded(deposits, mempool)
    BY <1>1 DEF RowsInv
  <2>2. WellFormed(mempool') /\ RecipientsFunded(deposits', mempool')
    BY <1>6, <2>1, RowsKept, BothKept
  <2>3. InSequence(mempool', Included', batch'.txs)
    BY <1>2 DEF InSequence, NoBatch
  <2> QED
    BY <2>2, <2>3 DEF RowsInv
<1>11. ShadowInv'
  <2> SUFFICES ASSUME faults = 0
               PROVE  /\ SendersHeld(leaves', mempool') /\ Numbered(mempool')
                      /\ SettledFirst(mempool', Included')
                      /\ FundsCover(leaves', mempool', Live')
    BY <1>2 DEF ShadowInv
  <2>1. /\ SendersHeld(leaves, mempool) /\ Numbered(mempool)
        /\ SettledFirst(mempool, Included) /\ FundsCover(leaves, mempool, Live)
    BY <1>1 DEF ShadowInv
  <2>2. SettledFirst(mempool, Included \cup B)
    <3>1. InSequence(mempool, Included, B)
      BY <1>1 DEF RowsInv, B
    <3> QED
      BY <1>5, <2>1, <3>1, SettleInOrder DEF TxIds
  <2>3. SettledFirst(mempool', Included') /\ Numbered(mempool')
    <3>1. Included \cup B \in SUBSET DOMAIN mempool
      BY <1>3, <1>5 DEF TxIds
    <3> QED
      BY <1>6, <1>8, <2>1, <2>2, <3>1, RowsKept
  <2>4. SendersHeld(new, mempool) /\ FundsCover(new, mempool, Live \ B)
    BY <1>3, <1>4, <1>5, <2>1, SettleFunds DEF DepIds, TxIds
  <2>5. FundsCover(new, mempool', Live \ B)
    <3>1. Live \ B \in SUBSET DOMAIN mempool /\ Live \ B \subseteq Live \ B
      BY <1>5 DEF TxIds
    <3> QED
      BY <1>3, <1>5, <1>6, <2>4, <3>1, BothKept
  <2>6. SendersHeld(new, mempool')
    BY <1>6, <2>4, BothKept
  <2> QED
    BY <1>2, <1>8, <2>3, <2>5, <2>6
<1>12. TypeOK'
  <2>1. batch' \in [deps : SUBSET DepIds', txs : SUBSET TxIds', new : Tree,
                    status : {"none", "built", "landed"}]
    BY <1>2, EmptyTreeFacts DEF NoBatch
  <2>2. /\ tree' \in Tree /\ leaves' \in Tree /\ building' \in BOOLEAN /\ txs' \subseteq TxIds'
        /\ paid' \in Nat /\ faults' \in 0 .. MaxFaults
    BY <1>1, <1>2, <1>3, <1>7 DEF TypeOK
  <2> QED
    BY <1>6, <2>1, <2>2 DEF TypeOK
<1>13. BatchInv'
  <2>1. \A d \in DepIds : deposits'[d].status # "batching"
    BY <1>3, <1>6
  <2>2. \A t \in TxIds : mempool'[t].status # "batching"
    BY <1>3, <1>6
  <2>3. batch'.deps = {} /\ batch'.txs = {}
    BY <1>2 DEF NoBatch
  <2>4. /\ (batch.deps = {d \in DepIds : deposits[d].status = "batching"})'
        /\ (batch.txs = {t \in TxIds : mempool[t].status = "batching"})'
    BY <1>7, <2>1, <2>2, <2>3
  <2>5. (batch.status = "none" => batch = NoBatch)' /\ ~building' /\ tree' = leaves'
    BY <1>2 DEF NoBatch
  <2> QED
    BY <2>4, <2>5 DEF BatchInv
<1> QED
  BY <1>9, <1>10, <1>11, <1>12, <1>13 DEF AdmissionInv

(* A deposit that the watcher reports.                                     *)
LEMMA ObserveDepositInv ==
  AdmissionInv /\ (\E k \in Key, a \in DepositAmounts : ObserveDeposit(k, a)) => AdmissionInv'
<1> SUFFICES ASSUME AdmissionInv, NEW k \in Key, NEW a \in DepositAmounts, ObserveDeposit(k, a)
             PROVE  AdmissionInv'
  OBVIOUS
<1> DEFINE row == [to |-> k, amount |-> a, status |-> "pending"]
           n == Len(deposits) + 1
<1>1. TypeOK /\ BatchInv /\ LedgerInv /\ RowsInv /\ ShadowInv
  BY DEF AdmissionInv
<1>2. /\ building = FALSE /\ Escrow + a <= Supply
      /\ deposits' = Append(deposits, row)
      /\ UNCHANGED <<tree, leaves, mempool, batch, building, txs, paid, faults>>
  BY <1>1 DEF ObserveDeposit, TypeOK
<1>3. row \in DepRow /\ a \in Nat
  BY MempoolAssumption DEF DepRow
<1>4. /\ deposits \in Seq(DepRow) /\ Len(deposits) \in Nat /\ DepIds = 1 .. Len(deposits)
      /\ mempool \in Seq(TxRow)
  BY <1>1 DEF TypeOK, DepIds
<1>5. /\ deposits' \in Seq(DepRow) /\ DOMAIN deposits' = DepIds \cup {n} /\ n \notin DepIds
      /\ deposits'[n] = row /\ \A d \in DepIds : deposits'[d] = deposits[d]
  <2> HIDE DEF row
  <2> QED
    BY <1>2, <1>3, <1>4
<1> HIDE DEF n
<1>6. /\ DepIds' = DepIds \cup {n} /\ TxIds' = TxIds /\ Included' = Included /\ Live' = Live
      /\ PendingTxs' = PendingTxs
  BY <1>2, <1>5 DEF DepIds, TxIds, Included, Live, PendingTxs
<1>7. Consumed' = Consumed /\ Consumed \in SUBSET DepIds /\ batch.deps \in SUBSET DepIds
  <2>1. deposits'[n].status # "consumed"
    BY <1>5
  <2> QED
    BY <1>1, <1>5, <1>6, <2>1 DEF Consumed, TypeOK
<1>8. ASSUME NEW T, NEW D \in SUBSET DepIds, NEW X, Ledger(T, deposits, D, mempool, X)
      PROVE  Ledger(T, deposits', D, mempool', X)
  <2>1. \A d \in D : deposits[d].to = deposits'[d].to /\ deposits[d].amount = deposits'[d].amount
    BY <1>5
  <2>2. Ledger(T, deposits', D, mempool, X)
    BY <1>8, <2>1, LedgerSame
  <2> QED
    BY <1>2, <2>2
<1>9. LedgerInv'
  <2>1. Ledger(leaves, deposits, Consumed, mempool, Included)'
    BY <1>1, <1>2, <1>6, <1>7, <1>8 DEF LedgerInv
  <2>2. (batch.status # "none" =>
          Ledger(batch.new, deposits, Consumed \cup batch.deps, mempool, Included \cup batch.txs))'
    <3> SUFFICES ASSUME batch.status # "none"
                 PROVE  Ledger(batch.new, deposits', Consumed \cup batch.deps, mempool',
                               Included \cup batch.txs)
      BY <1>2, <1>6, <1>7
    <3>1. Ledger(batch.new, deposits, Consumed \cup batch.deps, mempool, Included \cup batch.txs)
      BY <1>1 DEF LedgerInv
    <3>2. Consumed \cup batch.deps \in SUBSET DepIds
      BY <1>7
    <3> QED
      BY <1>8, <3>1, <3>2
  <2>3. paid' = Value(mempool', Paid')
    BY <1>1, <1>2, <1>6 DEF LedgerInv, Paid
  <2>4. Value(deposits', DepIds') <= Supply + paid'
    <3>1. Priced(deposits, DepIds)
      BY <1>4, DepRows DEF DepIds
    <3>2. Value(deposits', DepIds) = Value(deposits, DepIds)
      <4>1. \A d \in DepIds : deposits'[d].amount = deposits[d].amount
        BY <1>5
      <4> QED
        BY <4>1, ValueSame
    <3>3. Priced(deposits', DepIds)
      BY <1>5, <3>1 DEF Priced
    <3>4. Value(deposits', DepIds \cup {n}) = Value(deposits', DepIds) + a
      <4>1. deposits'[n].amount = a
        BY <1>5
      <4> QED
        BY <1>3, <1>5, <3>3, <4>1, ValueAdd
    <3>5. Value(deposits, DepIds) \in Nat /\ paid \in Nat /\ Supply \in Nat
      BY <1>1, <3>1, ValueType, MempoolAssumption, AccountsAssumption DEF TypeOK
    <3>6. Value(deposits, DepIds) - paid + a <= Supply
      BY <1>2 DEF Escrow
    <3> DEFINE v == Value(deposits, DepIds)
    <3> HIDE DEF v
    <3>7. v + a <= Supply + paid
      BY <1>3, <3>5, <3>6 DEF v
    <3>8. Value(deposits', DepIds') = v + a
      BY <1>6, <3>2, <3>4 DEF v
    <3> QED
      BY <1>2, <3>7, <3>8
  <2> QED
    BY <2>1, <2>2, <2>3, <2>4 DEF LedgerInv
<1>10. RowsInv'
  <2>1. RecipientsFunded(deposits', mempool')
    <3> SUFFICES ASSUME NEW t \in DOMAIN mempool, ~mempool[t].withdraw
                 PROVE  DepsTo(deposits', DOMAIN deposits', mempool[t].to) # {}
      BY <1>2 DEF RecipientsFunded
    <3>1. DepsTo(deposits, DOMAIN deposits, mempool[t].to) # {}
      BY <1>1 DEF RowsInv, RecipientsFunded
    <3>2. PICK d \in DepIds : deposits[d].to = mempool[t].to
      BY <3>1 DEF DepsTo, DepIds
    <3>3. d \in DepsTo(deposits', DOMAIN deposits', mempool[t].to)
      BY <1>5, <3>2 DEF DepsTo
    <3> QED
      BY <3>3
  <2> QED
    BY <1>1, <1>2, <1>6, <2>1 DEF RowsInv
<1>11. ShadowInv'
  BY <1>1, <1>2, <1>6 DEF ShadowInv
<1>12. TypeOK'
  <2>1. batch' \in [deps : SUBSET DepIds', txs : SUBSET TxIds', new : Tree,
                    status : {"none", "built", "landed"}]
    <3>1. batch \in [deps : SUBSET DepIds, txs : SUBSET TxIds, new : Tree,
                     status : {"none", "built", "landed"}]
      BY <1>1 DEF TypeOK
    <3> QED
      BY <1>2, <1>6, <3>1
  <2>2. /\ tree' \in Tree /\ leaves' \in Tree /\ building' \in BOOLEAN /\ txs' \subseteq TxIds'
        /\ mempool' \in Seq(TxRow) /\ paid' \in Nat /\ faults' \in 0 .. MaxFaults
    BY <1>1, <1>2, <1>6 DEF TypeOK
  <2> QED
    BY <1>5, <2>1, <2>2 DEF TypeOK
<1>13. BatchInv'
  <2>1. batch'.deps = {d \in DepIds' : deposits'[d].status = "batching"}
    <3>1. deposits'[n].status # "batching"
      BY <1>5
    <3> QED
      BY <1>1, <1>2, <1>5, <1>6, <3>1 DEF BatchInv
  <2>2. (batch.txs = {t \in TxIds : mempool[t].status = "batching"})'
    BY <1>1, <1>2, <1>6 DEF BatchInv
  <2>3. (batch.status = "none" => batch = NoBatch)' /\ ~building'
    BY <1>1, <1>2 DEF BatchInv, NoBatch
  <2>4. (tree = leaves \/ (faults > 0 /\ batch.status = "landed" /\ tree = batch.new))'
    BY <1>1, <1>2 DEF BatchInv
  <2> QED
    BY <2>1, <2>2, <2>3, <2>4 DEF BatchInv
<1> QED
  BY <1>9, <1>10, <1>11, <1>12, <1>13 DEF AdmissionInv

(* A row that submit_tx inserts.                                           *)
Extends(rows, other, n, row) ==
  /\ DOMAIN other = DOMAIN rows \cup {n} /\ n \in Nat /\ n \notin DOMAIN rows
  /\ other[n] = row /\ \A t \in DOMAIN rows : other[t] = rows[t] /\ t < n

LEMMA RowAppended ==
  ASSUME NEW rows \in Seq(TxRow), NEW row \in TxRow
  PROVE  /\ Append(rows, row) \in Seq(TxRow)
         /\ Extends(rows, Append(rows, row), Len(rows) + 1, row)
<1> DEFINE other == Append(rows, row)
           n == Len(rows) + 1
<1>1. /\ other \in Seq(TxRow) /\ DOMAIN other = DOMAIN rows \cup {n}
      /\ n \in Nat /\ n \notin DOMAIN rows /\ other[n] = row
      /\ \A t \in DOMAIN rows : other[t] = rows[t] /\ t < n
  OBVIOUS
<1> HIDE DEF other, n
<1>2. Extends(rows, other, n, row)
  BY <1>1 DEF Extends
<1> QED
  BY <1>1, <1>2 DEF other, n

LEMMA RowsExtended ==
  ASSUME NEW rows, NEW other, NEW n, NEW row, Extends(rows, other, n, row),
         NEW X \in SUBSET DOMAIN rows
  PROVE  /\ \A k : TxsBy(other, X, k) = TxsBy(rows, X, k)
         /\ Value(other, X) = Value(rows, X) /\ Withdrawn(other, X) = Withdrawn(rows, X)
<1>1. \A t \in X : other[t] = rows[t] /\ other[t].amount = rows[t].amount
  BY DEF Extends
<1>2. Value(other, X) = Value(rows, X)
  BY <1>1, ValueSame
<1>3. \A k : TxsBy(other, X, k) = TxsBy(rows, X, k)
  BY <1>1 DEF TxsBy
<1>4. Withdrawn(other, X) = Withdrawn(rows, X)
  BY <1>1 DEF Withdrawn
<1> QED
  BY <1>2, <1>3, <1>4

(* The next nonce is offered once, in the order of the rows.               *)
LEMMA NextNumber ==
  ASSUME NEW rows \in Seq(TxRow), NEW row, NEW other, NEW n, Extends(rows, other, n, row),
         Numbered(rows),
         NEW S \in SUBSET DOMAIN rows, row.nonce = Cardinality(TxsBy(rows, S, row.from)),
         \A r \in DOMAIN rows : rows[r].from = row.from => rows[r].nonce # row.nonce
  PROVE  Numbered(other)
<1> DEFINE k == row.from
           R == TxsBy(rows, DOMAIN rows, k)
<1>1. /\ DOMAIN other = DOMAIN rows \cup {n} /\ n \in Nat /\ other[n] = row
      /\ \A t \in DOMAIN rows : other[t] = rows[t] /\ t < n
  BY DEF Extends
<1>2. ASSUME NEW q
      PROVE  /\ k = q => TxsBy(other, DOMAIN other, q) = TxsBy(rows, DOMAIN rows, q) \cup {n}
             /\ k # q => TxsBy(other, DOMAIN other, q) = TxsBy(rows, DOMAIN rows, q)
  BY <1>1 DEF TxsBy
<1>3. R \in SUBSET DOMAIN rows /\ R \in SUBSET Nat /\ IsFiniteSet(R) /\ Cardinality(R) \in Nat
  <2>1. R \in SUBSET DOMAIN rows
    BY DEF TxsBy
  <2> HIDE DEF R
  <2> QED
    BY <2>1, TxRows, FS_CardinalityType
<1>4. row.nonce = Cardinality(R)
  <2>1. TxsBy(rows, S, k) \in SUBSET R
    BY DEF TxsBy
  <2>2. Cardinality(TxsBy(rows, S, k)) <= Cardinality(R) /\ IsFiniteSet(TxsBy(rows, S, k))
    BY <1>3, <2>1, FS_Subset
  <2>3. Cardinality(TxsBy(rows, S, k)) \in Nat
    BY <2>2, FS_CardinalityType
  <2>4. CASE row.nonce < Cardinality(R)
    <3>1. row.nonce \in Nat
      BY <2>3
    <3>2. PICK r \in R : Rank(R, r) = row.nonce
      <4> HIDE DEF R
      <4> QED
        BY <1>3, <2>4, <3>1, RankOnto
    <3>3. r \in DOMAIN rows /\ rows[r].from = k
      BY DEF TxsBy
    <3>4. rows[r].nonce = Rank(R, r)
      BY <3>3 DEF Numbered
    <3> QED
      BY <3>2, <3>3, <3>4
  <2> QED
    BY <1>3, <2>2, <2>3, <2>4
<1>5. ASSUME NEW q
      PROVE  /\ Rank(TxsBy(rows, DOMAIN rows, q) \cup {n}, n) = Cardinality(TxsBy(rows, DOMAIN rows, q))
             /\ \A t \in TxsBy(rows, DOMAIN rows, q) :
                  Rank(TxsBy(rows, DOMAIN rows, q) \cup {n}, t) = Rank(TxsBy(rows, DOMAIN rows, q), t)
  <2> DEFINE Q == TxsBy(rows, DOMAIN rows, q)
  <2>1. Q \in SUBSET Nat /\ \A t \in Q : t < n
    <3>1. Q \in SUBSET DOMAIN rows
      BY DEF TxsBy
    <3> HIDE DEF Q
    <3> QED
      BY <1>1, <3>1, TxRows
  <2> HIDE DEF Q
  <2>2. /\ Rank(Q \cup {n}, n) = Cardinality(Q)
        /\ \A t \in Q : Rank(Q \cup {n}, t) = Rank(Q, t)
    BY <1>1, <2>1, RankLast
  <2> QED
    BY <2>2 DEF Q
<1> SUFFICES ASSUME NEW t \in DOMAIN other
             PROVE  other[t].nonce = Rank(TxsBy(other, DOMAIN other, other[t].from), t)
  BY DEF Numbered
<1>6. CASE t = n
  <2>1. other[t].from = k /\ other[t].nonce = Cardinality(R)
    BY <1>1, <1>4, <1>6
  <2>2. TxsBy(other, DOMAIN other, k) = R \cup {n}
    BY <1>2
  <2>3. Rank(R \cup {n}, n) = Cardinality(R)
    BY <1>5
  <2> HIDE DEF R, k
  <2> QED
    BY <1>6, <2>1, <2>2, <2>3
<1>7. CASE t # n
  <2>1. t \in DOMAIN rows /\ other[t] = rows[t]
    BY <1>1, <1>7
  <2> DEFINE q == rows[t].from
             Q == TxsBy(rows, DOMAIN rows, q)
  <2>2. t \in Q /\ rows[t].nonce = Rank(Q, t)
    BY <2>1 DEF TxsBy, Numbered
  <2>3. TxsBy(other, DOMAIN other, q) = Q \cup {n} \/ TxsBy(other, DOMAIN other, q) = Q
    BY <1>2
  <2>4. \A u \in Q : Rank(Q \cup {n}, u) = Rank(Q, u)
    BY <1>5
  <2>5. Rank(TxsBy(other, DOMAIN other, q), t) = Rank(Q, t)
    <3> HIDE DEF Q
    <3> QED
      BY <2>2, <2>3, <2>4
  <2> QED
    BY <2>1, <2>2, <2>5
<1> QED
  BY <1>6, <1>7

(* The balance pays for what is available.                                 *)
LEMMA NextFunded ==
  ASSUME NEW T \in Tree, NEW rows \in Seq(TxRow), NEW row \in TxRow,
         NEW other, NEW n, Extends(rows, other, n, row),
         NEW L \in SUBSET DOMAIN rows, FundsCover(T, rows, L),
         Value(rows, TxsBy(rows, L, row.from)) + row.amount <= AccountOf(T, row.from).balance
  PROVE  FundsCover(T, other, L \cup {n})
<1> SUFFICES ASSUME NEW k \in Key, Holds(T, k)
             PROVE  Value(other, TxsBy(other, L \cup {n}, k)) <= AccountOf(T, k).balance
  BY DEF FundsCover
<1> DEFINE LK == TxsBy(rows, L, k)
<1>1. /\ n \notin DOMAIN rows /\ other[n] = row
      /\ row.from = k => TxsBy(other, L \cup {n}, k) = LK \cup {n}
      /\ row.from # k => TxsBy(other, L \cup {n}, k) = LK
  BY DEF Extends, TxsBy
<1>2. Value(rows, LK) <= AccountOf(T, k).balance
  BY DEF FundsCover
<1>3. LK \in SUBSET DOMAIN rows
  BY DEF TxsBy
<1> HIDE DEF LK
<1>4. Value(other, LK) = Value(rows, LK)
  BY <1>3, RowsExtended
<1>5. Value(other, LK \cup {n}) = Value(other, LK) + row.amount
  <2>1. Priced(rows, LK) /\ \A t \in LK : other[t].amount = rows[t].amount
    BY <1>3, TxRows DEF Extends
  <2>2. Priced(other, LK) /\ n \notin LK
    BY <1>1, <1>3, <2>1 DEF Priced
  <2>3. other[n].amount \in Nat /\ other[n].amount = row.amount
    BY <1>1 DEF TxRow
  <2>4. Value(other, LK \cup {n}) = Value(other, LK) + other[n].amount
    BY <2>2, <2>3, ValueAdd
  <2> QED
    BY <2>3, <2>4
<1>6. CASE row.from = k
  <2>1. TxsBy(other, L \cup {n}, k) = LK \cup {n}
    BY <1>1, <1>6
  <2>2. Value(rows, LK) + row.amount <= AccountOf(T, k).balance
    BY <1>6 DEF LK
  <2> QED
    BY <1>4, <1>5, <2>1, <2>2
<1>7. CASE row.from # k
  <2>1. TxsBy(other, L \cup {n}, k) = LK
    BY <1>1, <1>7
  <2> QED
    BY <1>2, <1>4, <2>1
<1> QED
  BY <1>6, <1>7

LEMMA SubmitTxInv == AdmissionInv /\ (\E t \in Request : SubmitTx(t)) => AdmissionInv'
<1> SUFFICES ASSUME AdmissionInv, NEW t \in Request, SubmitTx(t)
             PROVE  AdmissionInv'
  OBVIOUS
<1> DEFINE row == [from |-> t.from, to |-> t.to, amount |-> t.amount, nonce |-> t.nonce,
                   withdraw |-> t.withdraw, status |-> "pending", reason |-> "none"]
           n == Len(mempool) + 1
<1>1. TypeOK /\ BatchInv /\ LedgerInv /\ RowsInv /\ ShadowInv
  BY DEF AdmissionInv
<1>2. /\ building = FALSE /\ RowFor(t) = {} /\ Admissible(t) /\ mempool' = Append(mempool, row)
      /\ UNCHANGED <<tree, leaves, deposits, batch, building, txs, paid, faults>>
  BY <1>1 DEF SubmitTx, TypeOK
<1>3. /\ row \in TxRow /\ t.from \in Key /\ (t.withdraw <=> t.to = NoKey)
      /\ row.from = t.from /\ row.to = t.to /\ row.amount = t.amount /\ row.nonce = t.nonce
      /\ row.withdraw = t.withdraw /\ row.status = "pending"
  <2>1. 2 * MaxRows \in Nat
    BY MempoolAssumption
  <2>2. /\ t \in [from : Key, to : Key \cup {NoKey}, amount : TxAmounts,
                  nonce : 0 .. 2 * MaxRows, withdraw : BOOLEAN]
        /\ (t.withdraw <=> t.to = NoKey)
    BY DEF Request
  <2>3. t.amount \in Nat \ {0}
    <3>1. t.amount \in TxAmounts
      BY <2>2
    <3> QED
      BY <3>1, MempoolAssumption
  <2>4. t.nonce \in Nat
    <3> DEFINE bound == 2 * MaxRows
    <3>1. bound \in Nat /\ t.nonce \in 0 .. bound
      BY <2>1, <2>2
    <3> HIDE DEF bound
    <3> QED
      BY <3>1
  <2> QED
    BY <2>2, <2>3, <2>4 DEF TxRow
<1> HIDE DEF row
<1>4. /\ deposits \in Seq(DepRow) /\ mempool \in Seq(TxRow) /\ TxIds = DOMAIN mempool
      /\ DepIds = DOMAIN deposits /\ leaves \in Tree /\ tree \in Tree /\ batch.txs \in SUBSET TxIds
      /\ batch.deps \in SUBSET DepIds
  BY <1>1 DEF TypeOK, TxIds, DepIds
<1>x. mempool' \in Seq(TxRow) /\ Extends(mempool, mempool', n, row)
  BY <1>2, <1>3, <1>4, RowAppended
<1>5. /\ mempool' \in Seq(TxRow) /\ DOMAIN mempool' = TxIds \cup {n}
      /\ n \in Nat /\ n \notin TxIds /\ mempool'[n] = row
      /\ \A u \in TxIds : mempool'[u] = mempool[u] /\ u < n
      /\ \A X \in SUBSET TxIds : \A k : TxsBy(mempool', X, k) = TxsBy(mempool, X, k)
      /\ \A X \in SUBSET TxIds : /\ Value(mempool', X) = Value(mempool, X)
                                 /\ Withdrawn(mempool', X) = Withdrawn(mempool, X)
  <2>1. \A X \in SUBSET TxIds :
          /\ \A k : TxsBy(mempool', X, k) = TxsBy(mempool, X, k)
          /\ Value(mempool', X) = Value(mempool, X)
          /\ Withdrawn(mempool', X) = Withdrawn(mempool, X)
    BY <1>4, <1>x, RowsExtended
  <2> QED
    BY <1>4, <1>x, <2>1 DEF Extends
<1> HIDE DEF n
<1>6. /\ TxIds' = TxIds \cup {n} /\ DepIds' = DepIds /\ Consumed' = Consumed
      /\ Included' = Included /\ Live' = Live \cup {n}
      /\ Included \in SUBSET TxIds /\ Live \in SUBSET TxIds
  <2>1. /\ TxIds' = TxIds \cup {n} /\ DepIds' = DepIds /\ Consumed' = Consumed
    BY <1>2, <1>5 DEF TxIds, DepIds, Consumed
  <2>2. mempool'[n].status = "pending" /\ \A u \in TxIds : mempool'[u].status = mempool[u].status
    BY <1>3, <1>5
  <2>3. Included' = Included
    BY <2>1, <2>2 DEF Included
  <2>4. Live' = Live \cup {n}
    BY <2>1, <2>2 DEF Live
  <2> QED
    BY <2>1, <2>3, <2>4 DEF Included, Live
<1>7. ASSUME NEW T, NEW D, NEW X \in SUBSET TxIds, Ledger(T, deposits, D, mempool, X)
      PROVE  Ledger(T, deposits', D, mempool', X)
  <2>1. \A u \in X : /\ mempool[u].from = mempool'[u].from /\ mempool[u].to = mempool'[u].to
                     /\ mempool[u].amount = mempool'[u].amount
                     /\ mempool[u].withdraw = mempool'[u].withdraw
    BY <1>5
  <2>2. Ledger(T, deposits, D, mempool', X)
    BY <1>7, <2>1, LedgerSame
  <2> QED
    BY <1>2, <2>2
<1>8. LedgerInv'
  <2>1. Ledger(leaves, deposits, Consumed, mempool, Included)'
    BY <1>1, <1>2, <1>6, <1>7 DEF LedgerInv
  <2>2. (batch.status # "none" =>
          Ledger(batch.new, deposits, Consumed \cup batch.deps, mempool, Included \cup batch.txs))'
    <3> SUFFICES ASSUME batch.status # "none"
                 PROVE  Ledger(batch.new, deposits', Consumed \cup batch.deps, mempool',
                               Included \cup batch.txs)
      BY <1>2, <1>6
    <3>1. Ledger(batch.new, deposits, Consumed \cup batch.deps, mempool, Included \cup batch.txs)
      BY <1>1 DEF LedgerInv
    <3>2. Included \cup batch.txs \in SUBSET TxIds
      BY <1>4, <1>6
    <3> QED
      BY <1>7, <3>1, <3>2
  <2>3. paid' = Value(mempool', Paid')
    <3>1. Paid' = Paid
      <4>1. /\ Withdrawn(mempool', Included) = Withdrawn(mempool, Included)
            /\ Withdrawn(mempool', batch.txs) = Withdrawn(mempool, batch.txs)
        BY <1>4, <1>5, <1>6
      <4> QED
        BY <1>2, <1>6, <4>1 DEF Paid
    <3>2. Paid \in SUBSET TxIds
      BY <1>4, <1>6 DEF Paid, Withdrawn
    <3>3. paid = Value(mempool, Paid)
      BY <1>1 DEF LedgerInv
    <3>4. Value(mempool', Paid) = Value(mempool, Paid)
      BY <1>5, <3>2
    <3> QED
      BY <1>2, <3>1, <3>3, <3>4
  <2>4. Value(deposits', DepIds') <= Supply + paid'
    BY <1>1, <1>2, <1>6 DEF LedgerInv
  <2> QED
    BY <2>1, <2>2, <2>3, <2>4 DEF LedgerInv
<1>9. t.withdraw \/ DepsTo(deposits, DepIds, t.to) # {}
  <2> SUFFICES ASSUME ~t.withdraw PROVE DepsTo(deposits, DepIds, t.to) # {}
    OBVIOUS
  <2>1. t.to \in Key
    BY <1>3 DEF TxRow
  <2>2. CASE \E d \in DepIds : deposits[d].to = t.to
    BY <2>2 DEF DepsTo
  <2>3. CASE Holds(tree, t.to)
    <3>1. PICK D \in SUBSET DepIds : DepsTo(deposits, D, t.to) # {}
      <4>1. CASE tree = leaves
        <5>1. DepsTo(deposits, Consumed, t.to) # {}
          BY <1>1, <2>1, <2>3, <4>1 DEF LedgerInv, Ledger
        <5> QED
          BY <5>1 DEF Consumed
      <4>2. CASE batch.status = "landed" /\ tree = batch.new
        <5>1. DepsTo(deposits, Consumed \cup batch.deps, t.to) # {}
          BY <1>1, <2>1, <2>3, <4>2 DEF LedgerInv, Ledger
        <5>2. Consumed \cup batch.deps \in SUBSET DepIds
          BY <1>4 DEF Consumed
        <5> QED
          BY <5>1, <5>2
      <4> QED
        BY <1>1, <4>1, <4>2 DEF BatchInv
    <3> QED
      BY <3>1 DEF DepsTo
  <2> QED
    BY <1>2, <2>2, <2>3 DEF Admissible, RecipientKnown
<1>10. RowsInv'
  <2>1. WellFormed(mempool')
    BY <1>1, <1>3, <1>4, <1>5 DEF RowsInv, WellFormed
  <2>2. RecipientsFunded(deposits', mempool')
    BY <1>1, <1>2, <1>3, <1>4, <1>5, <1>9 DEF RowsInv, RecipientsFunded
  <2>3. InSequence(mempool', Included', batch'.txs)
    <3>1. \A u \in batch.txs : mempool'[u] = mempool[u]
      BY <1>4, <1>5
    <3>2. \A k : /\ TxsBy(mempool', Included, k) = TxsBy(mempool, Included, k)
                 /\ TxsBy(mempool', batch.txs, k) = TxsBy(mempool, batch.txs, k)
      BY <1>4, <1>5, <1>6
    <3>3. InSequence(mempool, Included, batch.txs)
      BY <1>1 DEF RowsInv
    <3>4. InSequence(mempool', Included, batch.txs)
      BY <3>1, <3>2, <3>3 DEF InSequence
    <3> QED
      BY <1>2, <1>6, <3>4
  <2> QED
    BY <2>1, <2>2, <2>3 DEF RowsInv
<1>11. ShadowInv'
  <2> SUFFICES ASSUME faults = 0
               PROVE  /\ SendersHeld(leaves', mempool') /\ Numbered(mempool')
                      /\ SettledFirst(mempool', Included')
                      /\ FundsCover(leaves', mempool', Live')
    BY <1>2 DEF ShadowInv
  <2>1. /\ SendersHeld(leaves, mempool) /\ Numbered(mempool)
        /\ SettledFirst(mempool, Included) /\ FundsCover(leaves, mempool, Live)
    BY <1>1 DEF ShadowInv
  <2>2. tree = leaves
    BY <1>1 DEF BatchInv
  <2> DEFINE k == t.from
  <2>3. /\ Holds(leaves, k) /\ t.nonce = AccountOf(leaves, k).nonce + Cardinality(LiveRows(k))
        /\ t.amount <= Available(k)
    BY <1>2, <2>2 DEF Admissible, ExpectedNonce
  <2>4. LiveRows(k) = TxsBy(mempool, Live, k)
    BY DEF LiveRows, TxsBy, Live
  <2>5. SendersHeld(leaves', mempool')
    BY <1>2, <1>3, <1>4, <1>5, <2>1, <2>3 DEF SendersHeld
  <2>6. SettledFirst(mempool', Included')
    <3> SUFFICES ASSUME NEW v \in Included, NEW u \in TxIds \cup {n},
                        mempool'[u].from = mempool'[v].from, u < v
                 PROVE  u \in Included
      BY <1>5, <1>6 DEF SettledFirst
    <3>1. v \in TxIds /\ v < n /\ v \in Nat
      BY <1>4, <1>5, <1>6
    <3>2. u # n
      BY <1>5, <3>1
    <3>3. mempool[u].from = mempool[v].from /\ u \in DOMAIN mempool
      BY <1>4, <1>5, <3>1, <3>2
    <3> QED
      BY <2>1, <3>3 DEF SettledFirst
  <2>7. Numbered(mempool')
    <3>1. row.nonce = Cardinality(TxsBy(mempool, Included \cup Live, row.from))
      <4> DEFINE IK == TxsBy(mempool, Included, k)
                 LK == TxsBy(mempool, Live, k)
      <4>1. AccountOf(leaves, k).nonce = Cardinality(IK)
        BY <1>1, <1>3, <1>4, <2>3, HeldExplained DEF LedgerInv, Explains
      <4>2. IK \cap LK = {} /\ TxsBy(mempool, Included \cup Live, k) = IK \cup LK
        BY DEF TxsBy, Included, Live
      <4>3. IsFiniteSet(IK) /\ IsFiniteSet(LK)
        <5>1. IK \in SUBSET DOMAIN mempool /\ LK \in SUBSET DOMAIN mempool
          BY <1>4, <1>6 DEF TxsBy
        <5> HIDE DEF IK, LK
        <5> QED
          BY <1>4, <5>1, TxRows
      <4>4. Cardinality(IK \cup LK) = Cardinality(IK) + Cardinality(LK)
        <5> HIDE DEF IK, LK
        <5>1. Cardinality(IK \cup LK) = Cardinality(IK) + Cardinality(LK) - Cardinality(IK \cap LK)
          BY <4>3, FS_Union
        <5>2. Cardinality(IK) \in Nat /\ Cardinality(LK) \in Nat /\ Cardinality({}) = 0
          BY <4>3, FS_CardinalityType, FS_EmptySet
        <5>3. Cardinality(IK \cap LK) = 0
          BY <4>2, <5>2
        <5> QED
          BY <5>1, <5>2, <5>3
      <4>5. t.nonce = Cardinality(IK) + Cardinality(LK)
        BY <2>3, <2>4, <4>1
      <4>6. Cardinality(TxsBy(mempool, Included \cup Live, k)) = Cardinality(IK \cup LK)
        BY <4>2
      <4> HIDE DEF IK, LK
      <4> QED
        BY <1>3, <4>4, <4>5, <4>6
    <3>2. \A r \in DOMAIN mempool : mempool[r].from = row.from => mempool[r].nonce # row.nonce
      BY <1>2, <1>3, <1>4 DEF RowFor
    <3>3. Included \cup Live \in SUBSET DOMAIN mempool
      BY <1>4, <1>6
    <3> QED
      BY <1>4, <1>x, <2>1, <3>1, <3>2, <3>3, NextNumber
  <2>8. FundsCover(leaves', mempool', Live')
    <3> DEFINE v == Value(mempool, LiveRows(k))
               b == AccountOf(leaves, k).balance
    <3>1. b \in Nat /\ v \in Nat
      BY <1>4, <1>6, <2>3, <2>4, HeldAccount, RowNumbers
    <3>2. t.amount \in Nat \ {0}
      BY <1>3 DEF TxRow
    <3>3. t.amount <= IF v <= b THEN b - v ELSE 0
      BY <2>2, <2>3 DEF Available
    <3> HIDE DEF v, b
    <3>4. v + t.amount <= b
      BY <3>1, <3>2, <3>3
    <3>5. Value(mempool, TxsBy(mempool, Live, row.from)) + row.amount <= AccountOf(leaves, row.from).balance
      BY <1>3, <2>4, <3>4 DEF v, b
    <3>6. FundsCover(leaves, mempool', Live \cup {n})
      BY <1>3, <1>4, <1>6, <1>x, <2>1, <3>5, NextFunded
    <3> QED
      BY <1>2, <1>6, <3>6
  <2> QED
    BY <2>5, <2>6, <2>7, <2>8
<1>12. TypeOK'
  <2>1. batch' \in [deps : SUBSET DepIds', txs : SUBSET TxIds', new : Tree,
                    status : {"none", "built", "landed"}]
    <3>1. batch \in [deps : SUBSET DepIds, txs : SUBSET TxIds, new : Tree,
                     status : {"none", "built", "landed"}]
      BY <1>1 DEF TypeOK
    <3> QED
      BY <1>2, <1>6, <3>1
  <2>2. /\ tree' \in Tree /\ leaves' \in Tree /\ building' \in BOOLEAN /\ txs' \subseteq TxIds'
        /\ deposits' \in Seq(DepRow) /\ paid' \in Nat /\ faults' \in 0 .. MaxFaults
    BY <1>1, <1>2, <1>6 DEF TypeOK
  <2> QED
    BY <1>5, <2>1, <2>2 DEF TypeOK
<1>13. BatchInv'
  <2>1. batch'.txs = {u \in TxIds' : mempool'[u].status = "batching"}
    <3>1. mempool'[n].status # "batching"
      BY <1>3, <1>5
    <3> QED
      BY <1>1, <1>2, <1>5, <1>6, <3>1 DEF BatchInv
  <2>2. (batch.deps = {d \in DepIds : deposits[d].status = "batching"})'
    BY <1>1, <1>2, <1>6 DEF BatchInv
  <2>3. (batch.status = "none" => batch = NoBatch)' /\ ~building'
    BY <1>1, <1>2 DEF BatchInv, NoBatch
  <2>4. (tree = leaves \/ (faults > 0 /\ batch.status = "landed" /\ tree = batch.new))'
    BY <1>1, <1>2 DEF BatchInv
  <2> QED
    BY <2>1, <2>2, <2>3, <2>4 DEF BatchInv
<1> QED
  BY <1>8, <1>10, <1>11, <1>12, <1>13 DEF AdmissionInv

LEMMA InitInv == Init => AdmissionInv
<1> SUFFICES ASSUME Init PROVE AdmissionInv
  OBVIOUS
<1>1. /\ tree = EmptyTree /\ leaves = EmptyTree /\ deposits = <<>> /\ mempool = <<>>
      /\ batch = NoBatch /\ building = FALSE /\ txs = {} /\ paid = 0 /\ faults = 0
  BY DEF Init
<1>2. /\ DepIds = {} /\ TxIds = {} /\ Consumed = {} /\ Included = {} /\ Live = {}
      /\ DOMAIN mempool = {} /\ DOMAIN deposits = {}
  BY <1>1 DEF DepIds, TxIds, Consumed, Included, Live
<1>3. EmptyTree \in Tree /\ Total(EmptyTree) = 0
  BY EmptyTreeFacts
<1>4. \A i \in Slot : EmptyTree[i].pk = NoKey /\ EmptyTree[i].balance = 0
  BY DEF EmptyTree, Empty
<1>5. \A rows : Value(rows, {}) = 0
  BY ValueEmpty
<1>6. /\ MaxFaults \in Nat /\ Supply \in Nat /\ NoKey \notin Key
  BY MempoolAssumption, AccountsAssumption
<1>7. TypeOK
  <2>1. deposits \in Seq(DepRow) /\ mempool \in Seq(TxRow)
    BY <1>1
  <2>2. batch \in [deps : SUBSET DepIds, txs : SUBSET TxIds, new : Tree,
                   status : {"none", "built", "landed"}]
    BY <1>1, <1>3 DEF NoBatch
  <2>3. tree \in Tree /\ leaves \in Tree
    BY <1>1, <1>3
  <2>4. building \in BOOLEAN /\ txs \subseteq TxIds
    BY <1>1
  <2>5. paid \in Nat /\ faults \in 0 .. MaxFaults
    BY <1>1, <1>6
  <2> QED
    BY <2>1, <2>2, <2>3, <2>4, <2>5 DEF TypeOK
<1>8. BatchInv
  BY <1>1, <1>2 DEF BatchInv, NoBatch
<1>9. \A k \in Key : ~Holds(EmptyTree, k)
  BY <1>4, <1>6, FindOne
<1>10. LedgerInv
  <2>1. Withdrawn(mempool, {}) = {} /\ \A k : DepsTo(deposits, {}, k) = {}
    BY DEF Withdrawn, DepsTo
  <2>2. Ledger(leaves, deposits, Consumed, mempool, Included)
    <3>1. OneSlotEach(EmptyTree)
      BY <1>4 DEF OneSlotEach
    <3>2. \A k \in Key : Holds(EmptyTree, k) <=> DepsTo(deposits, {}, k) # {}
      BY <1>9, <2>1
    <3>3. Total(EmptyTree) + Value(mempool, Withdrawn(mempool, {})) = Value(deposits, {})
      <4>1. Value(mempool, Withdrawn(mempool, {})) = 0 /\ Value(deposits, {}) = 0
        BY <1>5, <2>1
      <4> QED
        BY <1>3, <4>1
    <3>4. Ledger(EmptyTree, deposits, {}, mempool, {})
      BY <1>4, <3>1, <3>2, <3>3 DEF Ledger
    <3> QED
      BY <1>1, <1>2, <3>4
  <2>3. Paid = {}
    BY <1>1, <1>2, <2>1 DEF Paid, NoBatch
  <2> QED
    BY <1>1, <1>2, <1>5, <1>6, <2>2, <2>3 DEF LedgerInv, NoBatch
<1>11. RowsInv
  BY <1>1, <1>2 DEF RowsInv, WellFormed, RecipientsFunded, InSequence, NoBatch
<1>12. ShadowInv
  <2>1. SendersHeld(leaves, mempool) /\ Numbered(mempool) /\ SettledFirst(mempool, Included)
    BY <1>2 DEF SendersHeld, Numbered, SettledFirst
  <2>2. FundsCover(leaves, mempool, Live)
    BY <1>1, <1>9 DEF FundsCover
  <2> QED
    BY <2>1, <2>2 DEF ShadowInv
<1> QED
  BY <1>7, <1>8, <1>10, <1>11, <1>12 DEF AdmissionInv

LEMMA NextInv == AdmissionInv /\ [Next]_vars => AdmissionInv'
<1> SUFFICES ASSUME AdmissionInv, [Next]_vars PROVE AdmissionInv'
  OBVIOUS
<1>1. CASE \E k \in Key, a \in DepositAmounts : ObserveDeposit(k, a)
  BY <1>1, ObserveDepositInv
<1>2. CASE \E t \in Request : SubmitTx(t)
  BY <1>2, SubmitTxInv
<1>3. CASE TryBuild
  BY <1>3, TryBuildInv
<1>4. CASE Evict
  BY <1>4, EvictInv
<1>5. CASE Stall
  BY <1>5, StallInv
<1>6. CASE InsertBatch
  BY <1>6, InsertBatchInv
<1>7. CASE FailBatch
  BY <1>7, FailBatchInv
<1>8. CASE Land
  BY <1>8, LandInv
<1>9. CASE Confirm
  BY <1>9, ConfirmInv
<1>10. CASE ConfirmFault
  BY <1>10, ConfirmFaultInv
<1>11. CASE Restart
  BY <1>11, RestartInv
<1>12. CASE UNCHANGED vars
  BY <1>12, StutterInv
<1> QED
  BY <1>1, <1>2, <1>3, <1>4, <1>5, <1>6, <1>7, <1>8, <1>9, <1>10, <1>11, <1>12 DEF Next

-----------------------------------------------------------------------------
(* What follows.                                                           *)

(* submit_tx, build_batch_now and confirm_batch keep the invariant by      *)
(* which what is admitted, batched and settled agrees.                     *)
THEOREM AdmissionInvariant == Spec => []AdmissionInv
<1> QED
  BY InitInv, NextInv, PTL DEF Spec

(* Every variable of the mempool keeps its type: in particular every       *)
(* balance stays within u64.                                               *)
THEOREM MempoolTyping == Spec => []TypeOK
<1>1. AdmissionInv => TypeOK
  BY DEF AdmissionInv
<1> QED
  BY <1>1, AdmissionInvariant, PTL

(* A confirmed account is what the consumed deposits and included rows of  *)
(* the database say it is.                                                 *)
LEMMA HistoryHolds == AdmissionInv => AccountsAreHistory
<1> SUFFICES ASSUME AdmissionInv, NEW k \in Key
             PROVE  IF Holds(leaves, k)
                    THEN /\ AccountOf(leaves, k).balance = Received(k) - Spent(k)
                         /\ AccountOf(leaves, k).nonce = Cardinality(RowsOf(k, "included"))
                    ELSE Received(k) = 0 /\ Spent(k) = 0
  BY DEF AccountsAreHistory
<1>1. TypeOK /\ LedgerInv /\ RowsInv
  BY DEF AdmissionInv
<1>2. /\ deposits \in Seq(DepRow) /\ mempool \in Seq(TxRow) /\ leaves \in Tree
      /\ Consumed \in SUBSET DOMAIN deposits /\ Included \in SUBSET DOMAIN mempool
      /\ Ledger(leaves, deposits, Consumed, mempool, Included)
  BY <1>1 DEF TypeOK, LedgerInv, Consumed, Included, DepIds, TxIds
<1> DEFINE DK == DepsTo(deposits, Consumed, k)
           TK == TxsTo(mempool, Included, k)
           SK == TxsBy(mempool, Included, k)
<1>3. /\ {d \in DepIds : deposits[d].to = k /\ deposits[d].status = "consumed"} = DK
      /\ {t \in TxIds : mempool[t].to = k /\ mempool[t].status = "included"} = TK
      /\ RowsOf(k, "included") = SK
  BY DEF DepsTo, TxsTo, TxsBy, Consumed, Included, RowsOf
<1>4. Received(k) = Value(deposits, DK) + Value(mempool, TK) /\ Spent(k) = Value(mempool, SK)
  BY <1>3 DEF Received, Spent
<1>5. CASE Holds(leaves, k)
  <2> DEFINE a == AccountOf(leaves, k)
  <2>1. /\ a.nonce = Cardinality(SK)
        /\ a.balance + Value(mempool, SK) = Value(deposits, DK) + Value(mempool, TK)
    BY <1>2, <1>5, HeldExplained DEF Explains
  <2>2. a.balance \in Nat
    BY <1>2, <1>5, HeldAccount
  <2>3. Value(mempool, SK) \in Nat /\ Value(mempool, TK) \in Nat
    BY <1>2, RowNumbers
  <2>4. Value(deposits, DK) \in Nat
    <3>1. DK \in SUBSET DOMAIN deposits
      BY <1>2 DEF DepsTo
    <3> HIDE DEF DK
    <3> QED
      BY <1>2, <3>1, DepRows, ValueType
  <2>5. a.nonce = Cardinality(RowsOf(k, "included"))
    BY <1>3, <2>1
  <2> HIDE DEF a, DK, TK, SK
  <2>6. a.balance = Received(k) - Spent(k)
    BY <1>4, <2>1, <2>2, <2>3, <2>4
  <2> QED
    BY <1>5, <2>5, <2>6 DEF a
<1>6. CASE ~Holds(leaves, k)
  <2>1. DK = {}
    BY <1>2, <1>6 DEF Ledger
  <2>2. TK = {}
    <3>1. \A t \in Included : mempool[t].withdraw \/ Holds(leaves, mempool[t].to)
      BY <1>2 DEF Ledger
    <3>2. \A t \in Included : mempool[t].withdraw => mempool[t].to = NoKey
      BY <1>1, <1>2 DEF RowsInv, WellFormed
    <3>3. k # NoKey
      BY AccountsAssumption
    <3> QED
      BY <1>6, <3>1, <3>2, <3>3 DEF TxsTo
  <2>3. SK = {}
    BY <1>2, <1>6 DEF Ledger, TxsBy
  <2> HIDE DEF DK, TK, SK
  <2>4. Received(k) = 0 + 0 /\ Spent(k) = 0
    BY <1>4, <2>1, <2>2, <2>3, ValueEmpty
  <2> QED
    BY <1>6, <2>4
<1> QED
  BY <1>5, <1>6

(* The confirmed accounts are the history of the consumed deposits and     *)
(* included rows: whatever failed, was evicted or was built twice before   *)
(* confirm_batch committed it has no effect on them, and no effect is lost *)
(* or counted twice.                                                       *)
THEOREM AccountHistory == Spec => []AccountsAreHistory
<1> QED
  BY HistoryHolds, AdmissionInvariant, PTL

(* build_batch never stops at a balance beyond u64: the deposits in the    *)
(* contract are part of a supply that fits.                                *)
LEMMA NoJam == AdmissionInv => NoOverflowJam
<1> SUFFICES ASSUME AdmissionInv, building PROVE Attempt.error # "BalanceOverflow"
  BY DEF NoOverflowJam
<1>1. \A U, row : Refuses(U, row, Attempt.error) => Attempt.error # "BalanceOverflow"
  BY DEF Refuses
<1> QED
  BY <1>1, AttemptOutcome DEF AdmissionInv

(* build_batch never answers BalanceOverflow, which no eviction could      *)
(* cure, as long as the token's supply fits u64.                           *)
THEOREM NoBuildOverflows == Spec => []NoOverflowJam
<1> QED
  BY NoJam, AdmissionInvariant, PTL


-----------------------------------------------------------------------------
(* When X has settled in order and all other rows of a sender are in L,    *)
(* those in L carry the nonces after the settled ones.                     *)
LEMMA LiveNumbered ==
  ASSUME NEW rows \in Seq(TxRow), NEW X \in SUBSET DOMAIN rows, NEW L \in SUBSET DOMAIN rows,
         Numbered(rows), SettledFirst(rows, X),
         NEW t \in DOMAIN rows, t \notin X,
         {u \in DOMAIN rows : rows[u].from = rows[t].from /\ u < t} \subseteq X \cup L,
         X \cap L = {}
  PROVE  rows[t].nonce = Cardinality(TxsBy(rows, X, rows[t].from))
                           + Rank(TxsBy(rows, L, rows[t].from), t)
<1> DEFINE k == rows[t].from
           R == TxsBy(rows, DOMAIN rows, k)
           XK == TxsBy(rows, X, k)
           LB == {v \in TxsBy(rows, L, k) : v < t}
           Before == {v \in R : v < t}
<1>1. /\ R \in SUBSET Nat /\ IsFiniteSet(R) /\ t \in Nat
  <2>1. R \in SUBSET DOMAIN rows /\ {t} \in SUBSET DOMAIN rows
    BY DEF TxsBy
  <2>2. {t} \in SUBSET Nat
    BY <2>1, TxRows
  <2> HIDE DEF R
  <2> QED
    BY <2>1, <2>2, TxRows
<1>2. ASSUME NEW v \in XK PROVE v \in R /\ v < t
  <2>1. v \in X /\ v \in DOMAIN rows /\ rows[v].from = k /\ v \in R
    BY DEF TxsBy
  <2>2. v \in Nat
    BY <1>1, <2>1
  <2>3. ~ (t < v)
    BY <2>1 DEF SettledFirst
  <2>4. v # t
    BY <2>1
  <2> QED
    BY <1>1, <2>1, <2>2, <2>3, <2>4
<1>3. Before \subseteq XK \cup LB /\ LB \subseteq Before /\ XK \cap LB = {}
  BY DEF TxsBy
<1>4. XK \cup LB = Before
  BY <1>2, <1>3
<1>5. IsFiniteSet(XK) /\ IsFiniteSet(LB)
  <2>1. XK \subseteq R /\ LB \subseteq R
    BY DEF TxsBy
  <2> HIDE DEF R, XK, LB
  <2> QED
    BY <1>1, <2>1, FS_Subset
<1>6. rows[t].nonce = Cardinality(Before) /\ Rank(TxsBy(rows, L, k), t) = Cardinality(LB)
  BY DEF Numbered, Rank
<1> HIDE DEF R, XK, LB, Before
<1>7. Cardinality(Before) = Cardinality(XK) + Cardinality(LB)
  <2>1. Cardinality(XK \cup LB) = Cardinality(XK) + Cardinality(LB) - Cardinality(XK \cap LB)
    BY <1>5, FS_Union
  <2>2. Cardinality({}) = 0 /\ Cardinality(XK) \in Nat /\ Cardinality(LB) \in Nat
    BY <1>5, FS_EmptySet, FS_CardinalityType
  <2>3. Cardinality(XK \cap LB) = 0
    BY <1>3, <2>2
  <2>4. Cardinality(XK \cup LB) = Cardinality(XK) + Cardinality(LB)
    BY <2>1, <2>2, <2>3
  <2> QED
    BY <1>4, <2>4
<1> QED
  BY <1>6, <1>7 DEF XK

(* Admission's shadow agrees with the confirmed account.                   *)
LEMMA ShadowHolds == AdmissionInv => ShadowExact
<1> SUFFICES ASSUME AdmissionInv, faults = 0, NEW k \in Key, NoRejection(k)
             PROVE  NoncesFollow(k) /\ BalanceCovers(k)
  BY DEF ShadowExact
<1>1. TypeOK /\ LedgerInv /\ Holds(leaves, k)
  BY DEF AdmissionInv, NoRejection
<1>2. /\ Numbered(mempool) /\ SettledFirst(mempool, Included)
      /\ FundsCover(leaves, mempool, Live)
  BY DEF AdmissionInv, ShadowInv
<1>3. /\ mempool \in Seq(TxRow) /\ Included \in SUBSET DOMAIN mempool
      /\ Live \in SUBSET DOMAIN mempool /\ Included \cap Live = {} /\ leaves \in Tree
      /\ Ledger(leaves, deposits, Consumed, mempool, Included)
  BY <1>1 DEF TypeOK, LedgerInv, Included, Live, TxIds
<1>4. LiveRows(k) = TxsBy(mempool, Live, k)
  BY DEF LiveRows, TxsBy, Live
<1>5. BalanceCovers(k)
  BY <1>1, <1>2, <1>4 DEF BalanceCovers, FundsCover
<1>6. AccountOf(leaves, k).nonce = Cardinality(TxsBy(mempool, Included, k))
  BY <1>1, <1>3, HeldExplained DEF Explains
<1>7. ASSUME NEW t \in LiveRows(k)
      PROVE  mempool[t].nonce = AccountOf(leaves, k).nonce + Rank(LiveRows(k), t)
  <2>1. t \in DOMAIN mempool /\ mempool[t].from = k /\ t \in Live
    BY <1>3, <1>4 DEF TxsBy
  <2>2. t \notin Included
    BY <1>3, <2>1
  <2>3. \A u \in DOMAIN mempool : mempool[u].from = k => u \in Included \cup Live
    <3> SUFFICES ASSUME NEW u \in DOMAIN mempool, mempool[u].from = k
                 PROVE  u \in Included \cup Live
      OBVIOUS
    <3>1. mempool[u].status # "rejected"
      BY DEF NoRejection, RowsOf, TxIds
    <3>2. mempool[u].status \in {"pending", "batching", "included", "rejected"}
      <4>1. mempool[u] \in TxRow
        BY <1>3
      <4> QED
        BY <4>1 DEF TxRow
    <3> QED
      BY <3>1, <3>2 DEF Included, Live, TxIds
  <2>4. {u \in DOMAIN mempool : mempool[u].from = mempool[t].from /\ u < t} \subseteq Included \cup Live
    BY <2>1, <2>3
  <2>5. mempool[t].nonce = Cardinality(TxsBy(mempool, Included, mempool[t].from))
                             + Rank(TxsBy(mempool, Live, mempool[t].from), t)
    BY <1>2, <1>3, <2>1, <2>2, <2>4, LiveNumbered
  <2> QED
    BY <1>4, <1>6, <2>1, <2>5
<1> QED
  BY <1>5, <1>7 DEF NoncesFollow

(* While the commit of no confirmation has failed, the rows of a sender    *)
(* that no build has rejected follow its confirmed nonce without a gap,    *)
(* and its confirmed balance pays for them: what submit_tx admits against  *)
(* tree and mempool stays good until it settles.                           *)
THEOREM ShadowAgrees == Spec => []ShadowExact
<1> QED
  BY ShadowHolds, AdmissionInvariant, PTL


-----------------------------------------------------------------------------
(* Why a build refuses a row that was admitted.                            *)
LEMMA WhyRefused ==
  ASSUME AdmissionInv, building, faults = 0, Attempt.error \in EvictableErrors,
         NEW row, row = mempool[RefusedTx]
  PROVE  \/ /\ Attempt.error = "NonceMismatch"
            /\ \E u \in (RowsOf(row.from, "pending") \cup RowsOf(row.from, "rejected")) \ txs :
                 mempool[u].nonce < row.nonce
         \/ /\ Attempt.error = "RecipientNotFound"
            /\ \E d \in PendingDeps \ TakenDeps : deposits[d].to = row.to
<1> DEFINE r == RefusedTx
           why == Attempt.error
           D == TakenDeps
           k == row.from
<1>1. /\ TypeOK /\ BatchInv /\ LedgerInv /\ RowsInv
      /\ SendersHeld(leaves, mempool) /\ Numbered(mempool)
      /\ SettledFirst(mempool, Included) /\ FundsCover(leaves, mempool, Live)
  BY DEF AdmissionInv, ShadowInv
<1>2. /\ batch = NoBatch /\ tree = leaves
      /\ Buildable(tree, deposits, Consumed, D, mempool, Included, txs)
  BY <1>1, BuildStarts
<1>3. /\ D \in SUBSET Nat /\ IsFiniteSet(D) /\ Cardinality(D) \in Nat
      /\ txs \in SUBSET Nat /\ IsFiniteSet(txs) /\ Cardinality(txs) \in Nat
  BY <1>2, BuildNumbers
<1>m. PICK m \in 1 .. Cardinality(txs) : \E U :
        /\ r = InOrder(txs)[m]
        /\ LedTo(U, Cardinality(D) + m - 1, deposits, Consumed, D, mempool, Included, txs)
        /\ Refuses(U, row, why)
  BY <1>1, RefusedRow
<1>4. PICK U :
        /\ r = InOrder(txs)[m]
        /\ LedTo(U, Cardinality(D) + m - 1, deposits, Consumed, D, mempool, Included, txs)
        /\ Refuses(U, row, why)
  BY <1>m
<1> DEFINE G == FirstOf(txs, m - 1)
           X == Included \cup G
<1>5. /\ U \in Tree /\ Ledger(U, deposits, Consumed \cup D, mempool, X)
      /\ InSequence(mempool, Included, G)
  <2> DEFINE n == Cardinality(D) + m - 1
  <2>1. n \in Int /\ n >= Cardinality(D) /\ n - Cardinality(D) = m - 1
    BY <1>3
  <2> HIDE DEF n, D
  <2>2. FirstOf(D, n) = D
    BY <1>3, <2>1, FirstOfFacts
  <2> QED
    BY <1>4, <2>1, <2>2 DEF LedTo, n
<1>6. /\ mempool \in Seq(TxRow) /\ deposits \in Seq(DepRow) /\ leaves \in Tree
      /\ Included \in SUBSET DOMAIN mempool /\ txs \in SUBSET (DOMAIN mempool \ Included)
      /\ Consumed \in SUBSET DOMAIN deposits /\ D \in SUBSET DOMAIN deposits
      /\ Ledger(leaves, deposits, Consumed, mempool, Included) /\ WellFormed(mempool)
      /\ txs \in SUBSET PendingTxs
  BY <1>1, <1>2 DEF Buildable, BatchInv, TypeOK
<1>7. /\ G \in SUBSET txs /\ r \in txs /\ Rank(txs, r) = m - 1
      /\ \A u \in txs : u < r => u \in G
  <2>1. r \in txs /\ Rank(txs, r) = m - 1
    BY <1>3, <1>4, InOrderFacts
  <2>2. \A u \in txs : u < r => Rank(txs, u) < m - 1
    BY <1>3, <2>1, RankInjective
  <2> QED
    BY <2>1, <2>2 DEF FirstOf
<1>8. r \notin G
  <2>1. \A x \in G : Rank(txs, x) < m - 1
    BY DEF FirstOf
  <2>2. m - 1 \in Nat
    OBVIOUS
  <2> QED
    BY <1>7, <2>1, <2>2
<1>9. /\ r \in DOMAIN mempool /\ r \notin X /\ r \in Live /\ r \in Nat /\ G \in SUBSET Live
      /\ G \in SUBSET (DOMAIN mempool \ Included)
  <2>1. r \in DOMAIN mempool /\ r \notin Included /\ r \in Nat
    BY <1>3, <1>6, <1>7
  <2>2. PendingTxs \subseteq Live
    BY DEF PendingTxs, Live
  <2> QED
    BY <1>6, <1>7, <1>8, <2>1, <2>2
<1>10. /\ k \in Key /\ k # NoKey /\ row.amount \in Nat /\ row.nonce \in Nat
       /\ row.to \in Key \cup {NoKey}
  <2>1. {r} \in SUBSET DOMAIN mempool
    BY <1>9
  <2> HIDE DEF r
  <2> QED
    BY <1>6, <2>1, TxRows, AccountsAssumption DEF r
<1> HIDE DEF r, why, D, G
<1>11. SendersHeld(U, mempool) /\ FundsCover(U, mempool, Live \ G)
  <2>1. Live \in SUBSET DOMAIN mempool
    BY DEF Live, TxIds
  <2> QED
    BY <1>1, <1>5, <1>6, <1>9, <2>1, SettleFunds
<1>12. Holds(U, k)
  BY <1>9, <1>11 DEF SendersHeld, r
<1>13. ASSUME NEW i \in Slot, U[i].pk = k PROVE AccountOf(U, k) = U[i]
  <2>1. OneSlotEach(U)
    BY <1>5 DEF Ledger
  <2> QED
    BY <1>10, <1>13, <2>1, SlotOfKey
<1>14. row.amount <= AccountOf(U, k).balance
  <2> DEFINE R == TxsBy(mempool, Live \ G, k)
  <2>1. Value(mempool, R) <= AccountOf(U, k).balance
    BY <1>10, <1>11, <1>12 DEF FundsCover
  <2>2. r \in R /\ R \in SUBSET DOMAIN mempool
    BY <1>8, <1>9 DEF TxsBy, Live, TxIds, r
  <2>3. AccountOf(U, k).balance \in Nat
    BY <1>5, <1>12, HeldAccount
  <2> HIDE DEF R
  <2>4. Value(mempool, R) \in Nat /\ row.amount <= Value(mempool, R)
    <3>1. R \ {r} \in SUBSET DOMAIN mempool /\ r \in DOMAIN mempool \ (R \ {r})
          /\ (R \ {r}) \cup {r} = R
      BY <2>2
    <3>2. Value(mempool, (R \ {r}) \cup {r}) = Value(mempool, R \ {r}) + mempool[r].amount
      BY <1>6, <3>1, RowCounted
    <3>3. Value(mempool, R \ {r}) \in Nat
      BY <1>6, <3>1, TxRows, ValueType
    <3>4. Value(mempool, R) = Value(mempool, R \ {r}) + row.amount
      BY <3>1, <3>2 DEF r
    <3> QED
      BY <1>10, <3>3, <3>4
  <2> QED
    BY <1>10, <2>1, <2>3, <2>4
<1>15. AccountOf(U, k).nonce = Cardinality(TxsBy(mempool, X, k))
  BY <1>5, <1>10, <1>12, HeldExplained DEF Explains
<1>16. CASE why = "NonceMismatch"
  <2> SUFFICES ASSUME ~ \E u \in (RowsOf(k, "pending") \cup RowsOf(k, "rejected")) \ txs :
                          mempool[u].nonce < row.nonce
               PROVE  FALSE
    BY <1>16 DEF why
  <2>1. AccountOf(U, k).nonce # row.nonce
    BY <1>4, <1>13, <1>16 DEF Refuses
  <2>2. ASSUME NEW u \in DOMAIN mempool, mempool[u].from = k, u < r
        PROVE  u \in X
    <3>1. mempool[u].nonce < row.nonce
      <4> DEFINE R == TxsBy(mempool, DOMAIN mempool, k)
      <4>1. u \in R /\ r \in R
        BY <1>9, <2>2 DEF TxsBy, r
      <4>2. mempool[u].nonce = Rank(R, u) /\ row.nonce = Rank(R, r)
        BY <1>1, <1>9, <2>2 DEF Numbered, r
      <4>3. R \in SUBSET DOMAIN mempool
        BY DEF TxsBy
      <4> HIDE DEF R
      <4>4. R \in SUBSET Nat /\ IsFiniteSet(R)
        BY <1>6, <4>3, TxRows
      <4> QED
        BY <2>2, <4>1, <4>2, <4>4, RankInjective
    <3>2. mempool[u].status \in {"pending", "batching", "included", "rejected"}
      <4>1. mempool[u] \in TxRow
        BY <1>6
      <4> QED
        BY <4>1 DEF TxRow
    <3>3. mempool[u].status # "batching"
      BY <1>1, <1>2 DEF BatchInv, NoBatch, TxIds
    <3>4. CASE mempool[u].status = "included"
      BY <3>4 DEF Included, TxIds
    <3>5. CASE u \in txs
      BY <1>7, <2>2, <3>5
    <3>6. CASE u \notin txs /\ mempool[u].status \in {"pending", "rejected"}
      <4>1. u \in RowsOf(k, "pending") \cup RowsOf(k, "rejected")
        BY <2>2, <3>6 DEF RowsOf, TxIds
      <4> QED
        BY <3>1, <3>6, <4>1
    <3> QED
      BY <3>2, <3>3, <3>4, <3>5, <3>6
  <2>3. SettledFirst(mempool, X)
    BY <1>1, <1>5, <1>6, <1>9, SettleInOrder
  <2>4. row.nonce = Cardinality(TxsBy(mempool, X, k)) + Rank(TxsBy(mempool, {}, k), r)
    <3>1. row = mempool[r]
      BY DEF r
    <3>2. {u \in DOMAIN mempool : mempool[u].from = mempool[r].from /\ u < r} \subseteq X \cup {}
      BY <2>2, <3>1
    <3>3. X \in SUBSET DOMAIN mempool /\ {} \in SUBSET DOMAIN mempool /\ X \cap {} = {}
      BY <1>6, <1>9
    <3>4. r \in DOMAIN mempool /\ r \notin X
      BY <1>9
    <3> HIDE DEF X
    <3>5. mempool[r].nonce = Cardinality(TxsBy(mempool, X, mempool[r].from))
                               + Rank(TxsBy(mempool, {}, mempool[r].from), r)
      BY <1>1, <1>6, <2>3, <3>2, <3>3, <3>4, LiveNumbered
    <3> QED
      BY <3>1, <3>5
  <2>5. Rank(TxsBy(mempool, {}, k), r) = 0
    <3>1. {y \in TxsBy(mempool, {}, k) : y < r} = {}
      BY DEF TxsBy
    <3> QED
      BY <3>1, FS_EmptySet DEF Rank
  <2>6. Cardinality(TxsBy(mempool, X, k)) \in Nat
    BY <1>6, <1>9, RowNumbers
  <2> QED
    BY <1>15, <2>1, <2>4, <2>5, <2>6
<1>17. CASE why = "RecipientNotFound"
  <2>1. ~row.withdraw /\ ~Holds(U, row.to)
    BY <1>4, <1>17 DEF Refuses
  <2>2. row.to \in Key
    BY <1>6, <1>9, <1>10, <2>1 DEF WellFormed, r
  <2>3. PICK d \in DOMAIN deposits : deposits[d].to = row.to
    BY <1>1, <1>9, <2>1 DEF RowsInv, RecipientsFunded, DepsTo, r
  <2>4. d \notin Consumed \cup D
    BY <1>5, <2>1, <2>2, <2>3 DEF Ledger, DepsTo
  <2>5. deposits[d].status \in {"pending", "batching", "consumed"}
    <3>1. deposits[d] \in DepRow
      BY <1>6
    <3> QED
      BY <3>1 DEF DepRow
  <2>6. deposits[d].status # "batching"
    BY <1>1, <1>2 DEF BatchInv, NoBatch, DepIds
  <2>7. d \in PendingDeps \ D
    BY <2>4, <2>5, <2>6 DEF PendingDeps, Consumed, DepIds
  <2> QED
    BY <1>17, <2>3, <2>7 DEF why, D
<1>18. why # "SenderNotFound" /\ why # "InsufficientBalance"
  <2>1. why # "SenderNotFound"
    BY <1>4, <1>12 DEF Refuses
  <2>2. ASSUME NEW i \in Slot, U[i].pk = k PROVE ~ (U[i].balance < row.amount)
    <3>1. U[i].balance \in Nat /\ row.amount <= U[i].balance
      <4>1. AccountOf(U, k).balance \in Nat
        BY <1>5, <1>12, HeldAccount
      <4> QED
        BY <1>13, <1>14, <2>2, <4>1
    <3> QED
      BY <1>10, <3>1
  <2>3. why # "InsufficientBalance"
    BY <1>4, <2>2 DEF Refuses
  <2> QED
    BY <2>1, <2>3
<1> QED
  BY <1>16, <1>17, <1>18 DEF EvictableErrors, why


(* Only Evict rejects a row.                                               *)
LEMMA OnlyEvictRejects ==
  ASSUME AdmissionInv, [Next]_vars, NEW t \in TxIds, Evicted(t)
  PROVE  Evict /\ t = RefusedTx /\ mempool'[t].reason = Attempt.error
<1>1. TypeOK /\ BatchInv /\ LedgerInv /\ RowsInv
  BY DEF AdmissionInv
<1>2. /\ mempool \in Seq(TxRow) /\ t \in 1 .. Len(mempool) /\ Len(mempool) \in Nat
      /\ TxIds = 1 .. Len(mempool) /\ mempool[t].status # "rejected" /\ mempool'[t].status = "rejected"
  BY <1>1 DEF TypeOK, TxIds, Evicted
<1>3. mempool' # mempool
  BY <1>2
<1>4. ASSUME NEW X \in SUBSET TxIds, NEW s \in {"pending", "batching", "included"}
      PROVE  mempool' # TxStatus(X, s)
  BY <1>1, <1>2, StatusSet
<1>5. CASE \E k \in Key, a \in DepositAmounts : ObserveDeposit(k, a)
  BY <1>3, <1>5 DEF ObserveDeposit
<1>6. CASE \E q \in Request : SubmitTx(q)
  <2>1. \E row : mempool' = Append(mempool, row)
    BY <1>6 DEF SubmitTx
  <2>2. mempool'[t] = mempool[t]
    BY <1>2, <2>1
  <2> QED
    BY <1>2, <2>2
<1>7. CASE TryBuild \/ Stall \/ Land \/ ConfirmFault \/ Restart \/ UNCHANGED vars
  BY <1>3, <1>7 DEF TryBuild, Stall, Land, ConfirmFault, Restart, vars
<1>8. CASE InsertBatch
  BY <1>1, <1>4, <1>8 DEF InsertBatch, TypeOK
<1>9. CASE FailBatch \/ Confirm
  <2>1. batch.txs \in SUBSET TxIds
    BY <1>1 DEF TypeOK
  <2> QED
    BY <1>4, <1>9, <2>1 DEF FailBatch, Confirm
<1>10. CASE Evict
  <2> DEFINE r == RefusedTx
             why == Attempt.error
  <2>1. mempool' = [mempool EXCEPT ![r].status = "rejected", ![r].reason = why]
    BY <1>10 DEF Evict
  <2>2. r \in TxIds
    BY <1>1, <1>10, RefusedRow DEF Evict, TypeOK
  <2> HIDE DEF r, why
  <2>3. mempool[r] \in TxRow
    BY <1>2, <2>2
  <2>4. mempool'[r].reason = why /\ (t # r => mempool'[t] = mempool[t])
    BY <1>2, <2>1, <2>2, <2>3 DEF TxRow
  <2>5. t = r
    BY <1>2, <2>4
  <2> QED
    BY <1>10, <2>4, <2>5 DEF r, why
<1> QED
  BY <1>5, <1>6, <1>7, <1>8, <1>9, <1>10 DEF Next

LEMMA EvictionsHold ==
  AdmissionInv /\ [Next]_vars => (faults = 0 => \A t \in TxIds : Evicted(t) => EvictionExplained(t))
<1> SUFFICES ASSUME AdmissionInv, [Next]_vars, faults = 0, NEW t \in TxIds, Evicted(t)
             PROVE  EvictionExplained(t)
  OBVIOUS
<1>1. Evict /\ t = RefusedTx /\ mempool'[t].reason = Attempt.error
  BY OnlyEvictRejects
<1> DEFINE row == mempool[RefusedTx]
           why == Attempt.error
<1>2. building /\ why \in EvictableErrors
  BY <1>1 DEF Evict
<1>3. \/ /\ why = "NonceMismatch"
         /\ \E u \in (RowsOf(row.from, "pending") \cup RowsOf(row.from, "rejected")) \ txs :
              mempool[u].nonce < row.nonce
      \/ /\ why = "RecipientNotFound"
         /\ \E d \in PendingDeps \ TakenDeps : deposits[d].to = row.to
  BY <1>2, WhyRefused
<1>4. mempool'[t].reason = why /\ mempool[t] = row
  BY <1>1
<1> HIDE DEF row, why
<1> QED
  BY <1>3, <1>4 DEF EvictionExplained

(* While the commit of no confirmation has failed, a build rejects a row   *)
(* that submit_tx accepted for two reasons only: an earlier row of its     *)
(* sender is not in the batch, or a deposit to its recipient is not.  It   *)
(* is never for want of funds or of the sender's account.                  *)
THEOREM EvictionReasons == Spec => EvictionsExplained
<1>1. AdmissionInv /\ [Next]_vars =>
        [faults = 0 => \A t \in TxIds : Evicted(t) => EvictionExplained(t)]_vars
  BY EvictionsHold
<1> QED
  BY <1>1, AdmissionInvariant, PTL DEF Spec, EvictionsExplained
=============================================================================

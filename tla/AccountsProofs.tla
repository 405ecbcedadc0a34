------------------------------ MODULE AccountsProofs ------------------------------
(***************************************************************************)
(* Facts about sums of amounts, about trees and their accounts, and about  *)
(* what build_batch has done when it stops, for every value of the         *)
(* constants.  Induction over numbers is over the members of a set.        *)
(***************************************************************************)
EXTENDS Accounts, FiniteSetTheorems, WellFoundedInduction, TLAPS

-----------------------------------------------------------------------------
(* Induction.                                                              *)

(* A non-empty set of naturals has a least member.                         *)
LEMMA LeastExists ==
  ASSUME NEW S \in SUBSET Nat, S # {}
  PROVE  \E m \in S : \A x \in S : m <= x
<1>1. \E m \in S : \A x \in S : <<x, m>> \notin OpToRel(<, Nat)
  BY NatLessThanWellFounded, WFMin
<1>2. PICK m \in S : \A x \in S : <<x, m>> \notin OpToRel(<, Nat)
  BY <1>1
<1>3. ASSUME NEW x \in S PROVE m <= x
  <2>1. ~ (x < m)
    BY <1>2 DEF OpToRel
  <2> QED
    BY <2>1
<1> QED
  BY <1>3

(* A set that contains 0 and, with each number, the next one.              *)
LEMMA SetInduction ==
  ASSUME NEW T, 0 \in T, \A n \in Nat : n \in T => n + 1 \in T
  PROVE  \A n \in Nat : n \in T
<1> SUFFICES ASSUME NEW k \in Nat, k \notin T PROVE FALSE
  OBVIOUS
<1>1. Nat \ T \in SUBSET Nat /\ Nat \ T # {}
  OBVIOUS
<1>2. PICK m \in Nat \ T : \A x \in Nat \ T : m <= x
  BY <1>1, LeastExists
<1>3. m # 0 /\ m - 1 \in Nat /\ ~ (m <= m - 1)
  OBVIOUS
<1>4. m - 1 \in T
  BY <1>2, <1>3
<1>5. (m - 1) + 1 \in T /\ (m - 1) + 1 = m
  BY <1>3, <1>4
<1> QED
  BY <1>5

-----------------------------------------------------------------------------
(* Sums.                                                                   *)

(* The units of finitely many amounts are finitely many.                   *)
LEMMA UnitsFinite ==
  ASSUME NEW S, IsFiniteSet(S), NEW f \in [S -> Nat]
  PROVE  IsFiniteSet(Units(f))
<1> DEFINE g == [i \in S |-> {i} \X (1 .. f[i])]
           T == {{i} \X (1 .. f[i]) : i \in S}
<1>1. g \in Surjection(S, T)
  BY DEF Surjection
<1>2. IsFiniteSet(T)
  BY <1>1, FS_Surjection
<1>3. \A U \in T : IsFiniteSet(U)
  <2>1. TAKE U \in T
  <2>2. PICK i \in S : U = {i} \X (1 .. f[i])
    OBVIOUS
  <2>3. f[i] \in Nat
    OBVIOUS
  <2>4. IsFiniteSet({i}) /\ IsFiniteSet(1 .. f[i])
    <3>1. IsFiniteSet({i})
      BY FS_Singleton
    <3>2. 1 \in Int /\ f[i] \in Int
      BY <2>3
    <3> HIDE <2>3
    <3>3. IsFiniteSet(1 .. f[i])
      BY <3>2, FS_Interval
    <3> QED
      BY <3>1, <3>3
  <2> QED
    BY <2>2, <2>4, FS_Product
<1>4. IsFiniteSet(UNION T)
  BY <1>2, <1>3, FS_UNION
<1>5. Units(f) = UNION T
  BY DEF Units
<1> QED
  BY <1>4, <1>5

(* A sum is a natural number.                                              *)
LEMMA SumType ==
  ASSUME NEW S, IsFiniteSet(S), NEW f \in [S -> Nat]
  PROVE  SumOf(f) \in Nat
BY UnitsFinite, FS_CardinalityType DEF SumOf

(* The sum of no terms, and of zeros.                                      *)
LEMMA SumOfZeros ==
  ASSUME NEW S, NEW f \in [S -> Nat], \A i \in S : f[i] = 0
  PROVE  SumOf(f) = 0
<1>1. Units(f) = {}
  BY DEF Units
<1> QED
  BY <1>1, FS_EmptySet DEF SumOf

(* One term.                                                               *)
LEMMA SumOfOne ==
  ASSUME NEW x, NEW v \in Nat
  PROVE  SumOf([i \in {x} |-> v]) = v
<1>1. Units([i \in {x} |-> v]) = {x} \X (1 .. v)
  BY DEF Units
<1>2. IsFiniteSet({x}) /\ Cardinality({x}) = 1
  BY FS_Singleton
<1>3. IsFiniteSet(1 .. v) /\ Cardinality(1 .. v) = v
  BY FS_Interval
<1>4. Cardinality({x} \X (1 .. v)) = 1 * v
  BY <1>2, <1>3, FS_Product
<1> QED
  BY <1>1, <1>4 DEF SumOf

(* Sums of disjoint units add up.                                          *)
LEMMA SumOfUnits ==
  ASSUME NEW f, NEW fs, NEW ft, IsFiniteSet(Units(fs)), IsFiniteSet(Units(ft)),
         Units(f) = Units(fs) \cup Units(ft), Units(fs) \cap Units(ft) = {}
  PROVE  SumOf(f) = SumOf(fs) + SumOf(ft) /\ SumOf(fs) \in Nat /\ SumOf(ft) \in Nat
<1>1. Cardinality(Units(fs) \cup Units(ft))
        = Cardinality(Units(fs)) + Cardinality(Units(ft))
            - Cardinality(Units(fs) \cap Units(ft))
  BY FS_Union
<1>2. Cardinality(Units(fs)) \in Nat /\ Cardinality(Units(ft)) \in Nat
  BY FS_CardinalityType
<1>3. Cardinality(Units(fs) \cap Units(ft)) = 0
  BY FS_EmptySet
<1> QED
  BY <1>1, <1>2, <1>3 DEF SumOf

(* Sums over disjoint index sets add up.                                   *)
LEMMA SumOfUnion ==
  ASSUME NEW S, IsFiniteSet(S), NEW T, IsFiniteSet(T), S \cap T = {},
         NEW f \in [S \cup T -> Nat]
  PROVE  SumOf(f) = SumOf([i \in S |-> f[i]]) + SumOf([i \in T |-> f[i]])
<1> DEFINE fs == [i \in S |-> f[i]]
           ft == [i \in T |-> f[i]]
<1>1. fs \in [S -> Nat] /\ ft \in [T -> Nat]
  OBVIOUS
<1>2. IsFiniteSet(Units(fs)) /\ IsFiniteSet(Units(ft))
  BY <1>1, UnitsFinite
<1>3. Units(f) = Units(fs) \cup Units(ft) /\ Units(fs) \cap Units(ft) = {}
  BY DEF Units
<1> HIDE DEF fs, ft
<1>4. SumOf(f) = SumOf(fs) + SumOf(ft)
  BY <1>2, <1>3, SumOfUnits
<1> QED
  BY <1>4 DEF fs, ft

(* Replacing one term.                                                     *)
LEMMA SumUpdate ==
  ASSUME NEW S, IsFiniteSet(S), NEW f \in [S -> Nat], NEW x \in S, NEW v \in Nat
  PROVE  /\ SumOf([f EXCEPT ![x] = v]) = SumOf(f) - f[x] + v
         /\ f[x] <= SumOf(f)
<1> DEFINE R == S \ {x}
           g == [f EXCEPT ![x] = v]
<1>1. S = R \cup {x} /\ R \cap {x} = {} /\ IsFiniteSet(R) /\ IsFiniteSet({x})
  <2>1. IsFiniteSet(R)
    BY FS_RemoveElement
  <2>2. IsFiniteSet({x})
    BY FS_Singleton
  <2> QED
    BY <2>1, <2>2
<1>2. ASSUME NEW h \in [S -> Nat]
      PROVE  /\ SumOf(h) = SumOf([i \in R |-> h[i]]) + h[x]
             /\ SumOf([i \in R |-> h[i]]) \in Nat
  <2>1. h \in [R \cup {x} -> Nat]
    BY <1>1
  <2>2. [i \in R |-> h[i]] \in [R -> Nat]
    BY <2>1
  <2> HIDE DEF R
  <2>3. SumOf(h) = SumOf([i \in R |-> h[i]]) + SumOf([i \in {x} |-> h[i]])
    BY <1>1, <2>1, SumOfUnion
  <2>4. [i \in {x} |-> h[i]] = [i \in {x} |-> h[x]]
    OBVIOUS
  <2>5. SumOf([i \in {x} |-> h[x]]) = h[x]
    BY SumOfOne
  <2>6. SumOf([i \in R |-> h[i]]) \in Nat
    BY <1>1, <2>2, SumType
  <2> QED
    BY <2>3, <2>4, <2>5, <2>6
<1>3. g \in [S -> Nat] /\ g[x] = v
  OBVIOUS
<1>4. [i \in R |-> f[i]] = [i \in R |-> g[i]]
  OBVIOUS
<1>5. f[x] \in Nat
  OBVIOUS
<1> HIDE DEF R, g
<1>6. SumOf(f) = SumOf([i \in R |-> f[i]]) + f[x] /\ SumOf([i \in R |-> f[i]]) \in Nat
  BY <1>2
<1>7. SumOf(g) = SumOf([i \in R |-> g[i]]) + v
  BY <1>2, <1>3
<1> QED
  BY <1>4, <1>5, <1>6, <1>7 DEF g

(* Renumbering the terms.                                                  *)
LEMMA SumShift ==
  ASSUME NEW n \in Nat, NEW a \in Nat,
         NEW f \in [1 .. n -> Nat], NEW g \in [a + 1 .. a + n -> Nat],
         \A i \in 1 .. n : g[a + i] = f[i]
  PROVE  SumOf(f) = SumOf(g)
<1> DEFINE b == [u \in Units(f) |-> <<a + u[1], u[2]>>]
<1>1. \A u \in Units(f) : /\ u = <<u[1], u[2]>> /\ u[1] \in 1 .. n
                          /\ u[2] \in 1 .. f[u[1]]
  BY DEF Units
<1>2. \A u \in Units(g) : /\ u = <<u[1], u[2]>> /\ u[1] \in a + 1 .. a + n
                          /\ u[2] \in 1 .. g[u[1]]
  BY DEF Units
<1>3. ASSUME NEW i \in 1 .. n, NEW k \in 1 .. f[i]
      PROVE  <<i, k>> \in Units(f) /\ <<a + i, k>> \in Units(g)
  <2>1. <<i, k>> \in {i} \X (1 .. f[i]) /\ i \in DOMAIN f
    OBVIOUS
  <2>2. <<a + i, k>> \in {a + i} \X (1 .. g[a + i]) /\ a + i \in DOMAIN g
    OBVIOUS
  <2> QED
    BY <2>1, <2>2 DEF Units
<1>4. b \in [Units(f) -> Units(g)]
  BY <1>1, <1>3
<1>5. b \in Injection(Units(f), Units(g))
  <2>1. ASSUME NEW u \in Units(f), NEW w \in Units(f), b[u] = b[w]
        PROVE  u = w
    <3>1. a + u[1] = a + w[1] /\ u[2] = w[2]
      BY <2>1
    <3>2. u[1] = w[1]
      BY <3>1, <1>1
    <3> QED
      BY <3>1, <3>2, <1>1
  <2> QED
    BY <2>1, <1>4 DEF Injection, IsInjective
<1>6. b \in Surjection(Units(f), Units(g))
  <2>1. ASSUME NEW w \in Units(g)
        PROVE  \E u \in Units(f) : b[u] = w
    <3>1. w[1] - a \in 1 .. n /\ a + (w[1] - a) = w[1] /\ w[2] \in 1 .. f[w[1] - a]
      BY <1>2
    <3>2. <<w[1] - a, w[2]>> \in Units(f)
      BY <3>1, <1>3
    <3>3. b[<<w[1] - a, w[2]>>] = w
      BY <3>1, <3>2, <1>2
    <3> QED
      BY <3>2, <3>3
  <2> QED
    BY <2>1, <1>4 DEF Surjection
<1>7. ExistsBijection(Units(f), Units(g))
  BY <1>5, <1>6 DEF ExistsBijection, Bijection
<1>8. IsFiniteSet(Units(f))
  BY UnitsFinite, FS_Interval
<1> QED
  BY <1>7, <1>8, FS_Bijection DEF SumOf

(* What rows are worth.                                                    *)
Priced(rows, S) == IsFiniteSet(S) /\ \A i \in S : rows[i].amount \in Nat

(* Nothing; one more row; rows of two kinds; some of the rows.             *)
LEMMA ValueEmpty == \A rows : Value(rows, {}) = 0
<1> TAKE rows
<1> DEFINE f == [i \in {} |-> rows[i].amount]
<1>1. f \in [{} -> Nat] /\ \A i \in {} : f[i] = 0
  OBVIOUS
<1> HIDE DEF f
<1>2. SumOf(f) = 0
  BY <1>1, SumOfZeros
<1> QED
  BY <1>2 DEF Value, f

LEMMA ValueType ==
  ASSUME NEW rows, NEW S, Priced(rows, S)
  PROVE  Value(rows, S) \in Nat
<1> DEFINE f == [i \in S |-> rows[i].amount]
<1>1. f \in [S -> Nat]
  BY DEF Priced
<1> HIDE DEF f
<1>2. SumOf(f) \in Nat
  BY <1>1, SumType DEF Priced
<1> QED
  BY <1>2 DEF Value, f

LEMMA ValueUnion ==
  ASSUME NEW rows, NEW S, NEW T, Priced(rows, S), Priced(rows, T), S \cap T = {}
  PROVE  /\ Value(rows, S \cup T) = Value(rows, S) + Value(rows, T)
         /\ Value(rows, S) \in Nat /\ Value(rows, T) \in Nat
<1> DEFINE f == [i \in S \cup T |-> rows[i].amount]
<1>1. f \in [S \cup T -> Nat]
  BY DEF Priced
<1>2. [i \in S |-> f[i]] = [i \in S |-> rows[i].amount]
  OBVIOUS
<1>3. [i \in T |-> f[i]] = [i \in T |-> rows[i].amount]
  OBVIOUS
<1>f. IsFiniteSet(S) /\ IsFiniteSet(T)
  BY DEF Priced
<1> HIDE DEF f
<1>4. SumOf(f) = SumOf([i \in S |-> f[i]]) + SumOf([i \in T |-> f[i]])
  BY <1>1, <1>f, SumOfUnion
<1>5. Value(rows, S \cup T) = SumOf(f)
  BY DEF Value, f
<1>6. Value(rows, S \cup T) = Value(rows, S) + Value(rows, T)
  BY <1>2, <1>3, <1>4, <1>5 DEF Value
<1> QED
  BY <1>6, ValueType

LEMMA ValueAdd ==
  ASSUME NEW rows, NEW S, NEW x, Priced(rows, S), rows[x].amount \in Nat, x \notin S
  PROVE  Value(rows, S \cup {x}) = Value(rows, S) + rows[x].amount
<1>1. Priced(rows, {x}) /\ S \cap {x} = {}
  BY FS_Singleton DEF Priced
<1>2. Value(rows, S \cup {x}) = Value(rows, S) + Value(rows, {x})
  BY <1>1, ValueUnion
<1>3. Value(rows, {x}) = rows[x].amount
  <2>1. [i \in {x} |-> rows[i].amount] = [i \in {x} |-> rows[x].amount]
    OBVIOUS
  <2> QED
    BY <2>1, SumOfOne DEF Value
<1> QED
  BY <1>2, <1>3

LEMMA ValuePart ==
  ASSUME NEW rows, NEW S, Priced(rows, S), NEW T \in SUBSET S
  PROVE  /\ Priced(rows, T)
         /\ Value(rows, S) = Value(rows, T) + Value(rows, S \ T)
         /\ Value(rows, T) <= Value(rows, S)
         /\ Value(rows, T) \in Nat /\ Value(rows, S \ T) \in Nat
<1>1. Priced(rows, T) /\ Priced(rows, S \ T)
  BY FS_Subset, FS_Difference DEF Priced
<1>2. S = T \cup (S \ T) /\ T \cap (S \ T) = {}
  OBVIOUS
<1>3. Value(rows, S) = Value(rows, T) + Value(rows, S \ T)
  <2>1. Value(rows, T \cup (S \ T)) = Value(rows, T) + Value(rows, S \ T)
    BY <1>1, <1>2, ValueUnion
  <2>2. T \cup (S \ T) = S
    OBVIOUS
  <2> QED
    BY <2>1, <2>2
<1>4. Value(rows, T) \in Nat /\ Value(rows, S \ T) \in Nat
  BY <1>1, ValueType
<1> QED
  BY <1>1, <1>2, <1>3, <1>4

(* Only the amounts count.                                                 *)
LEMMA ValueSame ==
  ASSUME NEW rows, NEW other, NEW S, \A i \in S : rows[i].amount = other[i].amount
  PROVE  Value(rows, S) = Value(other, S)
<1>1. [i \in S |-> rows[i].amount] = [i \in S |-> other[i].amount]
  OBVIOUS
<1> QED
  BY <1>1 DEF Value

-----------------------------------------------------------------------------
(* Trees.                                                                  *)

LEMMA SlotFinite == IsFiniteSet(Slot)
BY FS_Interval, AccountsAssumption DEF Slot

(* What a tree holds is a number, of which each balance is a part.         *)
LEMMA TotalType ==
  ASSUME NEW tree \in Tree
  PROVE  Total(tree) \in Nat /\ \A i \in Slot : tree[i].balance <= Total(tree)
<1> DEFINE f == [i \in Slot |-> tree[i].balance]
<1>1. f \in [Slot -> Nat]
  BY AccountsAssumption DEF Tree, Account
<1> HIDE DEF f
<1>2. SumOf(f) \in Nat
  BY <1>1, SlotFinite, SumType
<1>3. ASSUME NEW i \in Slot PROVE f[i] <= SumOf(f)
  BY <1>1, SlotFinite, SumUpdate, 0 \in Nat
<1> QED
  BY <1>2, <1>3 DEF Total, f

(* One account replaced by another.                                        *)
LEMMA TotalSet ==
  ASSUME NEW tree \in Tree, NEW i \in Slot, NEW a \in Account
  PROVE  /\ [tree EXCEPT ![i] = a] \in Tree
         /\ Total([tree EXCEPT ![i] = a]) = Total(tree) - tree[i].balance + a.balance
<1> DEFINE f == [s \in Slot |-> tree[s].balance]
           after == [tree EXCEPT ![i] = a]
<1>1. f \in [Slot -> Nat] /\ a.balance \in Nat
  BY AccountsAssumption DEF Tree, Account
<1>2. after \in Tree
  BY DEF Tree
<1>3. [s \in Slot |-> after[s].balance] = [f EXCEPT ![i] = a.balance]
  BY DEF Tree
<1>4. f[i] = tree[i].balance
  OBVIOUS
<1>5. Total(after) = SumOf([f EXCEPT ![i] = a.balance]) /\ Total(tree) = SumOf(f)
  BY <1>3 DEF Total
<1> HIDE DEF f
<1>6. SumOf([f EXCEPT ![i] = a.balance]) = SumOf(f) - f[i] + a.balance
  BY <1>1, SlotFinite, SumUpdate
<1> QED
  BY <1>2, <1>4, <1>5, <1>6

(* An empty tree holds nothing.                                            *)
LEMMA EmptyTreeFacts == EmptyTree \in Tree /\ Total(EmptyTree) = 0
<1>1. EmptyTree \in Tree
  BY AccountsAssumption DEF EmptyTree, Empty, Tree, Account
<1>2. [i \in Slot |-> EmptyTree[i].balance] \in [Slot -> Nat]
  BY DEF EmptyTree, Empty
<1>3. \A i \in Slot : [s \in Slot |-> EmptyTree[s].balance][i] = 0
  BY DEF EmptyTree, Empty
<1> QED
  BY <1>1, <1>2, <1>3, SumOfZeros DEF Total


-----------------------------------------------------------------------------
(* Looking up accounts.                                                    *)

LEMMA LowestOne ==
  ASSUME NEW S \in SUBSET Nat
  PROVE  /\ Lowest(S) = {} <=> S = {}
         /\ \A i \in Lowest(S) : i \in S /\ Lowest(S) = {i}
<1>1. S # {} => Lowest(S) # {}
  BY LeastExists DEF Lowest
<1>2. ASSUME NEW i \in Lowest(S), NEW j \in Lowest(S) PROVE i = j
  BY DEF Lowest
<1> QED
  BY <1>1, <1>2 DEF Lowest

(* Tree::find returns a slot of the key, if there is one.                  *)
LEMMA FindOne ==
  ASSUME NEW tree, NEW k
  PROVE  /\ Holds(tree, k) <=> \E i \in Slot : tree[i].pk = k
         /\ \A i \in Find(tree, k) :
              /\ i \in Slot /\ tree[i].pk = k /\ Find(tree, k) = {i}
              /\ AccountOf(tree, k) = tree[i]
<1> DEFINE S == {i \in Slot : tree[i].pk = k}
<1>1. S \in SUBSET Nat
  BY AccountsAssumption DEF Slot
<1>2. Find(tree, k) = Lowest(S)
  BY DEF Find
<1>3. /\ Lowest(S) = {} <=> S = {}
      /\ \A i \in Lowest(S) : i \in S /\ Lowest(S) = {i}
  <2> HIDE DEF S
  <2> QED
    BY <1>1, LowestOne
<1>4. ASSUME NEW i \in Find(tree, k) PROVE AccountOf(tree, k) = tree[i]
  <2>1. Find(tree, k) = {i}
    BY <1>2, <1>3
  <2> QED
    BY <2>1 DEF AccountOf
<1> QED
  BY <1>2, <1>3, <1>4 DEF Holds

LEMMA FreeOne ==
  ASSUME NEW tree, NEW i \in FreeIndex(tree)
  PROVE  i \in Slot /\ tree[i].pk = NoKey /\ FreeIndex(tree) = {i}
<1> DEFINE S == {s \in Slot : tree[s].pk = NoKey}
<1>1. S \in SUBSET Nat
  BY AccountsAssumption DEF Slot
<1>2. FreeIndex(tree) = Lowest(S)
  BY DEF FreeIndex
<1>3. i \in S /\ Lowest(S) = {i}
  <2> HIDE DEF S
  <2> QED
    BY <1>1, <1>2, LowestOne
<1> QED
  BY <1>2, <1>3

(* The account of a key in a tree where every key has one slot.            *)
LEMMA SlotOfKey ==
  ASSUME NEW T, OneSlotEach(T), NEW i \in Slot, T[i].pk # NoKey
  PROVE  Holds(T, T[i].pk) /\ Find(T, T[i].pk) = {i} /\ AccountOf(T, T[i].pk) = T[i]
<1> DEFINE k == T[i].pk
<1>1. Holds(T, k)
  BY FindOne
<1>2. PICK j \in Find(T, k) : TRUE
  BY <1>1 DEF Holds
<1>3. j \in Slot /\ T[j].pk = k /\ Find(T, k) = {j} /\ AccountOf(T, k) = T[j]
  <2> HIDE DEF k
  <2> QED
    BY FindOne
<1>4. j = i
  BY <1>3 DEF OneSlotEach
<1> QED
  BY <1>1, <1>3, <1>4

-----------------------------------------------------------------------------
(* What build_batch does with one input.                                   *)

(* An account with another balance, and one that has paid.                 *)
Raised(tree, i, amount) ==
  [tree EXCEPT ![i] = [pk |-> tree[i].pk, balance |-> tree[i].balance + amount,
                       nonce |-> tree[i].nonce]]
Charged(tree, i, amount) ==
  [tree EXCEPT ![i] = [pk |-> tree[i].pk, balance |-> tree[i].balance - amount,
                       nonce |-> tree[i].nonce + 1]]
Opened(tree, i, d) ==
  [tree EXCEPT ![i] = [pk |-> d.to, balance |-> d.amount, nonce |-> 0]]

LEMMA AccountUpdate ==
  ASSUME NEW a \in Account, NEW b
  PROVE  [a EXCEPT !.balance = b] = [pk |-> a.pk, balance |-> b, nonce |-> a.nonce]
BY DEF Account

LEMMA CreditOutcome ==
  ASSUME NEW tree \in Tree, NEW i \in Slot, NEW k, Find(tree, k) = {i}, NEW amount \in Nat
  PROVE  Credit(tree, k, amount) =
           IF tree[i].balance + amount > MaxBalance
           THEN Refused(tree, "BalanceOverflow") ELSE Ok(Raised(tree, i, amount))
<1>1. (CHOOSE x \in Find(tree, k) : TRUE) = i
  OBVIOUS
<1>2. [tree EXCEPT ![i].balance = @ + amount] = Raised(tree, i, amount)
  <2>1. tree[i] \in Account
    BY DEF Tree
  <2>2. [tree[i] EXCEPT !.balance = @ + amount]
          = [pk |-> tree[i].pk, balance |-> tree[i].balance + amount, nonce |-> tree[i].nonce]
    BY <2>1 DEF Account
  <2> QED
    BY <2>2 DEF Raised, Tree
<1> QED
  BY <1>1, <1>2 DEF Credit

LEMMA DepositOutcome ==
  ASSUME NEW tree \in Tree, NEW d, d.amount \in Nat,
         NEW out, out = ApplyDeposit(tree, d)
  PROVE  \/ /\ out.error = "none"
            /\ \E i \in Slot : /\ tree[i].pk = d.to
                               /\ tree[i].balance + d.amount <= MaxBalance
                               /\ out.tree = Raised(tree, i, d.amount)
         \/ /\ out.error = "none" /\ ~Holds(tree, d.to)
            /\ \E i \in Slot : /\ tree[i].pk = NoKey
                               /\ out.tree = Opened(tree, i, d)
         \/ /\ out.error = "BalanceOverflow"
            /\ \E i \in Slot : /\ tree[i].pk = d.to
                               /\ tree[i].balance + d.amount > MaxBalance
         \/ out.error = "TreeFull"
<1>1. CASE Holds(tree, d.to)
  <2>1. PICK i \in Find(tree, d.to) : TRUE
    BY <1>1 DEF Holds
  <2>2. i \in Slot /\ tree[i].pk = d.to /\ Find(tree, d.to) = {i}
    BY FindOne
  <2>3. out = IF tree[i].balance + d.amount > MaxBalance
              THEN Refused(tree, "BalanceOverflow") ELSE Ok(Raised(tree, i, d.amount))
    BY <1>1, <2>2, CreditOutcome DEF ApplyDeposit
  <2>4. tree[i].balance \in Nat /\ MaxBalance \in Nat
    BY <2>2, AccountsAssumption DEF Tree, Account
  <2>5. CASE tree[i].balance + d.amount > MaxBalance
    <3>1. out.error = "BalanceOverflow"
      BY <2>3, <2>5 DEF Refused
    <3> QED
      BY <2>2, <2>5, <3>1
  <2>6. CASE tree[i].balance + d.amount <= MaxBalance
    <3>1. out.error = "none" /\ out.tree = Raised(tree, i, d.amount)
      BY <2>3, <2>4, <2>6 DEF Ok
    <3> QED
      BY <2>2, <2>6, <3>1
  <2> QED
    BY <2>4, <2>5, <2>6
<1>2. CASE ~Holds(tree, d.to) /\ FreeIndex(tree) = {}
  BY <1>2 DEF ApplyDeposit, Refused
<1>3. CASE ~Holds(tree, d.to) /\ FreeIndex(tree) # {}
  <2>1. PICK i \in FreeIndex(tree) : TRUE
    BY <1>3
  <2>2. i \in Slot /\ tree[i].pk = NoKey /\ FreeIndex(tree) = {i}
    BY FreeOne
  <2>3. out = Ok([s \in Slot |-> IF s \in {i}
                                 THEN [pk |-> d.to, balance |-> d.amount, nonce |-> 0]
                                 ELSE tree[s]])
    BY <1>3, <2>2 DEF ApplyDeposit
  <2>4. out.tree = [s \in Slot |-> IF s \in {i}
                                   THEN [pk |-> d.to, balance |-> d.amount, nonce |-> 0]
                                   ELSE tree[s]]
        /\ out.error = "none"
    BY <2>3 DEF Ok
  <2>5. out.tree = Opened(tree, i, d)
    BY <2>4 DEF Opened, Tree
  <2> QED
    BY <1>3, <2>2, <2>4, <2>5
<1> QED
  BY <1>1, <1>2, <1>3

(* A transaction: an error says which check failed; without one, the       *)
(* sender's account paid and, unless it is a withdrawal, the recipient's   *)
(* account received, after that.                                           *)
LEMMA TxOutcome ==
  ASSUME NEW tree \in Tree, NEW t, t.amount \in Nat, t.withdraw \in BOOLEAN,
         NEW out, out = ApplyTx(tree, t)
  PROVE  \/ out.error = "SenderNotFound" /\ (~Holds(tree, t.from) \/ ~Unique(tree, t.from))
         \/ \E i \in Slot :
              /\ Find(tree, t.from) = {i} /\ tree[i].pk = t.from
              /\ \/ out.error = "NonceMismatch" /\ tree[i].nonce # t.nonce
                 \/ out.error = "InsufficientBalance" /\ tree[i].balance < t.amount
                 \/ /\ out.error = "RecipientNotFound"
                    /\ ~t.withdraw /\ ~Holds(tree, t.to)
                    /\ tree[i].nonce = t.nonce /\ tree[i].balance >= t.amount
                 \/ /\ out.error = "none" /\ t.withdraw
                    /\ tree[i].nonce = t.nonce /\ tree[i].balance >= t.amount
                    /\ out.tree = Charged(tree, i, t.amount)
                 \/ /\ ~t.withdraw
                    /\ tree[i].nonce = t.nonce /\ tree[i].balance >= t.amount
                    /\ \E j \in Slot :
                         LET after == Charged(tree, i, t.amount) IN
                         /\ tree[j].pk = t.to
                         /\ \/ /\ out.error = "none"
                               /\ after[j].balance + t.amount <= MaxBalance
                               /\ out.tree = Raised(after, j, t.amount)
                            \/ /\ out.error = "BalanceOverflow"
                               /\ after[j].balance + t.amount > MaxBalance
<1>1. CASE ~Holds(tree, t.from)
  BY <1>1 DEF ApplyTx, Refused
<1>2. CASE Holds(tree, t.from)
  <2>1. PICK i \in Find(tree, t.from) : TRUE
    BY <1>2 DEF Holds
  <2>2. /\ i \in Slot /\ tree[i].pk = t.from /\ Find(tree, t.from) = {i}
        /\ AccountOf(tree, t.from) = tree[i]
    BY FindOne
  <2>3. tree[i].nonce \in Nat /\ tree[i].balance \in Nat /\ MaxBalance \in Nat
    BY <2>2, AccountsAssumption DEF Tree, Account
  <2>4. CASE tree[i].nonce # t.nonce
    <3>1. out.error = "NonceMismatch"
      BY <1>2, <2>2, <2>4 DEF ApplyTx, Refused
    <3> QED
      BY <2>2, <2>4, <3>1
  <2>5. CASE tree[i].nonce = t.nonce /\ tree[i].balance < t.amount
    <3>1. out.error = "InsufficientBalance"
      BY <1>2, <2>2, <2>5 DEF ApplyTx, Refused
    <3> QED
      BY <2>2, <2>5, <3>1
  <2>6. CASE tree[i].nonce = t.nonce /\ ~(tree[i].balance < t.amount) /\ ~Unique(tree, t.from)
    <3>1. out.error = "SenderNotFound"
      BY <1>2, <2>2, <2>6 DEF ApplyTx, Refused
    <3> QED
      BY <2>6, <3>1
  <2>7. CASE tree[i].nonce = t.nonce /\ ~(tree[i].balance < t.amount) /\ Unique(tree, t.from)
    <3>1. out = Transfer(tree, t)
      BY <1>2, <2>2, <2>7 DEF ApplyTx
    <3>2. tree[i].nonce = t.nonce /\ tree[i].balance >= t.amount
      BY <2>3, <2>7
    <3> DEFINE after == Charged(tree, i, t.amount)
    <3>3. Debit(tree, t) = after
      <4>1. tree[i] \in Account
        BY <2>2 DEF Tree
      <4>2. [tree[i] EXCEPT !.balance = @ - t.amount, !.nonce = @ + 1]
              = [pk |-> tree[i].pk, balance |-> tree[i].balance - t.amount,
                 nonce |-> tree[i].nonce + 1]
        <5> DEFINE acc == tree[i]
                   b == tree[i].balance - t.amount
                   n == tree[i].nonce + 1
                   c == [pk |-> acc.pk, balance |-> b, nonce |-> acc.nonce]
        <5>1. [acc EXCEPT !.balance = b] = c
          BY <4>1, AccountUpdate
        <5>2. [acc EXCEPT !.balance = b, !.nonce = n] = [c EXCEPT !.nonce = n]
          BY <5>1, Zenon
        <5>3. [c EXCEPT !.nonce = n] = [pk |-> tree[i].pk, balance |-> b, nonce |-> n]
          OBVIOUS
        <5> QED
          BY <5>2, <5>3
      <4> QED
        BY <2>2, <4>2 DEF Debit, Charged, Tree
    <3>4. after \in Tree /\ \A j \in Slot : after[j].pk = tree[j].pk
      BY <2>2, <2>3, <3>2 DEF Charged, Tree, Account
    <3>5. Find(after, t.to) = Find(tree, t.to)
      BY <3>4 DEF Find
    <3> HIDE DEF after
    <3>6. CASE t.withdraw
      <4>1. out.error = "none" /\ out.tree = after
        BY <3>1, <3>3, <3>6 DEF Transfer, Ok
      <4> QED
        BY <2>2, <3>2, <3>6, <4>1 DEF after
    <3>7. CASE ~t.withdraw /\ ~Holds(tree, t.to)
      <4>1. out.error = "RecipientNotFound"
        BY <3>1, <3>3, <3>5, <3>7 DEF Transfer, Refused, Holds
      <4> QED
        BY <2>2, <3>2, <3>7, <4>1
    <3>8. CASE ~t.withdraw /\ Holds(tree, t.to)
      <4>1. PICK j \in Find(tree, t.to) : TRUE
        BY <3>8 DEF Holds
      <4>2. j \in Slot /\ tree[j].pk = t.to /\ Find(after, t.to) = {j}
        BY <3>5, FindOne
      <4>3. out = IF after[j].balance + t.amount > MaxBalance
                  THEN Refused(after, "BalanceOverflow") ELSE Ok(Raised(after, j, t.amount))
        BY <3>1, <3>3, <3>4, <3>8, <4>2, CreditOutcome DEF Transfer, Holds
      <4>4. after[j].balance \in Nat
        BY <3>4, <4>2, AccountsAssumption DEF Tree, Account
      <4>5. \/ out.error = "none" /\ after[j].balance + t.amount <= MaxBalance
               /\ out.tree = Raised(after, j, t.amount)
            \/ out.error = "BalanceOverflow" /\ after[j].balance + t.amount > MaxBalance
        BY <2>3, <4>3, <4>4 DEF Ok, Refused
      <4> QED
        BY <2>2, <3>2, <3>8, <4>2, <4>5 DEF after
    <3> QED
      BY <3>6, <3>7, <3>8
  <2> QED
    BY <2>4, <2>5, <2>6, <2>7
<1> QED
  BY <1>1, <1>2

-----------------------------------------------------------------------------
(* build_batch, input by input.                                            *)

(* Its progress is well defined ...                                        *)
LEMMA RunUnfold ==
  ASSUME NEW tree, NEW deps, NEW txs, Len(deps) + Len(txs) \in Nat
  PROVE  /\ Run(tree, deps, txs)[0] = Progress(tree, "none", 0)
         /\ \A n \in 1 .. Len(deps) + Len(txs) :
              Run(tree, deps, txs)[n]
                = Step(Run(tree, deps, txs)[n - 1],
                       ApplyInput(Run(tree, deps, txs)[n - 1].tree, deps, txs, n))
<1> DEFINE N == Len(deps) + Len(txs)
           G(m, r) == Step(r, ApplyInput(r.tree, deps, txs, m))
           start == Progress(tree, "none", 0)
           Runs(n, f) == f = [m \in 0 .. n |-> IF m = 0 THEN start ELSE G(m, f[m - 1])]
           T == {n \in Nat : \E f : Runs(n, f)}
<1>1. 0 \in T
  <2> DEFINE f == [m \in 0 .. 0 |-> start]
  <2>1. f = [m \in 0 .. 0 |-> IF m = 0 THEN start ELSE G(m, f[m - 1])]
    OBVIOUS
  <2>2. Runs(0, f)
    BY <2>1
  <2> QED
    BY <2>2
<1>2. ASSUME NEW n \in Nat, n \in T PROVE n + 1 \in T
  <2>1. PICK f : Runs(n, f)
    BY <1>2
  <2> HIDE DEF G, start
  <2> DEFINE g == [m \in 0 .. n + 1 |-> IF m <= n THEN f[m] ELSE G(n + 1, f[n])]
  <2>2. ASSUME NEW m \in 0 .. n + 1
        PROVE  g[m] = IF m = 0 THEN start ELSE G(m, g[m - 1])
    <3>1. CASE m = 0
      BY <2>1, <3>1
    <3>2. CASE m # 0 /\ m <= n
      <4>1. g[m] = f[m] /\ g[m - 1] = f[m - 1] /\ m \in 0 .. n
        BY <3>2
      <4>2. f[m] = G(m, f[m - 1])
        BY <2>1, <3>2, <4>1
      <4> QED
        BY <3>2, <4>1, <4>2
    <3>3. CASE m = n + 1
      <4>1. g[m] = G(n + 1, f[n]) /\ g[m - 1] = f[n] /\ m # 0
        BY <3>3
      <4> QED
        BY <3>3, <4>1
    <3> QED
      BY <3>1, <3>2, <3>3
  <2>3. g = [m \in 0 .. n + 1 |-> g[m]]
    OBVIOUS
  <2> HIDE DEF g
  <2>4. g = [m \in 0 .. n + 1 |-> IF m = 0 THEN start ELSE G(m, g[m - 1])]
    BY <2>2, <2>3, Zenon
  <2> QED
    BY <2>4
<1>3. \E f : Runs(N, f)
  <2>1. N \in T
    <3> HIDE DEF T
    <3> QED
      BY <1>1, <1>2, SetInduction
  <2> QED
    BY <2>1
<1>4. Run(tree, deps, txs) = CHOOSE f : Runs(N, f)
  BY DEF Run
<1>5. Runs(N, Run(tree, deps, txs))
  <2> HIDE DEF Runs
  <2> QED
    BY <1>3, <1>4
<1> HIDE DEF G, start
<1>6. ASSUME NEW n \in 0 .. N
      PROVE  Run(tree, deps, txs)[n]
               = IF n = 0 THEN start ELSE G(n, Run(tree, deps, txs)[n - 1])
  BY <1>5
<1>7. 0 \in 0 .. N /\ \A n \in 1 .. N : n \in 0 .. N /\ n # 0
  OBVIOUS
<1> QED
  BY <1>6, <1>7 DEF G, start

(* ... and it has applied every input, or stopped at the first one that is *)
(* refused.                                                                *)
LEMMA RunStops ==
  ASSUME NEW tree, NEW deps, NEW txs, Len(deps) + Len(txs) \in Nat,
         NEW run, run = Run(tree, deps, txs)
  PROVE  \A n \in 0 .. Len(deps) + Len(txs) :
           \/ run[n].error = "none" /\ run[n].applied = n
           \/ \E m \in 1 .. n :
                /\ run[m - 1].error = "none" /\ run[m - 1].applied = m - 1
                /\ run[n].error = ApplyInput(run[m - 1].tree, deps, txs, m).error
                /\ run[n].error # "none" /\ run[n].applied = m - 1
<1> DEFINE N == Len(deps) + Len(txs)
           out(m) == ApplyInput(run[m - 1].tree, deps, txs, m)
           Going(n) == run[n].error = "none" /\ run[n].applied = n
           Stopped(n, m) == /\ Going(m - 1)
                            /\ run[n].error = out(m).error
                            /\ run[n].error # "none" /\ run[n].applied = m - 1
           T == {n \in Nat : n <= N => Going(n) \/ \E m \in 1 .. n : Stopped(n, m)}
<1>1. run[0] = Progress(tree, "none", 0)
  BY RunUnfold
<1>2. \A n \in 1 .. N : run[n] = Step(run[n - 1], out(n))
  BY RunUnfold
<1>3. 0 \in T
  BY <1>1 DEF Progress
<1>4. ASSUME NEW n \in Nat, n \in T PROVE n + 1 \in T
  <2> SUFFICES ASSUME n + 1 <= N
               PROVE  Going(n + 1) \/ \E m \in 1 .. n + 1 : Stopped(n + 1, m)
    OBVIOUS
  <2>1. run[n + 1] = Step(run[n], out(n + 1)) /\ n + 1 \in 1 .. N /\ (n + 1) - 1 = n
    <3>1. n + 1 \in 1 .. N /\ (n + 1) - 1 = n
      OBVIOUS
    <3> HIDE DEF out
    <3> QED
      BY <1>2, <3>1
  <2> HIDE DEF out
  <2>2. CASE Going(n) /\ out(n + 1).error = "none"
    <3>1. run[n + 1] = Progress(out(n + 1).tree, "none", run[n].applied + 1)
      BY <2>1, <2>2 DEF Step
    <3> QED
      BY <2>2, <3>1 DEF Progress
  <2>3. CASE Going(n) /\ out(n + 1).error # "none"
    <3>1. run[n + 1] = Progress(run[n].tree, out(n + 1).error, run[n].applied)
      BY <2>1, <2>3 DEF Step
    <3>2. Stopped(n + 1, n + 1)
      BY <2>1, <2>3, <3>1 DEF Progress
    <3> QED
      BY <2>1, <3>2
  <2>4. ASSUME NEW m \in 1 .. n, Stopped(n, m) PROVE m \in 1 .. n + 1 /\ Stopped(n + 1, m)
    <3>1. run[n + 1] = run[n]
      BY <2>1, <2>4 DEF Step
    <3> QED
      BY <2>4, <3>1
  <2> HIDE DEF Stopped, Going
  <2>5. Going(n) \/ \E m \in 1 .. n : Stopped(n, m)
    BY <1>4
  <2> QED
    BY <2>2, <2>3, <2>4, <2>5
<1>5. \A n \in Nat : n \in T
  <2> HIDE DEF T
  <2> QED
    BY <1>3, <1>4, SetInduction
<1> QED
  BY <1>5


(* It depends on the inputs that it has come to only.                      *)
LEMMA RunAgrees ==
  ASSUME NEW tree, NEW deps, NEW txs, NEW deps2, NEW txs2,
         NEW N, N = Len(deps) + Len(txs), N \in Nat,
         Len(deps2) + Len(txs2) \in Nat, N <= Len(deps2) + Len(txs2),
         \A n \in 1 .. N : \A U : ApplyInput(U, deps2, txs2, n) = ApplyInput(U, deps, txs, n)
  PROVE  \A n \in 0 .. N : Run(tree, deps2, txs2)[n] = Run(tree, deps, txs)[n]
<1> DEFINE run == Run(tree, deps, txs)
           run2 == Run(tree, deps2, txs2)
           T == {n \in Nat : n <= N => run2[n] = run[n]}
<1>1. /\ run[0] = Progress(tree, "none", 0)
      /\ \A n \in 1 .. N : run[n] = Step(run[n - 1], ApplyInput(run[n - 1].tree, deps, txs, n))
  BY RunUnfold
<1>2. /\ run2[0] = Progress(tree, "none", 0)
      /\ \A n \in 1 .. Len(deps2) + Len(txs2) :
           run2[n] = Step(run2[n - 1], ApplyInput(run2[n - 1].tree, deps2, txs2, n))
  BY RunUnfold
<1> HIDE DEF run, run2
<1>3. 0 \in T
  BY <1>1, <1>2
<1>4. ASSUME NEW n \in Nat, n \in T PROVE n + 1 \in T
  <2> SUFFICES ASSUME n + 1 <= N PROVE run2[n + 1] = run[n + 1]
    OBVIOUS
  <2>1. n + 1 \in 1 .. N /\ n + 1 \in 1 .. Len(deps2) + Len(txs2) /\ (n + 1) - 1 = n
    OBVIOUS
  <2>2. run2[n] = run[n]
    BY <1>4
  <2>3. run2[n + 1] = Step(run2[n], ApplyInput(run2[n].tree, deps2, txs2, n + 1))
    BY <1>2, <2>1
  <2>4. run[n + 1] = Step(run[n], ApplyInput(run[n].tree, deps, txs, n + 1))
    BY <1>1, <2>1
  <2> QED
    BY <2>1, <2>2, <2>3, <2>4
<1>5. \A n \in Nat : n \in T
  <2> HIDE DEF T
  <2> QED
    BY <1>3, <1>4, SetInduction
<1> QED
  BY <1>5 DEF run, run2

(* So a batch with one more entry is built from the batch without it.      *)
LEMMA BuildNothing ==
  ASSUME NEW tree
  PROVE  BuildBatch(tree, <<>>, <<>>) = Progress(tree, "none", 0)
<1>1. Len(<<>>) + Len(<<>>) = 0
  OBVIOUS
<1> QED
  BY <1>1, RunUnfold DEF BuildBatch

LEMMA BuildDeposit ==
  ASSUME NEW tree, NEW E, NEW deps \in Seq(E), NEW d \in E,
         NEW done, done = BuildBatch(tree, deps, <<>>)
  PROVE  BuildBatch(tree, Append(deps, d), <<>>) = Step(done, ApplyDeposit(done.tree, d))
<1> DEFINE N == Len(deps)
           more == Append(deps, d)
           none == <<>>
<1>1. /\ N \in Nat /\ Len(none) = 0 /\ Len(more) = N + 1 /\ N = Len(deps) + Len(none)
      /\ more[N + 1] = d /\ \A n \in 1 .. N : more[n] = deps[n]
  OBVIOUS
<1> HIDE DEF N, more, none
<1>2. \A n \in 1 .. N : \A U : ApplyInput(U, more, none, n) = ApplyInput(U, deps, none, n)
  BY <1>1 DEF ApplyInput, N
<1>3. /\ Len(more) + Len(none) = N + 1 /\ N + 1 \in Nat /\ N <= N + 1 /\ N \in 0 .. N
      /\ N + 1 \in 1 .. N + 1 /\ (N + 1) - 1 = N
  BY <1>1
<1>4. Run(tree, more, none)[N] = Run(tree, deps, none)[N]
  BY <1>1, <1>2, <1>3, RunAgrees
<1>5. done = Run(tree, deps, none)[N]
  BY <1>1 DEF BuildBatch, none
<1>6. Run(tree, more, none)[N + 1]
        = Step(Run(tree, more, none)[N], ApplyInput(Run(tree, more, none)[N].tree, more, none, N + 1))
  <2>1. \A n \in 1 .. N + 1 :
          Run(tree, more, none)[n]
            = Step(Run(tree, more, none)[n - 1],
                   ApplyInput(Run(tree, more, none)[n - 1].tree, more, none, n))
    BY <1>3, RunUnfold
  <2> QED
    BY <1>3, <2>1
<1>7. ApplyInput(done.tree, more, none, N + 1) = ApplyDeposit(done.tree, d)
  BY <1>1, <1>3 DEF ApplyInput
<1>8. BuildBatch(tree, more, none) = Run(tree, more, none)[N + 1]
  BY <1>3 DEF BuildBatch
<1> QED
  BY <1>4, <1>5, <1>6, <1>7, <1>8 DEF more, none

LEMMA BuildTx ==
  ASSUME NEW tree, NEW deps, Len(deps) \in Nat, NEW E, NEW txs \in Seq(E), NEW t \in E,
         NEW done, done = BuildBatch(tree, deps, txs)
  PROVE  BuildBatch(tree, deps, Append(txs, t)) = Step(done, ApplyTx(done.tree, t))
<1> DEFINE D == Len(deps)
           K == Len(txs)
           N == D + K
           more == Append(txs, t)
<1>1. /\ D \in Nat /\ K \in Nat /\ Len(more) = K + 1
      /\ more[K + 1] = t /\ \A n \in 1 .. K : more[n] = txs[n]
  OBVIOUS
<1> HIDE DEF more
<1>2. \A n \in 1 .. N : \A U : ApplyInput(U, deps, more, n) = ApplyInput(U, deps, txs, n)
  <2> SUFFICES ASSUME NEW n \in 1 .. N, NEW U
               PROVE  ApplyInput(U, deps, more, n) = ApplyInput(U, deps, txs, n)
    OBVIOUS
  <2>1. n > D => n - D \in 1 .. K
    BY <1>1
  <2> QED
    BY <1>1, <2>1 DEF ApplyInput
<1>3. /\ Len(deps) + Len(more) = N + 1 /\ N + 1 \in Nat /\ N <= N + 1 /\ N \in 0 .. N /\ N \in Nat
      /\ N + 1 \in 1 .. N + 1 /\ (N + 1) - 1 = N /\ (N + 1) - D = K + 1 /\ ~ (N + 1 <= D)
      /\ N = Len(deps) + Len(txs)
  BY <1>1
<1>4. ApplyInput(done.tree, deps, more, N + 1) = ApplyTx(done.tree, t)
  BY <1>1, <1>3 DEF ApplyInput
<1> HIDE DEF D, K, N
<1>5. Run(tree, deps, more)[N] = Run(tree, deps, txs)[N]
  BY <1>2, <1>3, RunAgrees
<1>6. done = Run(tree, deps, txs)[N]
  BY <1>3 DEF BuildBatch
<1>7. Run(tree, deps, more)[N + 1]
        = Step(Run(tree, deps, more)[N], ApplyInput(Run(tree, deps, more)[N].tree, deps, more, N + 1))
  <2>1. \A n \in 1 .. N + 1 :
          Run(tree, deps, more)[n]
            = Step(Run(tree, deps, more)[n - 1],
                   ApplyInput(Run(tree, deps, more)[n - 1].tree, deps, more, n))
    BY <1>3, RunUnfold
  <2> QED
    BY <1>3, <2>1
<1>8. BuildBatch(tree, deps, more) = Run(tree, deps, more)[N + 1]
  BY <1>3 DEF BuildBatch
<1> QED
  BY <1>4, <1>5, <1>6, <1>7, <1>8 DEF more
=============================================================================

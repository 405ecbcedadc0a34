---------------------------- MODULE ClientProofs ----------------------------
(***************************************************************************)
(* What wallets read and what their payments can count on, for every value *)
(* of the constants: the steps of Client are steps of Mempool, and the     *)
(* invariant of ClientInv is inductive.                                    *)
(***************************************************************************)
EXTENDS ClientInv, MempoolProofs, SequenceTheorems

-----------------------------------------------------------------------------
(* Lists of lists.                                                         *)

(* FlattenSeq puts one list after the other.                               *)
Flattening(f, s, N) ==
  /\ FlattenSeq(s) = f[N] /\ f[1] = s[1]
  /\ \A n \in 2 .. N : f[n] = f[n - 1] \o s[n]

LEMMA FlattenUnfold ==
  ASSUME NEW N \in Nat \ {0}, NEW s, Len(s) = N
  PROVE  \E f : Flattening(f, s, N)
<1> DEFINE G(m, r) == r \o s[m]
           Flattens(n, f) == f = [m \in 1 .. n |-> IF m = 1 THEN s[m] ELSE G(m, f[m - 1])]
           T == {n \in Nat : \E f : Flattens(n, f)}
<1>1. 0 \in T
  <2> DEFINE f == [m \in 1 .. 0 |-> m]
  <2>1. Flattens(0, f)
    OBVIOUS
  <2> QED
    BY <2>1
<1>2. ASSUME NEW n \in Nat, n \in T PROVE n + 1 \in T
  <2>1. PICK f : Flattens(n, f)
    BY <1>2
  <2> HIDE DEF G
  <2> DEFINE g == [m \in 1 .. n + 1 |-> IF m <= n THEN f[m]
                                        ELSE IF m = 1 THEN s[m] ELSE G(m, f[n])]
  <2>2. ASSUME NEW m \in 1 .. n + 1
        PROVE  g[m] = IF m = 1 THEN s[m] ELSE G(m, g[m - 1])
    <3>1. CASE m <= n
      <4>1. g[m] = f[m] /\ m \in 1 .. n
        BY <3>1
      <4>2. f[m] = IF m = 1 THEN s[m] ELSE G(m, f[m - 1])
        BY <2>1, <4>1
      <4>3. m # 1 => g[m - 1] = f[m - 1]
        BY <3>1
      <4> QED
        BY <4>1, <4>2, <4>3
    <3>2. CASE m = n + 1
      <4>1. g[m] = IF m = 1 THEN s[m] ELSE G(m, f[n])
        BY <3>2
      <4>2. m # 1 => g[m - 1] = f[n]
        BY <3>2
      <4> QED
        BY <4>1, <4>2
    <3> QED
      BY <3>1, <3>2
  <2>3. g = [m \in 1 .. n + 1 |-> g[m]]
    OBVIOUS
  <2> HIDE DEF g
  <2>4. Flattens(n + 1, g)
    BY <2>2, <2>3, Zenon
  <2> QED
    BY <2>4
<1>3. \E f : Flattens(N, f)
  <2>1. N \in T
    <3> HIDE DEF T
    <3> QED
      BY <1>1, <1>2, SetInduction
  <2> QED
    BY <2>1
<1> DEFINE flat == CHOOSE f : Flattens(N, f)
<1>4. FlattenSeq(s) = flat[N]
  BY DEF FlattenSeq
<1>5. Flattens(N, flat)
  <2> HIDE DEF Flattens
  <2> QED
    BY <1>3
<1> HIDE DEF flat, G
<1>6. ASSUME NEW n \in 1 .. N
      PROVE  flat[n] = IF n = 1 THEN s[n] ELSE G(n, flat[n - 1])
  BY <1>5
<1>7. 1 \in 1 .. N /\ \A n \in 2 .. N : n \in 1 .. N /\ n # 1
  OBVIOUS
<1>8. flat[1] = s[1] /\ \A n \in 2 .. N : flat[n] = flat[n - 1] \o s[n]
  BY <1>6, <1>7 DEF G
<1> QED
  BY <1>4, <1>8 DEF Flattening

(* What has been written after each of them.                               *)
Written(p, N, start, s, S) ==
  /\ p[0] = start /\ p[N] = start \o FlattenSeq(s)
  /\ \A n \in 1 .. N : p[n] = p[n - 1] \o s[n]
  /\ \A n \in 0 .. N : p[n] \in Seq(S)

LEMMA FlattenSteps ==
  ASSUME NEW N \in Nat, NEW S, NEW s \in [1 .. N -> Seq(S)], NEW start \in Seq(S)
  PROVE  \E p : Written(p, N, start, s, S)
<1>0. Len(s) = N /\ \A n \in 1 .. N : s[n] \in Seq(S)
  <2>1. s \in Seq(Seq(S))
    BY SeqDef
  <2>2. Len(s) \in Nat /\ DOMAIN s = 1 .. Len(s) /\ DOMAIN s = 1 .. N
    BY <2>1, LenProperties
  <2>3. Len(s) = N
    BY <2>2
  <2> QED
    BY <2>3
<1>1. CASE N = 0
  <2> DEFINE p == [n \in {0} |-> start]
  <2>1. FlattenSeq(s) = s /\ s = <<>>
    BY <1>0, <1>1 DEF FlattenSeq
  <2>2. start \o <<>> = start
    BY ConcatEmptySeq
  <2>3. p[0] = start /\ p[N] = start \o FlattenSeq(s)
    BY <1>1, <2>1, <2>2
  <2>4. 1 .. N = {} /\ 0 .. N = {0}
    BY <1>1
  <2> HIDE DEF p
  <2>5. Written(p, N, start, s, S)
    BY <2>3, <2>4 DEF Written
  <2> QED
    BY <2>5
<1>2. CASE N # 0
  <2>1. PICK f : /\ FlattenSeq(s) = f[N] /\ f[1] = s[1]
                 /\ \A n \in 2 .. N : f[n] = f[n - 1] \o s[n]
    <3>1. N \in Nat \ {0}
      BY <1>2
    <3>2. Len(s) = N
      BY <1>0
    <3>3. PICK f : Flattening(f, s, N)
      BY <3>1, <3>2, FlattenUnfold
    <3> QED
      BY <3>3 DEF Flattening
  <2> DEFINE I == {n \in Nat : n + 1 <= N => f[n + 1] \in Seq(S)}
  <2>2. 0 \in I
    <3>1. s[1] \in Seq(S)
      BY <1>0, <1>2
    <3> QED
      BY <2>1, <3>1
  <2>3. ASSUME NEW n \in Nat, n \in I PROVE n + 1 \in I
    <3> SUFFICES ASSUME n + 1 + 1 <= N PROVE f[n + 1 + 1] \in Seq(S)
      OBVIOUS
    <3> DEFINE m == n + 1 + 1
    <3>1. m \in 2 .. N /\ m - 1 = n + 1 /\ n + 1 <= N /\ m \in 1 .. N
      OBVIOUS
    <3>2. f[n + 1] \in Seq(S) /\ s[m] \in Seq(S)
      BY <1>0, <2>3, <3>1
    <3>3. f[m] = f[n + 1] \o s[m]
      BY <2>1, <3>1
    <3> QED
      BY <3>2, <3>3, ConcatProperties
  <2>4. \A n \in Nat : n \in I
    <3> HIDE DEF I
    <3> QED
      BY <2>2, <2>3, SetInduction
  <2>5. ASSUME NEW n \in 1 .. N PROVE f[n] \in Seq(S)
    <3>1. n - 1 \in Nat /\ n - 1 + 1 = n /\ n <= N
      OBVIOUS
    <3> QED
      BY <2>4, <3>1
  <2> DEFINE p == [n \in 0 .. N |-> IF n = 0 THEN start ELSE start \o f[n]]
  <2>6. p[0] = start /\ \A n \in 1 .. N : p[n] = start \o f[n]
    OBVIOUS
  <2> HIDE DEF p
  <2>7. ASSUME NEW n \in 1 .. N PROVE p[n] = p[n - 1] \o s[n] /\ p[n] \in Seq(S)
    <3>1. p[n] = start \o f[n] /\ f[n] \in Seq(S) /\ s[n] \in Seq(S)
      BY <1>0, <2>5, <2>6
    <3>2. p[n] \in Seq(S)
      BY <3>1, ConcatProperties
    <3>3. CASE n = 1
      <4>1. n - 1 = 0 /\ f[n] = s[n]
        BY <2>1, <3>3
      <4>2. p[n - 1] = start
        BY <2>6, <4>1
      <4> QED
        BY <3>1, <3>2, <4>1, <4>2
    <3>4. CASE n # 1
      <4>1. n \in 2 .. N /\ n - 1 \in 1 .. N
        BY <3>4
      <4>2. f[n] = f[n - 1] \o s[n] /\ f[n - 1] \in Seq(S) /\ p[n - 1] = start \o f[n - 1]
        BY <2>1, <2>5, <2>6, <4>1
      <4> DEFINE x == f[n - 1]
                 y == s[n]
      <4>3. x \in Seq(S) /\ y \in Seq(S)
        BY <3>1, <4>2
      <4>4. (start \o x) \o y = start \o (x \o y)
        <5> HIDE DEF x, y
        <5> QED
          BY <4>3, ConcatAssociative
      <4> QED
        BY <3>1, <3>2, <4>2, <4>4
    <3> QED
      BY <3>3, <3>4
  <2>8. p[N] = start \o FlattenSeq(s)
    BY <1>2, <2>1, <2>6
  <2>9. ASSUME NEW n \in 0 .. N PROVE p[n] \in Seq(S)
    <3>1. CASE n = 0
      BY <2>6, <3>1
    <3>2. CASE n # 0
      <4>1. n \in 1 .. N
        BY <3>2
      <4> QED
        BY <2>7, <4>1
    <3> QED
      BY <3>1, <3>2
  <2>10. Written(p, N, start, s, S)
    BY <2>6, <2>7, <2>8, <2>9 DEF Written
  <2> QED
    BY <2>10
<1> QED
  BY <1>1, <1>2

-----------------------------------------------------------------------------
(* The table history.                                                      *)

LEMMA HistoryRows ==
  ASSUME NEW hist \in Seq(HistoryRow), NEW S \in SUBSET DOMAIN hist
  PROVE  Priced(hist, S) /\ S \in SUBSET (1 .. Len(hist)) /\ Cardinality(S) \in Nat
<1>1. Len(hist) \in Nat /\ DOMAIN hist = 1 .. Len(hist)
  BY LenProperties
<1>2. IsFiniteSet(S) /\ Cardinality(S) \in Nat
  BY <1>1, FiniteIds
<1>3. \A h \in S : hist[h] \in HistoryRow
  BY <1>1, ElementOfSeq
<1>4. \A h \in S : hist[h].amount \in Nat
  BY <1>3 DEF HistoryRow
<1> QED
  BY <1>1, <1>2, <1>4 DEF Priced

(* What one more entry adds.                                               *)
Incoming(e) == e.kind \in {"deposit", "transfer_in"}

Adds(hist, e, other, k) ==
  /\ other \in Seq(HistoryRow)
  /\ e.pk = k /\ Incoming(e) =>
       Value(other, CreditsOf(other, k)) = Value(hist, CreditsOf(hist, k)) + e.amount
  /\ ~(e.pk = k /\ Incoming(e)) =>
       Value(other, CreditsOf(other, k)) = Value(hist, CreditsOf(hist, k))
  /\ e.pk = k /\ ~Incoming(e) =>
       /\ Value(other, DebitsOf(other, k)) = Value(hist, DebitsOf(hist, k)) + e.amount
       /\ Cardinality(DebitsOf(other, k)) = Cardinality(DebitsOf(hist, k)) + 1
  /\ ~(e.pk = k /\ ~Incoming(e)) =>
       /\ Value(other, DebitsOf(other, k)) = Value(hist, DebitsOf(hist, k))
       /\ Cardinality(DebitsOf(other, k)) = Cardinality(DebitsOf(hist, k))
  /\ EntriesOf(other, k) # {} => e.pk = k \/ EntriesOf(hist, k) # {}

LEMMA EntryCounted ==
  ASSUME NEW hist \in Seq(HistoryRow), NEW e \in HistoryRow, NEW k,
         NEW other, other = hist \o <<e>>
  PROVE  Adds(hist, e, other, k)
<1> DEFINE n == Len(hist) + 1
           Cr == CreditsOf(hist, k)
           Db == DebitsOf(hist, k)
<1>1. /\ other = Append(hist, e) /\ other \in Seq(HistoryRow)
      /\ Len(other) = n /\ other[n] = e /\ \A i \in 1 .. Len(hist) : other[i] = hist[i]
  BY AppendIsConcat, AppendProperties
<1>2. /\ Len(hist) \in Nat /\ DOMAIN hist = 1 .. Len(hist) /\ DOMAIN other = 1 .. Len(other)
  BY <1>1, LenProperties
<1>3. DOMAIN other = DOMAIN hist \cup {n} /\ n \notin DOMAIN hist
  BY <1>1, <1>2
<1>4. \A i \in DOMAIN hist : other[i] = hist[i]
  BY <1>1, <1>2
<1> HIDE DEF n
<1>5. EntriesOf(other, k) = EntriesOf(hist, k) \cup (IF e.pk = k THEN {n} ELSE {})
  BY <1>1, <1>3, <1>4 DEF EntriesOf
<1>6. EntriesOf(hist, k) \subseteq DOMAIN hist
  BY DEF EntriesOf
<1>7. CreditsOf(other, k) = Cr \cup (IF e.pk = k /\ Incoming(e) THEN {n} ELSE {})
  BY <1>1, <1>3, <1>4, <1>5, <1>6 DEF CreditsOf, Incoming
<1>8. DebitsOf(other, k) = Db \cup (IF e.pk = k /\ ~Incoming(e) THEN {n} ELSE {})
  BY <1>1, <1>3, <1>4, <1>5, <1>6, <1>7 DEF DebitsOf, CreditsOf, Incoming, Cr, Db
<1>9. Cr \in SUBSET DOMAIN hist /\ Db \in SUBSET DOMAIN hist
  BY <1>6 DEF CreditsOf, DebitsOf
<1> HIDE DEF Cr, Db
<1>10. ASSUME NEW S \in SUBSET DOMAIN hist
       PROVE  /\ Value(other, S) = Value(hist, S) /\ Value(hist, S) \in Nat
              /\ Value(other, S \cup {n}) = Value(hist, S) + e.amount
              /\ Cardinality(S) \in Nat /\ Cardinality(S \cup {n}) = Cardinality(S) + 1
  <2>1. Priced(hist, S) /\ Cardinality(S) \in Nat
    BY HistoryRows
  <2>2. S \in SUBSET DOMAIN other
    BY <1>3
  <2>3. Priced(other, S)
    BY <1>1, <2>2, HistoryRows
  <2>4. \A i \in S : hist[i].amount = other[i].amount
    BY <1>4
  <2>5. Value(hist, S) = Value(other, S)
    BY <2>4, ValueSame
  <2>6. n \notin S /\ other[n].amount \in Nat /\ other[n].amount = e.amount
    BY <1>1, <1>3 DEF HistoryRow
  <2>7. Value(other, S \cup {n}) = Value(other, S) + e.amount
    <3>1. Value(other, S \cup {n}) = Value(other, S) + other[n].amount
      BY <2>3, <2>6, ValueAdd
    <3> QED
      BY <2>6, <3>1
  <2>8. Cardinality(S \cup {n}) = Cardinality(S) + 1
    BY <2>1, <2>6, FS_AddElement DEF Priced
  <2> QED
    BY <2>1, <2>5, <2>7, <2>8, ValueType
<1>11. /\ Value(other, Cr) = Value(hist, Cr) /\ Value(hist, Cr) \in Nat
       /\ Value(other, Cr \cup {n}) = Value(hist, Cr) + e.amount
  BY <1>9, <1>10
<1>12. /\ Value(other, Db) = Value(hist, Db) /\ Value(hist, Db) \in Nat
       /\ Value(other, Db \cup {n}) = Value(hist, Db) + e.amount
       /\ Cardinality(Db) \in Nat /\ Cardinality(Db \cup {n}) = Cardinality(Db) + 1
  BY <1>9, <1>10
<1>13. CreditsOf(hist, k) = Cr /\ DebitsOf(hist, k) = Db
  BY DEF Cr, Db
<1>14. /\ e.pk = k /\ Incoming(e) =>
            Value(other, CreditsOf(other, k)) = Value(hist, CreditsOf(hist, k)) + e.amount
       /\ ~(e.pk = k /\ Incoming(e)) =>
            Value(other, CreditsOf(other, k)) = Value(hist, CreditsOf(hist, k))
  <2>1. CASE e.pk = k /\ Incoming(e)
    <3>1. CreditsOf(other, k) = Cr \cup {n}
      BY <1>7, <2>1
    <3> QED
      BY <1>11, <1>13, <2>1, <3>1, Zenon
  <2>2. CASE ~(e.pk = k /\ Incoming(e))
    <3>1. CreditsOf(other, k) = Cr
      BY <1>7, <2>2
    <3> QED
      BY <1>11, <1>13, <2>2, <3>1, Zenon
  <2> QED
    BY <2>1, <2>2
<1>15. /\ e.pk = k /\ ~Incoming(e) =>
            /\ Value(other, DebitsOf(other, k)) = Value(hist, DebitsOf(hist, k)) + e.amount
            /\ Cardinality(DebitsOf(other, k)) = Cardinality(DebitsOf(hist, k)) + 1
       /\ ~(e.pk = k /\ ~Incoming(e)) =>
            /\ Value(other, DebitsOf(other, k)) = Value(hist, DebitsOf(hist, k))
            /\ Cardinality(DebitsOf(other, k)) = Cardinality(DebitsOf(hist, k))
  <2>1. CASE e.pk = k /\ ~Incoming(e)
    <3>1. DebitsOf(other, k) = Db \cup {n}
      BY <1>8, <2>1
    <3> QED
      BY <1>12, <1>13, <2>1, <3>1, Zenon
  <2>2. CASE ~(e.pk = k /\ ~Incoming(e))
    <3>1. DebitsOf(other, k) = Db
      BY <1>8, <2>2
    <3> QED
      BY <1>12, <1>13, <2>2, <3>1, Zenon
  <2> QED
    BY <2>1, <2>2
<1>16. EntriesOf(other, k) # {} => e.pk = k \/ EntriesOf(hist, k) # {}
  BY <1>5
<1> QED
  BY <1>1, <1>14, <1>15, <1>16 DEF Adds

(* One deposit, or one transaction, with its entries.                      *)
LEMMA DepositListed ==
  ASSUME NEW deps \in Seq(DepRow), NEW D \in SUBSET DOMAIN deps, NEW d \in DOMAIN deps \ D,
         NEW rows \in Seq(TxRow), NEW X \in SUBSET DOMAIN rows,
         NEW hist \in Seq(HistoryRow), Lists(hist, deps, D, rows, X),
         NEW e, e = Entry(deps[d].to, "deposit", NoKey, deps[d].amount),
         NEW other, other = hist \o <<e>>
  PROVE  other \in Seq(HistoryRow) /\ Lists(other, deps, D \cup {d}, rows, X)
<1>1. /\ e \in HistoryRow /\ e.pk = deps[d].to /\ e.amount = deps[d].amount
      /\ Incoming(e) /\ deps[d].amount \in Nat
  <2>1. {d} \in SUBSET DOMAIN deps
    OBVIOUS
  <2>2. deps[d].to \in Key /\ deps[d].amount \in Nat \ {0}
    BY <2>1, DepRows
  <2> QED
    BY <2>2 DEF Entry, HistoryRow, Incoming
<1>2. \A k : Adds(hist, e, other, k)
  BY <1>1, EntryCounted
<1>3. ASSUME NEW k \in Key PROVE Listing(other, k, deps, D \cup {d}, rows, X)
  <2>1. Listing(hist, k, deps, D, rows, X)
    BY DEF Lists
  <2>2. /\ e.pk = k =>
             Value(other, CreditsOf(other, k)) = Value(hist, CreditsOf(hist, k)) + e.amount
        /\ e.pk # k => Value(other, CreditsOf(other, k)) = Value(hist, CreditsOf(hist, k))
        /\ Value(other, DebitsOf(other, k)) = Value(hist, DebitsOf(hist, k))
        /\ Cardinality(DebitsOf(other, k)) = Cardinality(DebitsOf(hist, k))
        /\ EntriesOf(other, k) # {} => e.pk = k \/ EntriesOf(hist, k) # {}
    BY <1>1, <1>2 DEF Adds
  <2>3. /\ deps[d].to = k =>
             Value(deps, DepsTo(deps, D \cup {d}, k))
               = Value(deps, DepsTo(deps, D, k)) + deps[d].amount
        /\ deps[d].to # k => DepsTo(deps, D \cup {d}, k) = DepsTo(deps, D, k)
        /\ Value(deps, DepsTo(deps, D, k)) \in Nat
    BY DepositCounted
  <2>4. /\ Cardinality(TxsBy(rows, X, k)) \in Nat
        /\ Value(rows, TxsBy(rows, X, k)) \in Nat /\ Value(rows, TxsTo(rows, X, k)) \in Nat
    BY RowNumbers
  <2>5. deps[d].to = k => DepsTo(deps, D \cup {d}, k) # {}
    BY DEF DepsTo
  <2> DEFINE v(D1) == Value(deps, DepsTo(deps, D1, k))
             x == Value(rows, TxsTo(rows, X, k))
             c(hist1) == Value(hist1, CreditsOf(hist1, k))
  <2>6. c(other) = v(D \cup {d}) + x
    <3>1. c(hist) = v(D) + x /\ v(D) \in Nat /\ x \in Nat
      BY <2>1, <2>3, <2>4 DEF Listing
    <3>2. CASE deps[d].to = k
      <4>1. c(other) = c(hist) + e.amount /\ v(D \cup {d}) = v(D) + e.amount
        BY <1>1, <2>2, <2>3, <3>2
      <4> HIDE DEF c, v, x
      <4> QED
        BY <1>1, <3>1, <4>1
    <3>3. CASE deps[d].to # k
      <4>1. c(other) = c(hist) /\ v(D \cup {d}) = v(D)
        BY <1>1, <2>2, <2>3, <3>3
      <4> HIDE DEF c, v, x
      <4> QED
        BY <3>1, <4>1
    <3> QED
      BY <3>2, <3>3
  <2>7. /\ Value(other, DebitsOf(other, k)) = Value(rows, TxsBy(rows, X, k))
        /\ Cardinality(DebitsOf(other, k)) = Cardinality(TxsBy(rows, X, k))
    BY <2>1, <2>2 DEF Listing
  <2>8. EntriesOf(other, k) # {} => DepsTo(deps, D \cup {d}, k) # {}
             \/ TxsTo(rows, X, k) # {} \/ TxsBy(rows, X, k) # {}
    <3>1. DepsTo(deps, D, k) \subseteq DepsTo(deps, D \cup {d}, k)
      BY DEF DepsTo
    <3> QED
      BY <1>1, <2>1, <2>2, <2>5, <3>1 DEF Listing
  <2> QED
    BY <2>6, <2>7, <2>8 DEF Listing
<1>4. other \in Seq(HistoryRow)
  BY <1>2 DEF Adds
<1> QED
  BY <1>3, <1>4 DEF Lists

Debited(hist, mid, rows, Y, k) ==
  /\ Value(mid, CreditsOf(mid, k)) = Value(hist, CreditsOf(hist, k))
  /\ Value(mid, DebitsOf(mid, k)) = Value(rows, TxsBy(rows, Y, k))
  /\ Cardinality(DebitsOf(mid, k)) = Cardinality(TxsBy(rows, Y, k))
  /\ EntriesOf(mid, k) # {} => EntriesOf(hist, k) # {} \/ TxsBy(rows, Y, k) # {}

LEMMA DebitListed ==
  ASSUME NEW rows \in Seq(TxRow), NEW X \in SUBSET DOMAIN rows, NEW t \in DOMAIN rows \ X,
         NEW hist \in Seq(HistoryRow), NEW k,
         Value(hist, DebitsOf(hist, k)) = Value(rows, TxsBy(rows, X, k)),
         Cardinality(DebitsOf(hist, k)) = Cardinality(TxsBy(rows, X, k)),
         NEW e \in HistoryRow, e.pk = rows[t].from, e.amount = rows[t].amount, ~Incoming(e),
         NEW mid, mid = hist \o <<e>>
  PROVE  Debited(hist, mid, rows, X \cup {t}, k)
<1>1. /\ mid \in Seq(HistoryRow)
      /\ Value(mid, CreditsOf(mid, k)) = Value(hist, CreditsOf(hist, k))
      /\ e.pk = k =>
           /\ Value(mid, DebitsOf(mid, k)) = Value(hist, DebitsOf(hist, k)) + e.amount
           /\ Cardinality(DebitsOf(mid, k)) = Cardinality(DebitsOf(hist, k)) + 1
      /\ e.pk # k =>
           /\ Value(mid, DebitsOf(mid, k)) = Value(hist, DebitsOf(hist, k))
           /\ Cardinality(DebitsOf(mid, k)) = Cardinality(DebitsOf(hist, k))
      /\ EntriesOf(mid, k) # {} => e.pk = k \/ EntriesOf(hist, k) # {}
  <2>1. Adds(hist, e, mid, k)
    BY EntryCounted
  <2> QED
    BY <2>1 DEF Adds
<1>2. /\ rows[t].from = k =>
            /\ Cardinality(TxsBy(rows, X \cup {t}, k)) = Cardinality(TxsBy(rows, X, k)) + 1
            /\ Value(rows, TxsBy(rows, X \cup {t}, k))
                 = Value(rows, TxsBy(rows, X, k)) + rows[t].amount
      /\ rows[t].from # k => TxsBy(rows, X \cup {t}, k) = TxsBy(rows, X, k)
  BY TxByCounted
<1>3. rows[t].from = k => t \in TxsBy(rows, X \cup {t}, k)
  BY DEF TxsBy
<1>4. /\ Value(mid, DebitsOf(mid, k)) = Value(rows, TxsBy(rows, X \cup {t}, k))
      /\ Cardinality(DebitsOf(mid, k)) = Cardinality(TxsBy(rows, X \cup {t}, k))
  <2>1. CASE rows[t].from = k
    BY <1>1, <1>2, <2>1, Zenon
  <2>2. CASE rows[t].from # k
    BY <1>1, <1>2, <2>2, Zenon
  <2> QED
    BY <2>1, <2>2
<1> QED
  BY <1>1, <1>3, <1>4 DEF Debited

LEMMA TxListed ==
  ASSUME NEW deps, NEW D, NEW rows \in Seq(TxRow), NEW X \in SUBSET DOMAIN rows,
         NEW t \in DOMAIN rows \ X, WellFormed(rows),
         NEW hist \in Seq(HistoryRow), Lists(hist, deps, D, rows, X),
         \A k \in Key : Value(deps, DepsTo(deps, D, k)) \in Nat,
         NEW es, es = IF rows[t].withdraw
                      THEN <<Entry(rows[t].from, "withdraw", rows[t].to, rows[t].amount)>>
                      ELSE <<Entry(rows[t].from, "transfer_out", rows[t].to, rows[t].amount),
                             Entry(rows[t].to, "transfer_in", rows[t].from, rows[t].amount)>>,
         NEW other, other = hist \o es
  PROVE  other \in Seq(HistoryRow) /\ Lists(other, deps, D, rows, X \cup {t})
<1> DEFINE e == Entry(rows[t].from, IF rows[t].withdraw THEN "withdraw" ELSE "transfer_out",
                      rows[t].to, rows[t].amount)
           g == Entry(rows[t].to, "transfer_in", rows[t].from, rows[t].amount)
           mid == hist \o <<e>>
<1>1. /\ rows[t].from \in Key /\ rows[t].to \in Key \cup {NoKey} /\ rows[t].amount \in Nat \ {0}
      /\ rows[t].withdraw \in BOOLEAN /\ (rows[t].withdraw <=> rows[t].to = NoKey)
  <2>1. {t} \in SUBSET DOMAIN rows
    OBVIOUS
  <2> QED
    BY <2>1, TxRows DEF WellFormed
<1>2. /\ e \in HistoryRow /\ e.pk = rows[t].from /\ e.amount = rows[t].amount /\ ~Incoming(e)
  BY <1>1 DEF Entry, HistoryRow, Incoming
<1>3. ~rows[t].withdraw =>
        g \in HistoryRow /\ g.pk = rows[t].to /\ g.amount = rows[t].amount /\ Incoming(g)
  BY <1>1 DEF Entry, HistoryRow, Incoming
<1>4. /\ rows[t].withdraw => es = <<e>>
      /\ ~rows[t].withdraw => es = <<e, g>>
  BY <1>1
<1> HIDE DEF e, g
<1>5. /\ rows[t].withdraw => other = mid
      /\ ~rows[t].withdraw => other = mid \o <<g>>
  <2>1. CASE rows[t].withdraw
    BY <1>4, <2>1
  <2>2. CASE ~rows[t].withdraw
    <3>1. <<e>> \o <<g>> = <<e, g>>
      <4>1. <<e>> \in Seq(HistoryRow)
        BY <1>2
      <4>2. Append(<<e>>, g) = <<e, g>>
        <5> DEFINE u == <<e>>
                   v == Append(u, g)
                   w == <<e, g>>
        <5>1. u \in Seq(HistoryRow) /\ w \in Seq(HistoryRow) /\ g \in HistoryRow
          BY <1>2, <1>3, <2>2
        <5>2. Len(u) = 1 /\ u[1] = e /\ Len(w) = 2 /\ w[1] = e /\ w[2] = g
          OBVIOUS
        <5> HIDE DEF u, w
        <5>3. /\ v \in Seq(HistoryRow) /\ Len(v) = Len(u) + 1 /\ v[Len(u) + 1] = g
              /\ \A i \in 1 .. Len(u) : v[i] = u[i]
          BY <5>1, AppendProperties
        <5>4. Len(v) = Len(w) /\ v[1] = w[1] /\ v[2] = w[2]
          BY <5>2, <5>3
        <5> HIDE DEF v
        <5>5. \A i \in 1 .. Len(v) : v[i] = w[i]
          BY <5>2, <5>4
        <5>6. v = w
          BY <5>1, <5>3, <5>4, <5>5, SeqEqual
        <5> QED
          BY <5>6 DEF u, v, w
      <4> QED
        BY <1>3, <2>2, <4>1, <4>2, AppendIsConcat
    <3>2. <<e>> \in Seq(HistoryRow) /\ <<g>> \in Seq(HistoryRow)
      BY <1>2, <1>3, <2>2
    <3>3. (hist \o <<e>>) \o <<g>> = hist \o (<<e>> \o <<g>>)
      BY <3>2, ConcatAssociative
    <3> QED
      BY <1>4, <2>2, <3>1, <3>3
  <2> QED
    BY <2>1, <2>2
<1>6. mid \in Seq(HistoryRow)
  BY <1>2, AppendIsConcat, AppendProperties
<1>7. ASSUME ~rows[t].withdraw, NEW k PROVE Adds(mid, g, other, k)
  BY <1>3, <1>5, <1>6, <1>7, EntryCounted
<1>8. other \in Seq(HistoryRow)
  BY <1>1, <1>5, <1>6, <1>7 DEF Adds
<1> DEFINE Y == X \cup {t}
<1>9. ASSUME NEW k \in Key PROVE Listing(other, k, deps, D, rows, Y)
  <2>1. /\ Value(hist, CreditsOf(hist, k))
             = Value(deps, DepsTo(deps, D, k)) + Value(rows, TxsTo(rows, X, k))
        /\ Value(hist, DebitsOf(hist, k)) = Value(rows, TxsBy(rows, X, k))
        /\ Cardinality(DebitsOf(hist, k)) = Cardinality(TxsBy(rows, X, k))
        /\ EntriesOf(hist, k) # {} =>
             DepsTo(deps, D, k) # {} \/ TxsTo(rows, X, k) # {} \/ TxsBy(rows, X, k) # {}
    BY DEF Lists, Listing
  <2>2. /\ Value(mid, CreditsOf(mid, k)) = Value(hist, CreditsOf(hist, k))
        /\ Value(mid, DebitsOf(mid, k)) = Value(rows, TxsBy(rows, Y, k))
        /\ Cardinality(DebitsOf(mid, k)) = Cardinality(TxsBy(rows, Y, k))
        /\ EntriesOf(mid, k) # {} => EntriesOf(hist, k) # {} \/ TxsBy(rows, Y, k) # {}
    <3>1. mid = hist \o <<e>>
      OBVIOUS
    <3> HIDE DEF mid
    <3>2. Debited(hist, mid, rows, X \cup {t}, k)
      BY <1>2, <2>1, <3>1, DebitListed
    <3> QED
      BY <3>2 DEF Debited
  <2> HIDE DEF mid
  <2>3. /\ rows[t].to = k =>
             Value(rows, TxsTo(rows, Y, k)) = Value(rows, TxsTo(rows, X, k)) + rows[t].amount
        /\ rows[t].to # k => TxsTo(rows, Y, k) = TxsTo(rows, X, k)
    BY TxToCounted
  <2>4. /\ Value(rows, TxsTo(rows, X, k)) \in Nat /\ Value(rows, TxsBy(rows, Y, k)) \in Nat
        /\ Cardinality(TxsBy(rows, Y, k)) \in Nat /\ Value(deps, DepsTo(deps, D, k)) \in Nat
    BY RowNumbers
  <2>5. TxsTo(rows, X, k) \subseteq TxsTo(rows, Y, k) /\ TxsBy(rows, X, k) \subseteq TxsBy(rows, Y, k)
    BY DEF TxsTo, TxsBy
  <2>6. rows[t].to = k => t \in TxsTo(rows, Y, k)
    BY DEF TxsTo
  <2> DEFINE d == Value(deps, DepsTo(deps, D, k))
             x == Value(rows, TxsTo(rows, X, k))
             y == Value(rows, TxsTo(rows, Y, k))
  <2>7. CASE rows[t].to = k
    <3>1. ~rows[t].withdraw
      BY <1>1, <2>7, AccountsAssumption
    <3>2. /\ Value(other, CreditsOf(other, k)) = Value(mid, CreditsOf(mid, k)) + g.amount
          /\ Value(other, DebitsOf(other, k)) = Value(mid, DebitsOf(mid, k))
          /\ Cardinality(DebitsOf(other, k)) = Cardinality(DebitsOf(mid, k))
          /\ g.amount = rows[t].amount
      BY <1>3, <1>7, <2>7, <3>1 DEF Adds
    <3>3. Value(other, CreditsOf(other, k)) = d + y
      <4> DEFINE c == Value(other, CreditsOf(other, k))
                 a == rows[t].amount
      <4>1. c = (d + x) + a
        BY <2>1, <2>2, <3>2
      <4>2. y = x + a
        BY <2>3, <2>7
      <4>3. x \in Nat /\ d \in Nat /\ a \in Nat
        BY <1>1, <2>4
      <4> HIDE DEF d, x, y, c, a
      <4>4. c = d + y
        BY <4>1, <4>2, <4>3
      <4> QED
        BY <4>4 DEF c
    <3> QED
      BY <2>2, <2>6, <2>7, <3>2, <3>3 DEF Listing
  <2>8. CASE rows[t].to # k
    <3>1. /\ Value(other, CreditsOf(other, k)) = Value(mid, CreditsOf(mid, k))
          /\ Value(other, DebitsOf(other, k)) = Value(mid, DebitsOf(mid, k))
          /\ Cardinality(DebitsOf(other, k)) = Cardinality(DebitsOf(mid, k))
          /\ EntriesOf(other, k) # {} => EntriesOf(mid, k) # {}
      <4>1. CASE rows[t].withdraw
        BY <1>5, <4>1
      <4>2. CASE ~rows[t].withdraw
        BY <1>3, <1>7, <2>8, <4>2 DEF Adds
      <4> QED
        BY <1>1, <4>1, <4>2
    <3> QED
      BY <2>1, <2>2, <2>3, <2>5, <2>8, <3>1 DEF Listing
  <2> QED
    BY <2>7, <2>8
<1> QED
  BY <1>8, <1>9 DEF Lists

(* All of them, in order.                                                  *)
LEMMA DepositsListed ==
  ASSUME NEW D \in SUBSET DepIds, NEW E \in SUBSET (DepIds \ D), deposits \in Seq(DepRow),
         NEW rows \in Seq(TxRow), NEW X \in SUBSET DOMAIN rows,
         NEW hist \in Seq(HistoryRow), Lists(hist, deposits, D, rows, X),
         NEW s, s = [i \in DOMAIN InOrder(E) |-> DepositEntries(InOrder(E)[i])]
  PROVE  /\ hist \o FlattenSeq(s) \in Seq(HistoryRow)
         /\ Lists(hist \o FlattenSeq(s), deposits, D \cup E, rows, X)
<1> DEFINE N == Cardinality(E)
<1>1. E \in SUBSET Nat /\ IsFiniteSet(E) /\ N \in Nat
  <2>1. E \in SUBSET DOMAIN deposits
    BY DEF DepIds
  <2> QED
    BY <2>1, DepRows, FS_CardinalityType
<1>2. DOMAIN InOrder(E) = 1 .. N
  BY DEF InOrder
<1>3. \A i \in 1 .. N : InOrder(E)[i] \in E
  BY <1>1, InOrderFacts
<1>4. /\ FirstOf(E, 0) = {} /\ FirstOf(E, N) = E
      /\ \A n \in 1 .. N :
           /\ InOrder(E)[n] \notin FirstOf(E, n - 1)
           /\ FirstOf(E, n) = FirstOf(E, n - 1) \cup {InOrder(E)[n]}
  <2>1. 0 <= 0 /\ 0 \in Int /\ N >= N /\ N \in Int
    BY <1>1
  <2> QED
    BY <1>1, <2>1, FirstOfFacts
<1> HIDE DEF N
<1>5. s \in [1 .. N -> Seq(HistoryRow)] /\ \A n \in 1 .. N : s[n] = DepositEntries(InOrder(E)[n])
  <2>1. ASSUME NEW n \in 1 .. N PROVE DepositEntries(InOrder(E)[n]) \in Seq(HistoryRow)
    <3>1. {InOrder(E)[n]} \in SUBSET DOMAIN deposits
      BY <1>3 DEF DepIds
    <3>2. /\ deposits[InOrder(E)[n]].to \in Key
          /\ deposits[InOrder(E)[n]].amount \in Nat \ {0}
      BY <3>1, DepRows
    <3> QED
      BY <3>2 DEF DepositEntries, Entry, HistoryRow
  <2> QED
    BY <1>2, <2>1
<1>6. PICK p : /\ p[0] = hist /\ p[N] = hist \o FlattenSeq(s)
               /\ \A n \in 1 .. N : p[n] = p[n - 1] \o s[n]
               /\ \A n \in 0 .. N : p[n] \in Seq(HistoryRow)
  <2>1. PICK p : Written(p, N, hist, s, HistoryRow)
    BY <1>1, <1>5, FlattenSteps
  <2> QED
    BY <2>1 DEF Written
<1> DEFINE L(n) == Lists(p[n], deposits, D \cup FirstOf(E, n), rows, X)
           T == {n \in Nat : n <= N => L(n)}
<1>7. 0 \in T
  <2>1. D \cup FirstOf(E, 0) = D
    BY <1>4
  <2> QED
    BY <1>6, <2>1
<1>8. ASSUME NEW n \in Nat, n \in T PROVE n + 1 \in T
  <2> SUFFICES ASSUME n + 1 <= N PROVE L(n + 1)
    OBVIOUS
  <2> DEFINE m == n + 1
             d == InOrder(E)[m]
             B == D \cup FirstOf(E, n)
  <2>1. m \in 1 .. N /\ m - 1 = n /\ n \in 0 .. N /\ n <= N
    BY <1>1
  <2>2. p[m] = p[n] \o s[m] /\ p[n] \in Seq(HistoryRow) /\ L(n)
    BY <1>6, <1>8, <2>1
  <2>3. d \in E /\ d \notin FirstOf(E, n) /\ FirstOf(E, m) = FirstOf(E, n) \cup {d}
    BY <1>3, <1>4, <2>1
  <2>4. FirstOf(E, n) \subseteq E
    BY DEF FirstOf
  <2>5. B \in SUBSET DOMAIN deposits /\ d \in DOMAIN deposits \ B
    BY <2>3, <2>4 DEF DepIds
  <2>6. s[m] = <<Entry(deposits[d].to, "deposit", NoKey, deposits[d].amount)>>
    BY <1>5, <2>1 DEF DepositEntries
  <2>7. D \cup FirstOf(E, m) = B \cup {d}
    BY <2>3
  <2> HIDE DEF d, B, m
  <2>8. Lists(p[m], deposits, B \cup {d}, rows, X)
    <3>1. Lists(p[n], deposits, B, rows, X)
      BY <2>2 DEF B
    <3> DEFINE e == Entry(deposits[d].to, "deposit", NoKey, deposits[d].amount)
    <3>2. p[m] = p[n] \o <<e>>
      BY <2>2, <2>6
    <3> HIDE DEF e
    <3>3. e = Entry(deposits[d].to, "deposit", NoKey, deposits[d].amount)
      BY DEF e
    <3> QED
      BY <2>2, <2>5, <3>1, <3>2, <3>3, DepositListed
  <2> QED
    BY <2>7, <2>8 DEF m
<1>9. \A n \in Nat : n \in T
  <2> HIDE DEF T
  <2> QED
    BY <1>7, <1>8, SetInduction
<1>10. L(N)
  <2>1. N \in Nat /\ N <= N
    BY <1>1
  <2> HIDE DEF L
  <2> QED
    BY <1>9, <2>1
<1>11. D \cup FirstOf(E, N) = D \cup E
  BY <1>4
<1>12. p[N] \in Seq(HistoryRow)
  <2>1. N \in 0 .. N
    BY <1>1
  <2> QED
    BY <1>6, <2>1
<1> QED
  BY <1>6, <1>10, <1>11, <1>12

LEMMA TxsListed ==
  ASSUME NEW X \in SUBSET TxIds, NEW E \in SUBSET (TxIds \ X), mempool \in Seq(TxRow),
         WellFormed(mempool), NEW deps \in Seq(DepRow), NEW D \in SUBSET DOMAIN deps,
         NEW hist \in Seq(HistoryRow), Lists(hist, deps, D, mempool, X),
         NEW s, s = [i \in DOMAIN InOrder(E) |-> TxEntries(InOrder(E)[i])]
  PROVE  /\ hist \o FlattenSeq(s) \in Seq(HistoryRow)
         /\ Lists(hist \o FlattenSeq(s), deps, D, mempool, X \cup E)
<1> DEFINE N == Cardinality(E)
           Es(t) == IF mempool[t].withdraw
                    THEN <<Entry(mempool[t].from, "withdraw", mempool[t].to, mempool[t].amount)>>
                    ELSE <<Entry(mempool[t].from, "transfer_out", mempool[t].to, mempool[t].amount),
                           Entry(mempool[t].to, "transfer_in", mempool[t].from, mempool[t].amount)>>
<1>1. E \in SUBSET Nat /\ IsFiniteSet(E) /\ N \in Nat
  <2>1. E \in SUBSET DOMAIN mempool
    BY DEF TxIds
  <2> QED
    BY <2>1, TxRows, FS_CardinalityType
<1>2. DOMAIN InOrder(E) = 1 .. N
  BY DEF InOrder
<1>3. \A i \in 1 .. N : InOrder(E)[i] \in E
  BY <1>1, InOrderFacts
<1>4. /\ FirstOf(E, 0) = {} /\ FirstOf(E, N) = E
      /\ \A n \in 1 .. N :
           /\ InOrder(E)[n] \notin FirstOf(E, n - 1)
           /\ FirstOf(E, n) = FirstOf(E, n - 1) \cup {InOrder(E)[n]}
  <2>1. 0 <= 0 /\ 0 \in Int /\ N >= N /\ N \in Int
    BY <1>1
  <2> QED
    BY <1>1, <2>1, FirstOfFacts
<1>5. \A t : TxEntries(t) = Es(t)
  BY DEF TxEntries
<1> HIDE DEF N
<1>6. s \in [1 .. N -> Seq(HistoryRow)] /\ \A n \in 1 .. N : s[n] = Es(InOrder(E)[n])
  <2>1. ASSUME NEW n \in 1 .. N PROVE Es(InOrder(E)[n]) \in Seq(HistoryRow)
    <3> DEFINE t == InOrder(E)[n]
               row == mempool[t]
    <3>1. t \in DOMAIN mempool /\ {t} \in SUBSET DOMAIN mempool
      BY <1>3 DEF TxIds
    <3>2. /\ row.from \in Key /\ row.to \in Key \cup {NoKey} /\ row.amount \in Nat \ {0}
          /\ row.withdraw \in BOOLEAN /\ (row.withdraw <=> row.to = NoKey)
      BY <3>1, TxRows DEF WellFormed
    <3> HIDE DEF row, t
    <3>3. /\ Entry(row.from, "withdraw", row.to, row.amount) \in HistoryRow
          /\ Entry(row.from, "transfer_out", row.to, row.amount) \in HistoryRow
          /\ ~row.withdraw => Entry(row.to, "transfer_in", row.from, row.amount) \in HistoryRow
      BY <3>2 DEF Entry, HistoryRow
    <3>4. CASE row.withdraw
      BY <3>3, <3>4 DEF row, t
    <3>5. CASE ~row.withdraw
      BY <3>3, <3>5 DEF row, t
    <3> QED
      BY <3>4, <3>5
  <2> HIDE DEF Es
  <2>2. s = [i \in 1 .. N |-> Es(InOrder(E)[i])]
    BY <1>2, <1>5
  <2> QED
    BY <2>1, <2>2
<1>7. PICK p : /\ p[0] = hist /\ p[N] = hist \o FlattenSeq(s)
               /\ \A n \in 1 .. N : p[n] = p[n - 1] \o s[n]
               /\ \A n \in 0 .. N : p[n] \in Seq(HistoryRow)
  <2>1. PICK p : Written(p, N, hist, s, HistoryRow)
    BY <1>1, <1>6, FlattenSteps
  <2> QED
    BY <2>1 DEF Written
<1>8. ASSUME NEW k \in Key PROVE Value(deps, DepsTo(deps, D, k)) \in Nat
  <2>1. DepsTo(deps, D, k) \in SUBSET DOMAIN deps
    BY DEF DepsTo
  <2> QED
    BY <2>1, DepRows, ValueType
<1> DEFINE L(n) == Lists(p[n], deps, D, mempool, X \cup FirstOf(E, n))
           T == {n \in Nat : n <= N => L(n)}
<1>9. 0 \in T
  <2>1. X \cup FirstOf(E, 0) = X
    BY <1>4
  <2> QED
    BY <1>7, <2>1
<1>10. ASSUME NEW n \in Nat, n \in T PROVE n + 1 \in T
  <2> SUFFICES ASSUME n + 1 <= N PROVE L(n + 1)
    OBVIOUS
  <2> DEFINE m == n + 1
             t == InOrder(E)[m]
             B == X \cup FirstOf(E, n)
             es == Es(t)
  <2>1. m \in 1 .. N /\ m - 1 = n /\ n \in 0 .. N /\ n <= N
    BY <1>1
  <2>2. p[m] = p[n] \o s[m] /\ p[n] \in Seq(HistoryRow) /\ L(n)
    BY <1>7, <1>10, <2>1
  <2>3. t \in E /\ t \notin FirstOf(E, n) /\ FirstOf(E, m) = FirstOf(E, n) \cup {t}
    BY <1>3, <1>4, <2>1
  <2>4. FirstOf(E, n) \subseteq E
    BY DEF FirstOf
  <2>5. B \in SUBSET DOMAIN mempool /\ t \in DOMAIN mempool \ B
    BY <2>3, <2>4 DEF TxIds
  <2>6. es = IF mempool[t].withdraw
             THEN <<Entry(mempool[t].from, "withdraw", mempool[t].to, mempool[t].amount)>>
             ELSE <<Entry(mempool[t].from, "transfer_out", mempool[t].to, mempool[t].amount),
                    Entry(mempool[t].to, "transfer_in", mempool[t].from, mempool[t].amount)>>
    OBVIOUS
  <2> HIDE DEF Es
  <2>7. s[m] = es
    BY <1>6, <2>1
  <2>8. X \cup FirstOf(E, m) = B \cup {t}
    BY <2>3
  <2>9. Lists(p[n], deps, D, mempool, B)
    BY <2>2
  <2> HIDE DEF es, t, B, m
  <2>10. p[m] = p[n] \o es
    BY <2>2, <2>7
  <2>11. Lists(p[m], deps, D, mempool, B \cup {t})
    BY <1>8, <2>2, <2>5, <2>6, <2>9, <2>10, TxListed
  <2> QED
    BY <2>8, <2>11 DEF m
<1>11. \A n \in Nat : n \in T
  <2> HIDE DEF T
  <2> QED
    BY <1>9, <1>10, SetInduction
<1>12. L(N)
  <2>1. N \in Nat /\ N <= N
    BY <1>1
  <2> HIDE DEF L
  <2> QED
    BY <1>11, <2>1
<1>13. X \cup FirstOf(E, N) = X \cup E
  BY <1>4
<1>14. p[N] \in Seq(HistoryRow)
  <2>1. N \in 0 .. N
    BY <1>1
  <2> QED
    BY <1>7, <2>1
<1> QED
  BY <1>7, <1>12, <1>13, <1>14

(* Rows that are kept, with what is done to others or to statuses.         *)
KeepsDeps(deps, other) ==
  /\ DOMAIN deps \subseteq DOMAIN other
  /\ \A d \in DOMAIN deps : other[d].to = deps[d].to /\ other[d].amount = deps[d].amount

KeepsRows(rows, other) ==
  /\ DOMAIN rows \subseteq DOMAIN other
  /\ \A t \in DOMAIN rows :
       /\ other[t].from = rows[t].from /\ other[t].to = rows[t].to
       /\ other[t].amount = rows[t].amount /\ other[t].nonce = rows[t].nonce

(* Lists and sums of what is kept stay as they are.                        *)
LEMMA KeptSums ==
  ASSUME NEW deps, NEW deps2, NEW rows, NEW rows2,
         KeepsDeps(deps, deps2), KeepsRows(rows, rows2),
         NEW D \in SUBSET DOMAIN deps, NEW X \in SUBSET DOMAIN rows
  PROVE  /\ Value(deps2, D) = Value(deps, D) /\ Value(rows2, X) = Value(rows, X)
         /\ \A k : /\ DepsTo(deps2, D, k) = DepsTo(deps, D, k)
                  /\ TxsTo(rows2, X, k) = TxsTo(rows, X, k)
                  /\ TxsBy(rows2, X, k) = TxsBy(rows, X, k)
<1>1. \A d \in D : deps[d].amount = deps2[d].amount /\ deps2[d].to = deps[d].to
  BY DEF KeepsDeps
<1>2. \A t \in X : /\ rows[t].amount = rows2[t].amount
                   /\ rows2[t].from = rows[t].from /\ rows2[t].to = rows[t].to
  BY DEF KeepsRows
<1>3. Value(deps2, D) = Value(deps, D)
  BY <1>1, ValueSame
<1>4. Value(rows2, X) = Value(rows, X)
  BY <1>2, ValueSame
<1>5. \A k : /\ DepsTo(deps2, D, k) = DepsTo(deps, D, k)
            /\ TxsTo(rows2, X, k) = TxsTo(rows, X, k)
            /\ TxsBy(rows2, X, k) = TxsBy(rows, X, k)
  BY <1>1, <1>2 DEF DepsTo, TxsTo, TxsBy
<1> QED
  BY <1>3, <1>4, <1>5

LEMMA ListsKept ==
  ASSUME NEW deps, NEW deps2, NEW rows, NEW rows2,
         KeepsDeps(deps, deps2), KeepsRows(rows, rows2),
         NEW hist, NEW D \in SUBSET DOMAIN deps, NEW X \in SUBSET DOMAIN rows,
         Lists(hist, deps, D, rows, X)
  PROVE  Lists(hist, deps2, D, rows2, X)
<1> SUFFICES ASSUME NEW k \in Key PROVE Listing(hist, k, deps2, D, rows2, X)
  BY DEF Lists
<1>1. /\ DepsTo(deps, D, k) \in SUBSET DOMAIN deps
      /\ TxsTo(rows, X, k) \in SUBSET DOMAIN rows /\ TxsBy(rows, X, k) \in SUBSET DOMAIN rows
  BY DEF DepsTo, TxsTo, TxsBy
<1>2. /\ DepsTo(deps2, D, k) = DepsTo(deps, D, k) /\ TxsBy(rows2, X, k) = TxsBy(rows, X, k)
      /\ TxsTo(rows2, X, k) = TxsTo(rows, X, k)
  BY KeptSums
<1>3. Value(deps2, DepsTo(deps, D, k)) = Value(deps, DepsTo(deps, D, k))
  BY <1>1, KeptSums
<1>4. Value(rows2, TxsTo(rows, X, k)) = Value(rows, TxsTo(rows, X, k))
  BY <1>1, KeptSums
<1>5. Value(rows2, TxsBy(rows, X, k)) = Value(rows, TxsBy(rows, X, k))
  BY <1>1, KeptSums
<1>6. Listing(hist, k, deps, D, rows, X)
  BY DEF Lists
<1> QED
  BY <1>2, <1>3, <1>4, <1>5, <1>6, Zenon DEF Listing

-----------------------------------------------------------------------------
(* What no step of the sequencer undoes.                                   *)

Evolves ==
  /\ KeepsDeps(deposits, deposits') /\ KeepsRows(mempool, mempool')
  /\ Consumed \subseteq Consumed' /\ Included \subseteq Included'
  /\ Confirm \/ (Consumed' = Consumed /\ Included' = Included)
  /\ \A t \in TxIds : mempool[t].status = "rejected" => mempool'[t].status = "rejected"
  /\ faults' = 0 => faults = 0
  /\ OneRowEach => OneRowEach'

LEMMA RestatusedEvolves ==
  ASSUME Restatused, faults' = 0 => faults = 0,
         Consumed \subseteq Consumed', Included \subseteq Included',
         Confirm \/ (Consumed' = Consumed /\ Included' = Included),
         \A t \in TxIds : mempool[t].status = "rejected" => mempool'[t].status = "rejected"
  PROVE  Evolves
<1>1. SameDeps(deposits, deposits') /\ SameRows(mempool, mempool')
  BY DEF Restatused
<1>2. KeepsDeps(deposits, deposits') /\ KeepsRows(mempool, mempool')
  BY <1>1 DEF SameDeps, SameRows, KeepsDeps, KeepsRows
<1>3. TxIds' = TxIds
  BY <1>1 DEF SameRows, TxIds
<1>4. \A t \in TxIds : mempool'[t].from = mempool[t].from /\ mempool'[t].nonce = mempool[t].nonce
  BY <1>1 DEF SameRows, TxIds
<1>5. OneRowEach => OneRowEach'
  BY <1>3, <1>4 DEF OneRowEach
<1> QED
  BY <1>2, <1>5 DEF Evolves

LEMMA QuietEvolves ==
  ASSUME UNCHANGED <<deposits, mempool>>, faults' = 0 => faults = 0
  PROVE  Evolves
<1>1. Restatused
  BY DEF Restatused, SameDeps, SameRows
<1>2. Consumed' = Consumed /\ Included' = Included
  BY DEF Consumed, Included, DepIds, TxIds
<1> QED
  BY <1>1, <1>2, RestatusedEvolves

LEMMA DepositEvolves ==
  ASSUME TypeOK, NEW k \in Key, NEW a \in DepositAmounts, ObserveDeposit(k, a)
  PROVE  Evolves
<1> DEFINE row == [to |-> k, amount |-> a, status |-> "pending"]
           n == Len(deposits) + 1
<1>1. deposits' = Append(deposits, row) /\ mempool' = mempool /\ faults' = faults
  BY DEF ObserveDeposit
<1>2. deposits \in Seq(DepRow) /\ row.status = "pending"
  BY DEF TypeOK
<1> HIDE DEF row
<1>3. /\ DOMAIN deposits' = DOMAIN deposits \cup {n}
      /\ deposits'[n] = row /\ \A d \in DOMAIN deposits : deposits'[d] = deposits[d]
  BY <1>1, <1>2
<1> HIDE DEF n
<1>4. KeepsDeps(deposits, deposits') /\ KeepsRows(mempool, mempool')
  BY <1>1, <1>3 DEF KeepsDeps, KeepsRows
<1>5. Consumed' = Consumed /\ Included' = Included
  BY <1>1, <1>2, <1>3 DEF Consumed, Included, DepIds, TxIds
<1>6. OneRowEach => OneRowEach'
  BY <1>1 DEF OneRowEach, TxIds
<1> QED
  BY <1>1, <1>4, <1>5, <1>6 DEF Evolves, TxIds

LEMMA SubmitEvolves ==
  ASSUME TypeOK, NEW t, SubmitTx(t)
  PROVE  Evolves
<1> DEFINE row == [from |-> t.from, to |-> t.to, amount |-> t.amount, nonce |-> t.nonce,
                   withdraw |-> t.withdraw, status |-> "pending", reason |-> "none"]
           n == Len(mempool) + 1
<1>1. /\ mempool' = Append(mempool, row) /\ deposits' = deposits /\ faults' = faults
      /\ RowFor(t) = {} /\ Len(mempool) < MaxRows
  BY DEF SubmitTx
<1>2. /\ mempool \in Seq(TxRow) /\ row.status = "pending"
      /\ row.from = t.from /\ row.nonce = t.nonce
  BY DEF TypeOK
<1> HIDE DEF row
<1>3. /\ DOMAIN mempool' = DOMAIN mempool \cup {n} /\ n \in 1 .. MaxRows
      /\ mempool'[n] = row /\ \A u \in DOMAIN mempool : mempool'[u] = mempool[u]
  BY <1>1, <1>2, MempoolAssumption
<1> HIDE DEF n
<1>4. KeepsDeps(deposits, deposits') /\ KeepsRows(mempool, mempool')
  BY <1>1, <1>3 DEF KeepsDeps, KeepsRows
<1>5. Consumed' = Consumed /\ Included' = Included
  BY <1>1, <1>2, <1>3 DEF Consumed, Included, DepIds, TxIds
<1>6. OneRowEach => OneRowEach'
  <2> SUFFICES ASSUME OneRowEach PROVE OneRowEach'
    OBVIOUS
  <2>1. TxIds' = TxIds \cup {n} /\ TxIds' \subseteq 1 .. MaxRows
    BY <1>3 DEF OneRowEach, TxIds
  <2>2. \A u \in TxIds : ~(mempool[u].from = row.from /\ mempool[u].nonce = row.nonce)
    BY <1>1, <1>2 DEF RowFor
  <2>3. ASSUME NEW u \in TxIds', NEW v \in TxIds',
               mempool'[u].from = mempool'[v].from, mempool'[u].nonce = mempool'[v].nonce
        PROVE  u = v
    <3>1. CASE u \in TxIds /\ v \in TxIds
      BY <1>3, <2>3, <3>1 DEF OneRowEach, TxIds
    <3>2. CASE u = n /\ v = n
      BY <3>2
    <3>3. CASE u = n /\ v \in TxIds
      BY <1>3, <2>2, <2>3, <3>3 DEF TxIds
    <3>4. CASE u \in TxIds /\ v = n
      BY <1>3, <2>2, <2>3, <3>4 DEF TxIds
    <3> QED
      BY <2>1, <3>1, <3>2, <3>3, <3>4
  <2> QED
    BY <2>1, <2>3 DEF OneRowEach
<1> QED
  BY <1>1, <1>3, <1>4, <1>5, <1>6 DEF Evolves, TxIds

LEMMA ConfirmSettles ==
  ASSUME AdmissionInv, Confirm
  PROVE  /\ Restatused /\ Consumed' = Consumed \cup batch.deps /\ Included' = Included \cup batch.txs
         /\ batch.deps \in SUBSET (DepIds \ Consumed) /\ batch.txs \in SUBSET (TxIds \ Included)
         /\ \A t \in TxIds : mempool[t].status = "rejected" => mempool'[t].status = "rejected"
<1>1. TypeOK /\ BatchInv
  BY DEF AdmissionInv
<1>2. deposits' = DepStatus(batch.deps, "consumed") /\ mempool' = TxStatus(batch.txs, "included")
  BY DEF Confirm
<1>3. /\ batch.deps \in SUBSET DepIds /\ batch.txs \in SUBSET TxIds
      /\ \A d \in DepIds : d \in batch.deps <=> deposits[d].status = "batching"
      /\ \A t \in TxIds : t \in batch.txs <=> mempool[t].status = "batching"
  BY <1>1 DEF TypeOK, BatchInv
<1>4. /\ SameDeps(deposits, deposits') /\ SameRows(mempool, mempool')
      /\ \A d \in DepIds : deposits'[d].status = IF d \in batch.deps THEN "consumed" ELSE deposits[d].status
      /\ \A t \in TxIds : mempool'[t].status = IF t \in batch.txs THEN "included" ELSE mempool[t].status
  BY <1>1, <1>2, <1>3, StatusSet
<1>5. DepIds' = DepIds /\ TxIds' = TxIds
  BY <1>4 DEF DepIds, TxIds, SameDeps, SameRows
<1>6. /\ \A d \in DepIds : deposits'[d].status = "consumed" <=> d \in batch.deps \/ deposits[d].status = "consumed"
      /\ \A t \in TxIds : mempool'[t].status = "included" <=> t \in batch.txs \/ mempool[t].status = "included"
      /\ \A t \in TxIds : mempool[t].status = "rejected" => mempool'[t].status = "rejected"
  BY <1>3, <1>4
<1>7. Consumed' = Consumed \cup batch.deps
  BY <1>3, <1>5, <1>6 DEF Consumed
<1>8. Included' = Included \cup batch.txs
  BY <1>3, <1>5, <1>6 DEF Included
<1>9. batch.deps \in SUBSET (DepIds \ Consumed) /\ batch.txs \in SUBSET (TxIds \ Included)
  BY <1>3 DEF Consumed, Included
<1> QED
  BY <1>4, <1>6, <1>7, <1>8, <1>9 DEF Restatused

(* A build starts or ends, and nothing settles.                            *)
LEMMA BuildEvolves ==
  ASSUME AdmissionInv, InsertBatch \/ FailBatch
  PROVE  Evolves
<1>1. TypeOK /\ BatchInv
  BY DEF AdmissionInv
<1>2. PICK D, X, s :
        /\ deposits' = DepStatus(D, s) /\ mempool' = TxStatus(X, s) /\ s \in {"pending", "batching"}
        /\ D \in SUBSET DepIds /\ \A d \in D : deposits[d].status # "consumed"
        /\ X \in SUBSET TxIds /\ \A t \in X : mempool[t].status \in {"pending", "batching"}
  <2>1. CASE InsertBatch
    <3>1. TakenDeps \in SUBSET PendingDeps /\ txs \in SUBSET PendingTxs
      BY <1>1, <2>1, StatusSets DEF InsertBatch, BatchInv
    <3>2. deposits' = DepStatus(TakenDeps, "batching") /\ mempool' = TxStatus(txs, "batching")
      BY <2>1 DEF InsertBatch
    <3> QED
      BY <3>1, <3>2 DEF PendingDeps, PendingTxs
  <2>2. CASE FailBatch
    <3>1. deposits' = DepStatus(batch.deps, "pending") /\ mempool' = TxStatus(batch.txs, "pending")
      BY <2>2 DEF FailBatch
    <3>2. /\ batch.deps \in SUBSET DepIds /\ batch.txs \in SUBSET TxIds
          /\ \A d \in batch.deps : deposits[d].status = "batching"
          /\ \A t \in batch.txs : mempool[t].status = "batching"
      BY <1>1 DEF TypeOK, BatchInv
    <3> QED
      BY <3>1, <3>2
  <2> QED
    BY <2>1, <2>2
<1>3. /\ SameDeps(deposits, deposits') /\ SameRows(mempool, mempool')
      /\ \A d \in DepIds : deposits'[d].status = IF d \in D THEN s ELSE deposits[d].status
      /\ \A t \in TxIds : mempool'[t].status = IF t \in X THEN s ELSE mempool[t].status
  BY <1>1, <1>2, StatusSet
<1>4. DepIds' = DepIds /\ TxIds' = TxIds
  BY <1>3 DEF DepIds, TxIds, SameDeps, SameRows
<1>5. /\ \A d \in DepIds : deposits'[d].status = "consumed" <=> deposits[d].status = "consumed"
      /\ \A t \in TxIds : mempool'[t].status = "included" <=> mempool[t].status = "included"
      /\ \A t \in TxIds : mempool[t].status = "rejected" => mempool'[t].status = "rejected"
  BY <1>2, <1>3
<1>6. Consumed' = Consumed /\ Included' = Included
  BY <1>4, <1>5 DEF Consumed, Included
<1>7. faults' = faults
  BY DEF InsertBatch, FailBatch
<1> QED
  BY <1>3, <1>5, <1>6, <1>7, RestatusedEvolves DEF Restatused

LEMMA EvictEvolves ==
  ASSUME AdmissionInv, Evict
  PROVE  Evolves
<1> DEFINE r == RefusedTx
           why == Attempt.error
<1>1. TypeOK /\ BatchInv /\ LedgerInv /\ RowsInv
  BY DEF AdmissionInv
<1>2. /\ building /\ why \in EvictableErrors /\ deposits' = deposits /\ faults' = faults
      /\ mempool' = [mempool EXCEPT ![r].status = "rejected", ![r].reason = why]
  BY DEF Evict
<1>3. r \in PendingTxs
  BY <1>1, <1>2, RefusedRow DEF BatchInv
<1> HIDE DEF r, why
<1>4. /\ mempool \in Seq(TxRow) /\ r \in DOMAIN mempool /\ mempool[r].status = "pending"
      /\ mempool[r] \in TxRow
  BY <1>1, <1>3 DEF TypeOK, PendingTxs, TxIds
<1>5. /\ DOMAIN mempool' = DOMAIN mempool
      /\ mempool'[r].status = "rejected" /\ mempool'[r].from = mempool[r].from
      /\ mempool'[r].to = mempool[r].to /\ mempool'[r].amount = mempool[r].amount
      /\ mempool'[r].nonce = mempool[r].nonce /\ mempool'[r].withdraw = mempool[r].withdraw
      /\ \A t \in DOMAIN mempool : t # r => mempool'[t] = mempool[t]
  BY <1>2, <1>4 DEF TxRow
<1>6. Restatused
  BY <1>2, <1>5 DEF Restatused, SameDeps, SameRows
<1>7. Consumed' = Consumed
  BY <1>2 DEF Consumed, DepIds
<1>8. Included' = Included
  BY <1>4, <1>5 DEF Included, TxIds
<1>9. \A t \in TxIds : mempool[t].status = "rejected" => mempool'[t].status = "rejected"
  BY <1>5 DEF TxIds
<1> QED
  BY <1>2, <1>6, <1>7, <1>8, <1>9, RestatusedEvolves

LEMMA NextEvolves ==
  ASSUME AdmissionInv, [Next]_vars
  PROVE  Evolves
<1>1. TypeOK
  BY DEF AdmissionInv
<1>2. CASE \E k \in Key, a \in DepositAmounts : ObserveDeposit(k, a)
  BY <1>1, <1>2, DepositEvolves
<1>3. CASE \E t \in Request : SubmitTx(t)
  BY <1>1, <1>3, SubmitEvolves
<1>4. CASE TryBuild \/ Stall \/ Land \/ Restart \/ UNCHANGED vars
  BY <1>4, QuietEvolves DEF TryBuild, Stall, Land, Restart, vars
<1>5. CASE ConfirmFault
  <2>1. faults \in Nat /\ faults' = faults + 1 /\ UNCHANGED <<deposits, mempool>>
    BY <1>1, <1>5 DEF ConfirmFault, TypeOK
  <2> QED
    BY <2>1, QuietEvolves
<1>6. CASE Evict
  BY <1>6, EvictEvolves
<1>7. CASE InsertBatch \/ FailBatch
  BY <1>7, BuildEvolves
<1>8. CASE Confirm
  <2>1. faults' = faults
    BY <1>8 DEF Confirm
  <2> QED
    BY <1>8, <2>1, ConfirmSettles, RestatusedEvolves
<1> QED
  BY <1>2, <1>3, <1>4, <1>5, <1>6, <1>7, <1>8 DEF Next

-----------------------------------------------------------------------------
(* What the API offers, and for how long.                                  *)

LEMMA RowSets ==
  ASSUME NEW rows \in Seq(TxRow), NEW X \in SUBSET DOMAIN rows
  PROVE  /\ Priced(rows, X) /\ IsFiniteSet(X)
         /\ Value(rows, X) \in Nat /\ Cardinality(X) \in Nat
BY TxRows, ValueType, FS_CardinalityType

(* An undisturbed sender's rows have all settled or will, and its account  *)
(* is known for it.                                                        *)
LEMMA NowOffered ==
  ASSUME AdmissionInv, NEW k \in Key, Holds(leaves, k), Undisturbed(k)
  PROVE  /\ tree = leaves
         /\ ExpectedNonce(k) = Cardinality(Rows(k))
         /\ AccountOf(tree, k).balance \in Nat /\ Value(mempool, LiveRows(k)) \in Nat
         /\ Value(mempool, LiveRows(k)) <= AccountOf(tree, k).balance
         /\ AccountOf(tree, k).balance - Value(mempool, LiveRows(k)) + Value(mempool, Rows(k))
              = Received(k)
<1>1. TypeOK /\ BatchInv /\ LedgerInv /\ RowsInv /\ ShadowInv
  BY DEF AdmissionInv
<1>2. faults = 0 /\ RowsOf(k, "rejected") = {}
  BY DEF Undisturbed
<1>3. tree = leaves
  BY <1>1, <1>2 DEF BatchInv
<1>4. mempool \in Seq(TxRow) /\ leaves \in Tree /\ TxIds = DOMAIN mempool
  BY <1>1 DEF TypeOK, TxIds
<1> DEFINE R == Rows(k)
           L == LiveRows(k)
           S == RowsOf(k, "included")
           a == AccountOf(leaves, k)
<1>5. R = L \cup S /\ L \cap S = {} /\ R \in SUBSET DOMAIN mempool
  <2>1. \A t \in R : mempool[t].status \in {"pending", "batching", "included"}
    <3> SUFFICES ASSUME NEW t \in R PROVE mempool[t].status \in {"pending", "batching", "included"}
      OBVIOUS
    <3>1. t \in DOMAIN mempool /\ mempool[t].from = k /\ mempool[t] \in TxRow
      BY <1>4 DEF Rows, TxsBy
    <3>2. mempool[t].status # "rejected"
      BY <1>2, <1>4, <3>1 DEF RowsOf
    <3> QED
      BY <3>1, <3>2 DEF TxRow
  <2> QED
    BY <1>4, <2>1 DEF Rows, TxsBy, LiveRows, RowsOf
<1>6. a.balance = Received(k) - Spent(k) /\ a.nonce = Cardinality(S)
  BY HistoryHolds DEF AccountsAreHistory
<1>7. a.balance \in Nat
  BY <1>4, HeldAccount
<1>8. Spent(k) = Value(mempool, S)
  BY DEF Spent
<1>9. L \in SUBSET DOMAIN mempool /\ S \in SUBSET DOMAIN mempool
  BY <1>5
<1>10. Value(mempool, L) <= a.balance
  <2>1. NoRejection(k)
    BY <1>2 DEF NoRejection
  <2> QED
    BY <1>2, <2>1, ShadowHolds DEF ShadowExact, BalanceCovers
<1> HIDE DEF R, L, S
<1>11. /\ Value(mempool, R) = Value(mempool, L) + Value(mempool, S)
       /\ Value(mempool, L) \in Nat /\ Value(mempool, S) \in Nat
       /\ Cardinality(R) = Cardinality(L) + Cardinality(S)
       /\ Cardinality(L) \in Nat /\ Cardinality(S) \in Nat
  <2>1. Priced(mempool, L) /\ IsFiniteSet(L) /\ Cardinality(L) \in Nat
    BY <1>4, <1>9, RowSets
  <2>2. Priced(mempool, S) /\ IsFiniteSet(S) /\ Cardinality(S) \in Nat
    BY <1>4, <1>9, RowSets
  <2>3. /\ Value(mempool, L \cup S) = Value(mempool, L) + Value(mempool, S)
        /\ Value(mempool, L) \in Nat /\ Value(mempool, S) \in Nat
    BY <1>5, <2>1, <2>2, ValueUnion
  <2>4. Cardinality(L \cup S) = Cardinality(L) + Cardinality(S) - Cardinality(L \cap S)
    BY <2>1, <2>2, FS_Union
  <2>5. Cardinality(L \cap S) = 0
    BY <1>5, FS_EmptySet
  <2>6. Cardinality(L \cup S) = Cardinality(L) + Cardinality(S)
    BY <2>1, <2>2, <2>4, <2>5
  <2> QED
    BY <1>5, <2>1, <2>2, <2>3, <2>6
<1>12. ExpectedNonce(k) = Cardinality(R)
  <2>1. ExpectedNonce(k) = a.nonce + Cardinality(L)
    BY <1>3 DEF ExpectedNonce, L
  <2> HIDE DEF a
  <2> QED
    BY <1>6, <1>11, <2>1
<1> HIDE DEF a
<1>13. a.balance - Value(mempool, L) + Value(mempool, R) = Received(k)
  <2> DEFINE b == a.balance
             v == Value(mempool, R)
             l == Value(mempool, L)
             s == Value(mempool, S)
             q == Received(k)
  <2>1. b = q - s /\ v = l + s /\ l \in Nat /\ s \in Nat /\ b \in Nat
    BY <1>6, <1>7, <1>8, <1>11
  <2>2. q \in Nat
    <3>1. q = Value(deposits, DepsTo(deposits, Consumed, k)) + Value(mempool, TxsTo(mempool, Included, k))
      BY DEF Received, DepsTo, TxsTo, Consumed, Included
    <3>2. DepsTo(deposits, Consumed, k) \in SUBSET DOMAIN deposits
      BY DEF DepsTo, Consumed, DepIds
    <3>3. Included \in SUBSET DOMAIN mempool
      BY DEF Included, TxIds
    <3>4. deposits \in Seq(DepRow)
      BY <1>1 DEF TypeOK
    <3>5. Value(deposits, DepsTo(deposits, Consumed, k)) \in Nat
      BY <3>2, <3>4, DepRows, ValueType
    <3>6. Value(mempool, TxsTo(mempool, Included, k)) \in Nat
      BY <1>4, <3>3, RowNumbers
    <3> QED
      BY <3>1, <3>5, <3>6
  <2> HIDE DEF b, v, l, s, q
  <2>3. b - l + v = q
    BY <2>1, <2>2
  <2> QED
    BY <2>3 DEF b, v, l, q
<1> QED
  BY <1>3, <1>7, <1>10, <1>11, <1>12, <1>13 DEF R, L, a

-----------------------------------------------------------------------------
(* The steps of Client are steps of Mempool, and history follows them.     *)

LEMMA OnlyConfirmSettles ==
  ASSUME Background \/ (\E t \in Request : SubmitTx(t)) \/ UNCHANGED vars
  PROVE  ~Confirm
<1> SUFFICES ASSUME Confirm PROVE FALSE
  OBVIOUS
<1>1. batch.status = "landed" /\ batch'.status = "none"
  BY DEF Confirm, Replays, NoBatch
<1>2. batch' # batch /\ batch # NoBatch
  BY <1>1 DEF NoBatch
<1>3. CASE \E k \in Key, a \in DepositAmounts : ObserveDeposit(k, a)
  BY <1>2, <1>3 DEF ObserveDeposit
<1>4. CASE \E t \in Request : SubmitTx(t)
  BY <1>2, <1>4 DEF SubmitTx
<1>5. CASE UNCHANGED vars
  BY <1>2, <1>5 DEF vars
<1>6. CASE TryBuild \/ Evict \/ Stall \/ ConfirmFault \/ Restart
  BY <1>2, <1>6 DEF TryBuild, Evict, Stall, ConfirmFault, Restart
<1>7. CASE InsertBatch
  BY <1>1, <1>7 DEF InsertBatch
<1>8. CASE FailBatch \/ Land
  BY <1>1, <1>8 DEF FailBatch, Land
<1> QED
  BY <1>3, <1>4, <1>5, <1>6, <1>7, <1>8 DEF Background

LEMMA QuietHistory ==
  ASSUME AdmissionInv, HistoryInv, Evolves, ~Confirm, history' = history
  PROVE  HistoryInv'
<1>1. /\ KeepsDeps(deposits, deposits') /\ KeepsRows(mempool, mempool')
      /\ Consumed' = Consumed /\ Included' = Included
  BY DEF Evolves
<1>2. Consumed \in SUBSET DOMAIN deposits /\ Included \in SUBSET DOMAIN mempool
  BY DEF Consumed, Included, DepIds, TxIds
<1>3. history \in Seq(HistoryRow) /\ Lists(history, deposits, Consumed, mempool, Included)
  BY DEF HistoryInv
<1>4. Lists(history, deposits', Consumed, mempool', Included)
  BY <1>1, <1>2, <1>3, ListsKept
<1> QED
  BY <1>1, <1>3, <1>4 DEF HistoryInv

LEMMA ConfirmHistory ==
  ASSUME AdmissionInv, HistoryInv, ConfirmBatch
  PROVE  HistoryInv'
<1> DEFINE C == Consumed
           X == Included
           D == batch.deps
           E == batch.txs
           s == [i \in DOMAIN InOrder(D) |-> DepositEntries(InOrder(D)[i])]
           r == [i \in DOMAIN InOrder(E) |-> TxEntries(InOrder(E)[i])]
           mid == history \o FlattenSeq(s)
           end == mid \o FlattenSeq(r)
<1>1. Confirm /\ history' = end
  BY DEF ConfirmBatch
<1>2. /\ Restatused /\ Consumed' = C \cup D /\ Included' = X \cup E
      /\ D \in SUBSET (DepIds \ C) /\ E \in SUBSET (TxIds \ X)
  BY <1>1, ConfirmSettles
<1>3. deposits \in Seq(DepRow) /\ mempool \in Seq(TxRow) /\ WellFormed(mempool)
  BY DEF AdmissionInv, TypeOK, RowsInv
<1>4. C \in SUBSET DepIds /\ X \in SUBSET TxIds
  BY DEF Consumed, Included
<1>5. history \in Seq(HistoryRow) /\ Lists(history, deposits, C, mempool, X)
  BY DEF HistoryInv
<1>6. DepIds = DOMAIN deposits /\ TxIds = DOMAIN mempool
  BY DEF DepIds, TxIds
<1> HIDE DEF C, X, D, E
<1>7. mid \in Seq(HistoryRow) /\ Lists(mid, deposits, C \cup D, mempool, X)
  <2>1. s = [i \in DOMAIN InOrder(D) |-> DepositEntries(InOrder(D)[i])]
    OBVIOUS
  <2>2. X \in SUBSET DOMAIN mempool
    BY <1>4, <1>6
  <2> HIDE DEF s
  <2> QED
    BY <1>2, <1>3, <1>4, <1>5, <2>1, <2>2, DepositsListed
<1> HIDE DEF mid
<1>8. end \in Seq(HistoryRow) /\ Lists(end, deposits, C \cup D, mempool, X \cup E)
  <2>1. r = [i \in DOMAIN InOrder(E) |-> TxEntries(InOrder(E)[i])]
    OBVIOUS
  <2>2. C \cup D \in SUBSET DOMAIN deposits
    BY <1>2, <1>4, <1>6
  <2> HIDE DEF r
  <2> QED
    BY <1>2, <1>3, <1>4, <1>7, <2>1, <2>2, TxsListed
<1> HIDE DEF end
<1>9. KeepsDeps(deposits, deposits') /\ KeepsRows(mempool, mempool')
  BY <1>2 DEF Restatused, SameDeps, SameRows, KeepsDeps, KeepsRows
<1>10. Lists(end, deposits', C \cup D, mempool', X \cup E)
  <2>1. C \cup D \in SUBSET DOMAIN deposits /\ X \cup E \in SUBSET DOMAIN mempool
    BY <1>2, <1>4, <1>6
  <2> QED
    BY <1>8, <1>9, <2>1, ListsKept
<1> QED
  BY <1>1, <1>2, <1>8, <1>10 DEF HistoryInv

LEMMA ClientStep ==
  ASSUME ClientTypeOK, [ClientNext]_allVars
  PROVE  [Next]_vars
<1>1. CASE Background
  BY <1>1 DEF Background, Next
<1>2. CASE ConfirmBatch
  BY <1>2 DEF ConfirmBatch, Next
<1>3. CASE \E w \in User : Refetch(w) \/ LoseAnswer(w)
  BY <1>3 DEF Refetch, LoseAnswer
<1>4. CASE \E w \in User, to \in Key \cup {NoKey}, a \in TxAmounts : Send(w, to, a)
  BY <1>4 DEF Send
<1>5. ASSUME NEW r \in wire, Post(r) PROVE [Next]_vars
  <2>1. r.tx \in Request
    BY DEF ClientTypeOK
  <2>2. Resubmitted(r) \/ Admitted(r) \/ TurnedDown(r)
    BY <1>5 DEF Post
  <2>3. SubmitTx(r.tx) \/ UNCHANGED vars
    BY <2>2 DEF Resubmitted, Admitted, TurnedDown
  <2> QED
    BY <2>1, <2>3 DEF Next
<1>6. CASE \E r \in wire : Limited(r)
  BY <1>6 DEF Limited
<1>7. CASE UNCHANGED allVars
  BY <1>7 DEF allVars
<1> QED
  BY <1>1, <1>2, <1>3, <1>4, <1>5, <1>6, <1>7 DEF ClientNext

(* What an account received, it received.                                  *)
Kept(deps, deps2, D, D2, rows, rows2, X, X2, k) ==
  /\ Value(deps, DepsTo(deps, D, k)) + Value(rows, TxsTo(rows, X, k)) \in Nat
  /\ Value(deps, DepsTo(deps, D, k)) + Value(rows, TxsTo(rows, X, k))
       <= Value(deps2, DepsTo(deps2, D2, k)) + Value(rows2, TxsTo(rows2, X2, k))
  /\ DepsTo(deps, D, k) \subseteq DepsTo(deps2, D2, k)

LEMMA ReceivedKept ==
  ASSUME NEW deps \in Seq(DepRow), NEW deps2 \in Seq(DepRow), KeepsDeps(deps, deps2),
         NEW rows \in Seq(TxRow), NEW rows2 \in Seq(TxRow), KeepsRows(rows, rows2),
         NEW D \in SUBSET DOMAIN deps, NEW D2 \in SUBSET DOMAIN deps2, D \subseteq D2,
         NEW X \in SUBSET DOMAIN rows, NEW X2 \in SUBSET DOMAIN rows2, X \subseteq X2,
         NEW k
  PROVE  Kept(deps, deps2, D, D2, rows, rows2, X, X2, k)
<1> DEFINE A == DepsTo(deps, D, k)
           A2 == DepsTo(deps2, D2, k)
           B == TxsTo(rows, X, k)
           B2 == TxsTo(rows2, X2, k)
<1>1. A \in SUBSET DOMAIN deps /\ A2 \in SUBSET DOMAIN deps2 /\ A \in SUBSET A2
  BY DEF DepsTo, KeepsDeps
<1>2. B \in SUBSET DOMAIN rows /\ B2 \in SUBSET DOMAIN rows2 /\ B \in SUBSET B2
  BY DEF TxsTo, KeepsRows
<1> HIDE DEF A, A2, B, B2
<1>3. Value(deps2, A) = Value(deps, A) /\ Value(rows2, B) = Value(rows, B)
  <2>1. \A d \in A : deps2[d].amount = deps[d].amount
    BY <1>1 DEF KeepsDeps
  <2>2. \A t \in B : rows2[t].amount = rows[t].amount
    BY <1>2 DEF KeepsRows
  <2> QED
    BY <2>1, <2>2, ValueSame
<1>4. Value(deps2, A) <= Value(deps2, A2) /\ Value(deps2, A) \in Nat /\ Value(deps2, A2) \in Nat
  <2>1. Priced(deps2, A2)
    BY <1>1, DepRows
  <2> QED
    BY <1>1, <2>1, ValuePart, ValueType
<1>5. Value(rows2, B) <= Value(rows2, B2) /\ Value(rows2, B) \in Nat /\ Value(rows2, B2) \in Nat
  <2>1. Priced(rows2, B2)
    BY <1>2, TxRows
  <2> QED
    BY <1>2, <2>1, ValuePart, ValueType
<1> DEFINE a == Value(deps, A)
           a2 == Value(deps2, A2)
           b == Value(rows, B)
           b2 == Value(rows2, B2)
<1>6. a <= a2 /\ a \in Nat /\ a2 \in Nat /\ b <= b2 /\ b \in Nat /\ b2 \in Nat
  BY <1>3, <1>4, <1>5
<1> HIDE DEF a, a2, b, b2
<1>7. a + b <= a2 + b2 /\ a + b \in Nat
  BY <1>6
<1> QED
  BY <1>1, <1>7 DEF Kept, a, a2, b, b2, A, A2, B, B2

LEMMA ReceivedIs ==
  ASSUME NEW k
  PROVE  Received(k) = Value(deposits, DepsTo(deposits, Consumed, k))
                         + Value(mempool, TxsTo(mempool, Included, k))
BY DEF Received, DepsTo, TxsTo, Consumed, Included

LEMMA NothingTakenBack ==
  ASSUME AdmissionInv, AdmissionInv', Evolves, NEW k \in Key
  PROVE  /\ Received(k) \in Nat /\ Received(k) <= Received(k)'
         /\ Holds(leaves, k) => Holds(leaves', k)
<1>1. /\ deposits \in Seq(DepRow) /\ mempool \in Seq(TxRow)
      /\ deposits' \in Seq(DepRow) /\ mempool' \in Seq(TxRow)
  BY DEF AdmissionInv, TypeOK
<1>2. /\ KeepsDeps(deposits, deposits') /\ KeepsRows(mempool, mempool')
      /\ Consumed \subseteq Consumed' /\ Included \subseteq Included'
  BY DEF Evolves
<1>3. /\ Consumed \in SUBSET DOMAIN deposits /\ Included \in SUBSET DOMAIN mempool
      /\ Consumed' \in SUBSET DOMAIN deposits' /\ Included' \in SUBSET DOMAIN mempool'
  BY DEF Consumed, Included, DepIds, TxIds
<1>4. Kept(deposits, deposits', Consumed, Consumed', mempool, mempool', Included, Included', k)
  BY <1>1, <1>2, <1>3, ReceivedKept
<1>5. Received(k) = Value(deposits, DepsTo(deposits, Consumed, k))
                      + Value(mempool, TxsTo(mempool, Included, k))
  BY ReceivedIs
<1>6. Received(k)' = Value(deposits', DepsTo(deposits', Consumed', k))
                       + Value(mempool', TxsTo(mempool', Included', k))
  BY DEF Received, DepsTo, TxsTo, Consumed, Included
<1>7. Holds(leaves, k) <=> DepsTo(deposits, Consumed, k) # {}
  BY DEF AdmissionInv, LedgerInv, Ledger
<1>8. Holds(leaves', k) <=> DepsTo(deposits', Consumed', k) # {}
  BY DEF AdmissionInv, LedgerInv, Ledger
<1> QED
  BY <1>4, <1>5, <1>6, <1>7, <1>8 DEF Kept

LEMMA UndisturbedBefore ==
  ASSUME Evolves, NEW k, Undisturbed(k)'
  PROVE  Undisturbed(k)
<1>1. faults' = 0 /\ {t \in DOMAIN mempool' : mempool'[t].from = k /\ mempool'[t].status = "rejected"} = {}
  BY DEF Undisturbed, RowsOf, TxIds
<1>2. /\ faults' = 0 => faults = 0
      /\ DOMAIN mempool \subseteq DOMAIN mempool'
      /\ \A t \in DOMAIN mempool : mempool'[t].from = mempool[t].from
      /\ \A t \in DOMAIN mempool : mempool[t].status = "rejected" => mempool'[t].status = "rejected"
  BY DEF Evolves, KeepsRows, TxIds
<1> QED
  BY <1>1, <1>2 DEF Undisturbed, RowsOf, TxIds

LEMMA RowsGrow ==
  ASSUME AdmissionInv, AdmissionInv', Evolves, NEW k
  PROVE  /\ Cardinality(Rows(k)) \in Nat /\ Cardinality(Rows(k))' \in Nat
         /\ Cardinality(Rows(k)) <= Cardinality(Rows(k))'
         /\ Cardinality(Rows(k)) = Cardinality(Rows(k))' =>
              Rows(k)' = Rows(k) /\ Value(mempool, Rows(k))' = Value(mempool, Rows(k))
         /\ Value(mempool, Rows(k)) \in Nat
<1> DEFINE R == TxsBy(mempool, DOMAIN mempool, k)
           R2 == TxsBy(mempool', DOMAIN mempool', k)
<1>1. mempool \in Seq(TxRow) /\ mempool' \in Seq(TxRow) /\ KeepsRows(mempool, mempool')
  BY DEF AdmissionInv, TypeOK, Evolves
<1>2. R \in SUBSET R2 /\ R \in SUBSET DOMAIN mempool /\ R2 \in SUBSET DOMAIN mempool'
  BY <1>1 DEF TxsBy, KeepsRows
<1>3. Rows(k) = R /\ Rows(k)' = R2
  BY DEF Rows, TxIds
<1> HIDE DEF R, R2
<1>4. /\ IsFiniteSet(R) /\ IsFiniteSet(R2) /\ Cardinality(R) \in Nat /\ Cardinality(R2) \in Nat
      /\ Value(mempool, R) \in Nat
  BY <1>1, <1>2, RowSets
<1>5. Cardinality(R) <= Cardinality(R2) /\ (Cardinality(R2) = Cardinality(R) => R2 = R)
  BY <1>2, <1>4, FS_Subset
<1>6. Value(mempool', R) = Value(mempool, R)
  <2>1. \A t \in R : mempool'[t].amount = mempool[t].amount
    BY <1>1, <1>2 DEF KeepsRows
  <2> QED
    BY <2>1, ValueSame
<1> QED
  BY <1>3, <1>4, <1>5, <1>6

(* An offer that was good stays good.                                      *)
LEMMA OfferKept ==
  ASSUME AdmissionInv, AdmissionInv', Evolves, NEW k \in Key,
         NEW rows, NEW nonce, NEW amount \in Int, Offered(k, rows, nonce, amount)
  PROVE  Offered(k, rows, nonce, amount)'
<1> DEFINE c == Cardinality(Rows(k))
           v == Value(mempool, Rows(k))
           q == Received(k)
<1>1. /\ rows \in Nat /\ rows <= c
      /\ Undisturbed(k) => /\ Holds(leaves, k) /\ nonce = rows
                           /\ rows = c => amount + v <= q
  BY DEF Offered
<1>2. c \in Nat /\ c' \in Nat /\ c <= c' /\ (c = c' => v' = v) /\ v \in Nat
  BY RowsGrow
<1>3. q \in Nat /\ q <= q' /\ (Holds(leaves, k) => Holds(leaves', k))
  BY NothingTakenBack
<1>4. q' \in Nat
  <2>1. \A D \in SUBSET DOMAIN deposits' : Value(deposits', D) \in Nat
    BY DepRows, ValueType DEF AdmissionInv, TypeOK
  <2>2. \A X \in SUBSET DOMAIN mempool' : Value(mempool', X) \in Nat
    BY TxRows, ValueType DEF AdmissionInv, TypeOK
  <2> DEFINE D == {d \in DepIds' : deposits'[d].to = k /\ deposits'[d].status = "consumed"}
             X == {t \in TxIds' : mempool'[t].to = k /\ mempool'[t].status = "included"}
  <2>3. D \in SUBSET DOMAIN deposits' /\ X \in SUBSET DOMAIN mempool'
    BY DEF DepIds, TxIds
  <2>4. q' = Value(deposits', D) + Value(mempool', X)
    BY DEF Received
  <2> HIDE DEF D, X, q
  <2> QED
    BY <2>1, <2>2, <2>3, <2>4
<1>5. Undisturbed(k)' => Undisturbed(k)
  BY UndisturbedBefore
<1>6. Offered(k, rows, nonce, amount)' <=>
        /\ rows \in Nat /\ rows <= c'
        /\ Undisturbed(k)' => /\ Holds(leaves', k) /\ nonce = rows
                              /\ rows = c' => amount + v' <= q'
  BY DEF Offered
<1> HIDE DEF c, v, q
<1>7. rows <= c' /\ (rows = c' => rows = c)
  BY <1>1, <1>2
<1>8. rows = c /\ c = c' /\ amount + v <= q => amount + v' <= q'
  BY <1>2, <1>3, <1>4
<1> QED
  BY <1>1, <1>3, <1>5, <1>6, <1>7, <1>8

(* What GET /account answers is such an offer.                             *)
GoodView(a, k) ==
  a # <<>> => /\ a[1] \in AccountRow
              /\ Offered(k, a[1].rows, a[1].pending_nonce, a[1].balance - a[1].pending_out)

LEMMA FewRows ==
  ASSUME OneRowEach, NEW S \in SUBSET TxIds
  PROVE  Cardinality(S) \in 0 .. MaxRows
<1>1. S \in SUBSET (1 .. MaxRows) /\ MaxRows \in Nat
  BY MempoolAssumption DEF OneRowEach
<1>2. IsFiniteSet(1 .. MaxRows) /\ Cardinality(1 .. MaxRows) = MaxRows
  BY <1>1, FS_Interval
<1>3. Cardinality(S) <= MaxRows /\ Cardinality(S) \in Nat
  BY <1>1, <1>2, FS_Subset, FS_CardinalityType
<1> QED
  BY <1>1, <1>3

LEMMA InfoGood ==
  ASSUME AdmissionInv, OneRowEach, NEW k \in Key
  PROVE  GoodView(AccountInfo(k), k)
<1> SUFFICES ASSUME Holds(tree, k) PROVE GoodView(AccountInfo(k), k)
  BY DEF AccountInfo, GoodView
<1>1. TypeOK /\ BatchInv /\ LedgerInv
  BY DEF AdmissionInv
<1> DEFINE acc == AccountOf(tree, k)
           L == LiveRows(k)
           out == Value(mempool, L)
           v == [balance |-> acc.balance, pending_nonce |-> ExpectedNonce(k),
                 pending_out |-> out, rows |-> Cardinality(Rows(k))]
<1>2. AccountInfo(k) = <<v>>
  BY DEF AccountInfo, Rows, TxsBy
<1>3. mempool \in Seq(TxRow) /\ L \in SUBSET DOMAIN mempool /\ L \in SUBSET TxIds
  BY <1>1 DEF TypeOK, LiveRows, TxIds
<1>4. Rows(k) \in SUBSET DOMAIN mempool
  BY DEF Rows, TxsBy, TxIds
<1>5. out \in Nat /\ Cardinality(L) \in 0 .. MaxRows /\ Cardinality(Rows(k)) \in Nat
  BY <1>3, <1>4, RowSets, FewRows
<1>6. acc.balance \in Nat /\ acc.nonce \in Nat
  BY <1>1, HeldAccount DEF TypeOK
<1>7. acc.nonce \in 0 .. MaxRows
  <2>1. \E D, X : X \in SUBSET TxIds /\ Ledger(tree, deposits, D, mempool, X)
    <3>1. Included \in SUBSET TxIds /\ batch.txs \in SUBSET TxIds
      BY <1>1 DEF Included, TypeOK
    <3>2. CASE tree = leaves
      BY <1>1, <3>1, <3>2 DEF LedgerInv
    <3>3. CASE tree = batch.new /\ batch.status = "landed"
      BY <1>1, <3>1, <3>3 DEF LedgerInv
    <3> QED
      BY <1>1, <3>2, <3>3 DEF BatchInv
  <2>2. PICK D, X : X \in SUBSET TxIds /\ Ledger(tree, deposits, D, mempool, X)
    BY <2>1
  <2>3. Explains(acc, k, deposits, D, mempool, X)
    BY <1>1, <2>2, HeldExplained DEF TypeOK
  <2>4. TxsBy(mempool, X, k) \in SUBSET TxIds
    BY <2>2 DEF TxsBy
  <2>5. acc.nonce = Cardinality(TxsBy(mempool, X, k))
    BY <2>3 DEF Explains
  <2> QED
    BY <2>4, <2>5, FewRows
<1>8. ExpectedNonce(k) = acc.nonce + Cardinality(L)
  BY DEF ExpectedNonce
<1> HIDE DEF acc, L
<1>9. ExpectedNonce(k) \in 0 .. 2 * MaxRows
  BY <1>5, <1>7, <1>8, MempoolAssumption
<1>10. ASSUME Undisturbed(k)
       PROVE  /\ Holds(leaves, k) /\ ExpectedNonce(k) = Cardinality(Rows(k))
              /\ acc.balance - out + Value(mempool, Rows(k)) <= Received(k)
  <2>1. tree = leaves
    BY <1>1, <1>10 DEF BatchInv, Undisturbed
  <2>2. /\ ExpectedNonce(k) = Cardinality(Rows(k))
        /\ acc.balance - out + Value(mempool, Rows(k)) = Received(k)
    BY <1>10, <2>1, NowOffered DEF acc, L
  <2>3. Value(mempool, Rows(k)) \in Nat
    BY <1>3, <1>4, RowSets
  <2> DEFINE x == Value(mempool, Rows(k))
             b == acc.balance
             q == Received(k)
  <2>4. b - out + x = q /\ b \in Nat /\ out \in Nat /\ x \in Nat
    BY <1>5, <1>6, <2>2, <2>3
  <2> HIDE DEF x, b, q, out
  <2>5. b - out + x <= q
    BY <2>4
  <2> QED
    BY <2>1, <2>2, <2>5 DEF x, b, q
<1> DEFINE r == Cardinality(Rows(k))
           n == ExpectedNonce(k)
           b == acc.balance
<1>11. Offered(k, r, n, b - out)
  <2>1. r \in Nat /\ r <= Cardinality(Rows(k))
    BY <1>5
  <2> QED
    BY <1>10, <2>1 DEF Offered
<1> HIDE DEF out, r, n, b
<1>12. v = [balance |-> b, pending_nonce |-> n, pending_out |-> out, rows |-> r]
  BY DEF r, n, b
<1>13. b \in Nat /\ n \in 0 .. 2 * MaxRows /\ out \in Nat /\ r \in Nat
  BY <1>5, <1>6, <1>9 DEF b, n, r
<1> HIDE DEF v
<1>14. v \in AccountRow /\ v.rows = r /\ v.pending_nonce = n /\ v.balance = b /\ v.pending_out = out
  BY <1>12, <1>13 DEF AccountRow
<1>15. AccountInfo(k)[1] = v
  BY <1>2
<1> QED
  BY <1>11, <1>14, <1>15 DEF GoodView

LEMMA ViewGood ==
  ASSUME ViewInv, NEW w \in User, NEW a, a = view[w]
  PROVE  GoodView(a, w)
BY DEF ViewInv, GoodView

LEMMA ViewKept ==
  ASSUME AdmissionInv, AdmissionInv', Evolves, ViewInv, NEW w \in User, view'[w] = view[w]
  PROVE  view'[w] # <<>> =>
           /\ view'[w][1] \in AccountRow
           /\ Offered(w, view[w][1].rows, view[w][1].pending_nonce,
                      view[w][1].balance - view[w][1].pending_out)'
<1> SUFFICES ASSUME view[w] # <<>>
             PROVE  /\ view'[w][1] \in AccountRow
                    /\ Offered(w, view[w][1].rows, view[w][1].pending_nonce,
                               view[w][1].balance - view[w][1].pending_out)'
  OBVIOUS
<1>1. PICK v : v = view[w][1]
  OBVIOUS
<1>2. v \in AccountRow /\ Offered(w, v.rows, v.pending_nonce, v.balance - v.pending_out)
  BY <1>1 DEF ViewInv
<1>3. PICK r, n, m : r = v.rows /\ n = v.pending_nonce /\ m = v.balance - v.pending_out
  OBVIOUS
<1>4. m \in Int /\ w \in Key
  BY <1>2, <1>3, ClientAssumption DEF AccountRow
<1>5. Offered(w, r, n, m)
  BY <1>2, <1>3
<1>6. Offered(w, r, n, m)'
  BY <1>4, <1>5, OfferKept
<1>7. view'[w][1] = v
  BY <1>1
<1> QED
  BY <1>2, <1>3, <1>6, <1>7 DEF Offered

LEMMA ViewsKept ==
  ASSUME AdmissionInv, AdmissionInv', Evolves, ViewInv, view' = view
  PROVE  ViewInv'
<1> SUFFICES ASSUME NEW w \in User
             PROVE  view'[w] # <<>> =>
                      /\ view'[w][1] \in AccountRow
                      /\ Offered(w, view[w][1].rows, view[w][1].pending_nonce,
                                 view[w][1].balance - view[w][1].pending_out)'
  BY DEF ViewInv
<1> QED
  BY ViewKept

LEMMA ViewRefetched ==
  ASSUME AdmissionInv, AdmissionInv', Evolves, OneRowEach, ClientTypeOK, ViewInv,
         NEW u \in User, Refetch(u)
  PROVE  ViewInv'
<1> SUFFICES ASSUME NEW w \in User
             PROVE  view'[w] # <<>> =>
                      /\ view'[w][1] \in AccountRow
                      /\ Offered(w, view[w][1].rows, view[w][1].pending_nonce,
                                 view[w][1].balance - view[w][1].pending_out)'
  BY DEF ViewInv
<1>1. view' = [view EXCEPT ![u] = AccountInfo(u)] /\ DOMAIN view = User
  BY DEF Refetch, ClientTypeOK
<1>2. CASE w # u
  <2>1. view'[w] = view[w]
    BY <1>1, <1>2
  <2> QED
    BY <2>1, ViewKept
<1>3. CASE w = u
  <2>1. PICK a : a = AccountInfo(w)
    OBVIOUS
  <2>2. view'[w] = a /\ GoodView(a, w) /\ w \in Key
    BY <1>1, <1>3, <2>1, InfoGood, ClientAssumption
  <2> SUFFICES ASSUME a # <<>>
               PROVE  /\ view'[w][1] \in AccountRow
                      /\ Offered(w, view[w][1].rows, view[w][1].pending_nonce,
                                 view[w][1].balance - view[w][1].pending_out)'
    BY <2>2
  <2>3. PICK r, n, m :
          r = a[1].rows /\ n = a[1].pending_nonce /\ m = a[1].balance - a[1].pending_out
    OBVIOUS
  <2>4. a[1] \in AccountRow /\ Offered(w, r, n, m)
    BY <2>2, <2>3 DEF GoodView
  <2>5. m \in Int
    BY <2>3, <2>4 DEF AccountRow
  <2>6. Offered(w, r, n, m)'
    BY <2>2, <2>4, <2>5, OfferKept
  <2> QED
    BY <2>2, <2>3, <2>4, <2>6 DEF Offered
<1> QED
  BY <1>2, <1>3

(* A payment asks for no more than it was offered.                         *)
GoodPost(r) == r.tx.from = r.by /\ Offered(r.by, r.rows, r.tx.nonce, r.tx.amount)

LEMMA PostKept ==
  ASSUME AdmissionInv, AdmissionInv', Evolves, ClientTypeOK, WireInv, NEW r \in wire
  PROVE  GoodPost(r)'
<1>1. r.by \in Key /\ r.tx \in Request
  BY ClientAssumption DEF ClientTypeOK
<1>2. r.tx.amount \in Int
  <2>1. \A t \in Request : t.amount \in TxAmounts
    BY DEF Request
  <2>2. TxAmounts \subseteq Nat
    BY MempoolAssumption
  <2>3. r.tx.amount \in Nat
    BY <1>1, <2>1, <2>2, Zenon
  <2> QED
    BY <2>3
<1>3. r.tx.from = r.by /\ Offered(r.by, r.rows, r.tx.nonce, r.tx.amount)
  BY DEF WireInv
<1>4. PICK k, n, m, c : k = r.by /\ n = r.rows /\ m = r.tx.nonce /\ c = r.tx.amount
  OBVIOUS
<1>5. Offered(k, n, m, c) /\ k \in Key /\ c \in Int
  BY <1>1, <1>2, <1>3, <1>4
<1>6. Offered(k, n, m, c)'
  BY <1>5, OfferKept
<1> QED
  BY <1>3, <1>4, <1>6 DEF GoodPost

LEMMA WireKept ==
  ASSUME AdmissionInv, AdmissionInv', Evolves, ClientTypeOK, WireInv, wire' \subseteq wire
  PROVE  WireInv'
<1>1. \A r \in wire : GoodPost(r)'
  BY PostKept
<1> QED
  BY <1>1 DEF WireInv, GoodPost

LEMMA SendGood ==
  ASSUME AdmissionInv, AdmissionInv', Evolves, ClientTypeOK, WireInv, ViewInv,
         NEW w \in User, NEW to \in Key \cup {NoKey}, NEW a \in TxAmounts, Send(w, to, a)
  PROVE  /\ WireInv'
         /\ \A r \in wire' : r.by \in User /\ r.tx \in Request /\ r.post \in 1 .. posts + 1
<1>1. PICK v : v = view[w][1]
  OBVIOUS
<1>2. PICK n, m, c : n = v.rows /\ m = v.pending_nonce /\ c = v.balance - v.pending_out
  OBVIOUS
<1>3. PICK p : p = posts + 1
  OBVIOUS
<1> DEFINE t == [from |-> w, to |-> to, amount |-> a, nonce |-> m, withdraw |-> to = NoKey]
           new == [post |-> p, by |-> w, tx |-> t, rows |-> n]
<1>4. wire' = wire \cup {new} /\ view[w] # <<>> /\ a <= c
  BY <1>1, <1>2, <1>3 DEF Send
<1>5. v \in AccountRow /\ Offered(w, n, m, c)
  BY <1>1, <1>2, <1>4 DEF ViewInv
<1>6. c \in Int /\ a \in Int /\ m \in 0 .. 2 * MaxRows /\ w \in Key
  BY <1>2, <1>5, MempoolAssumption, ClientAssumption DEF AccountRow
<1>7. Offered(w, n, m, a)
  <2>1. PICK x, y : x = Value(mempool, Rows(w)) /\ y = Received(w)
    OBVIOUS
  <2>2. x \in Nat /\ y \in Nat
    <3>1. x \in Nat
      BY <2>1, RowsGrow
    <3>2. y \in Nat
      BY <1>6, <2>1, NothingTakenBack
    <3> QED
      BY <3>1, <3>2
  <2>3. c + x <= y => a + x <= y
    BY <1>4, <1>6, <2>2
  <2> QED
    BY <1>5, <2>1, <2>3 DEF Offered
<1>8. Offered(w, n, m, a)'
  BY <1>6, <1>7, OfferKept
<1>9. t \in Request
  BY <1>6 DEF Request
<1>10. new.by = w /\ new.tx = t /\ new.rows = n /\ new.post = p
       /\ t.from = w /\ t.nonce = m /\ t.amount = a
  OBVIOUS
<1> HIDE DEF new, t
<1>11. GoodPost(new)'
  <2>1. PICK r : r = new
    OBVIOUS
  <2>2. GoodPost(r)'
    BY <1>8, <1>10, <2>1 DEF GoodPost
  <2> QED
    BY <2>1, <2>2
<1>12. \A r \in wire : GoodPost(r)'
  BY PostKept
<1>13. \A r \in wire' : GoodPost(r)'
  BY <1>4, <1>11, <1>12
<1>14. WireInv'
  BY <1>13 DEF WireInv, GoodPost
<1>15. posts \in Nat /\ \A r \in wire : r.by \in User /\ r.tx \in Request /\ r.post \in 1 .. posts
  BY DEF ClientTypeOK
<1>16. new.post \in 1 .. posts + 1
  BY <1>3, <1>10, <1>15
<1>17. \A r \in wire : r.post \in 1 .. posts + 1
  BY <1>15
<1> QED
  BY <1>4, <1>9, <1>10, <1>14, <1>15, <1>16, <1>17

-----------------------------------------------------------------------------
(* What the Send page shows.                                               *)

GoodScreen(s, k) ==
  /\ s.state = "sent" =>
       /\ RowFor(s.tx) = {s.id}
       /\ s.fresh /\ Undisturbed(k)
            => <<mempool[s.id].to, mempool[s.id].amount>> = <<s.tx.to, s.tx.amount>>
  /\ s.state = "failed" =>
       (s.fresh /\ Undisturbed(k) => s.code \in {"RATE_LIMITED", "RECIPIENT_UNKNOWN"})

LEMMA ScreensGood ==
  ReceiptIsOwn /\ FreshNotRefused <=> \A w \in User : GoodScreen(screen[w], w)
BY DEF ReceiptIsOwn, FreshNotRefused, GoodScreen, Undisturbed

LEMMA ScreenKept ==
  ASSUME Evolves, OneRowEach', NEW k, NEW s, GoodScreen(s, k)
  PROVE  GoodScreen(s, k)'
<1>1. Undisturbed(k)' => Undisturbed(k)
  BY UndisturbedBefore
<1>2. /\ DOMAIN mempool \subseteq DOMAIN mempool'
      /\ \A t \in DOMAIN mempool :
           /\ mempool'[t].from = mempool[t].from /\ mempool'[t].nonce = mempool[t].nonce
           /\ mempool'[t].to = mempool[t].to /\ mempool'[t].amount = mempool[t].amount
  BY DEF Evolves, KeepsRows
<1>3. CASE s.state = "sent"
  <2>1. s.id \in DOMAIN mempool /\ mempool[s.id].from = s.tx.from /\ mempool[s.id].nonce = s.tx.nonce
    <3>1. s.id \in RowFor(s.tx)
      BY <1>3 DEF GoodScreen
    <3> QED
      BY <3>1 DEF RowFor, TxIds
  <2>2. RowFor(s.tx)' = {s.id}
    <3>1. s.id \in RowFor(s.tx)'
      BY <1>2, <2>1 DEF RowFor, TxIds
    <3>2. \A u \in RowFor(s.tx)' : u = s.id
      BY <3>1 DEF RowFor, OneRowEach
    <3> QED
      BY <3>1, <3>2
  <2>3. mempool'[s.id].to = mempool[s.id].to /\ mempool'[s.id].amount = mempool[s.id].amount
    BY <1>2, <2>1
  <2>4. s.fresh /\ Undisturbed(k)'
          => <<mempool'[s.id].to, mempool'[s.id].amount>> = <<s.tx.to, s.tx.amount>>
    BY <1>1, <1>3, <2>3 DEF GoodScreen
  <2> QED
    BY <1>3, <2>2, <2>4 DEF GoodScreen
<1>4. CASE s.state # "sent"
  BY <1>1, <1>4 DEF GoodScreen
<1> QED
  BY <1>3, <1>4

(* An answer, if it is right, leaves every page right.                     *)
LEMMA AnswerKept ==
  ASSUME Evolves, OneRowEach', ReceiptIsOwn, FreshNotRefused, DOMAIN screen = User,
         NEW w \in User, NEW s, GoodScreen(s, w)',
         screen' = [screen EXCEPT ![w] = s] \/ screen' = screen
  PROVE  (ReceiptIsOwn /\ FreshNotRefused)'
<1>1. \A u \in User : GoodScreen(screen[u], u)
  BY ScreensGood
<1>2. ASSUME NEW u \in User PROVE GoodScreen(screen[u], u)'
  <2>1. PICK x : x = screen[u]
    OBVIOUS
  <2>2. GoodScreen(x, u)'
    BY <1>1, <2>1, ScreenKept
  <2>3. CASE u = w /\ screen' = [screen EXCEPT ![w] = s]
    <3>1. screen'[u] = s
      BY <2>3
    <3> QED
      BY <2>3, <3>1 DEF GoodScreen
  <2>4. CASE screen'[u] = x
    BY <2>2, <2>4 DEF GoodScreen
  <2> QED
    BY <2>1, <2>3, <2>4
<1>3. (\A u \in User : GoodScreen(screen[u], u))'
  BY <1>2
<1>4. (ReceiptIsOwn /\ FreshNotRefused)' <=> (\A u \in User : GoodScreen(screen[u], u))'
  BY DEF ReceiptIsOwn, FreshNotRefused, GoodScreen, Undisturbed
<1> QED
  BY <1>3, <1>4

LEMMA ScreensKept ==
  ASSUME Evolves, OneRowEach', ReceiptIsOwn, FreshNotRefused, screen' = screen
  PROVE  (ReceiptIsOwn /\ FreshNotRefused)'
<1>1. \A u \in User : GoodScreen(screen[u], u)
  BY ScreensGood
<1>2. ASSUME NEW u \in User PROVE GoodScreen(screen[u], u)'
  <2>1. PICK x : x = screen[u]
    OBVIOUS
  <2>2. GoodScreen(x, u)' /\ screen'[u] = x
    BY <1>1, <2>1, ScreenKept
  <2> QED
    BY <2>2 DEF GoodScreen
<1>3. (\A u \in User : GoodScreen(screen[u], u))'
  BY <1>2
<1>4. (ReceiptIsOwn /\ FreshNotRefused)' <=> (\A u \in User : GoodScreen(screen[u], u))'
  BY DEF ReceiptIsOwn, FreshNotRefused, GoodScreen, Undisturbed
<1> QED
  BY <1>3, <1>4

(* A request from a view that knows all rows gets what it was offered.     *)
FreshOffer(r) ==
  /\ r.by \in Key /\ r.tx.from = r.by /\ Holds(leaves, r.by)
  /\ r.tx.nonce = Cardinality(Rows(r.by))
  /\ r.tx.amount + Value(mempool, Rows(r.by)) <= Received(r.by)

LEMMA FreshOffered ==
  ASSUME ClientTypeOK, WireInv, NEW r \in wire, Fresh(r), Undisturbed(r.by)
  PROVE  FreshOffer(r)
<1>1. r.by \in Key
  BY ClientAssumption DEF ClientTypeOK
<1>2. r.tx.from = r.by /\ Offered(r.by, r.rows, r.tx.nonce, r.tx.amount)
  BY DEF WireInv
<1>3. r.rows = Cardinality(Rows(r.by))
  BY <1>2 DEF Fresh, Rows, TxsBy
<1> QED
  BY <1>1, <1>2, <1>3 DEF Offered, FreshOffer

LEMMA OldReceipt ==
  ASSUME AdmissionInv, OneRowEach, ClientTypeOK, WireInv, NEW r \in wire,
         NEW id \in RowFor(r.tx), NEW s, s = Sent(r.tx, id, Fresh(r))
  PROVE  GoodScreen(s, r.by)
<1>1. s.state = "sent" /\ s.tx = r.tx /\ s.id = id /\ s.fresh = Fresh(r)
  BY DEF Sent
<1>2. id \in TxIds /\ mempool[id].from = r.tx.from /\ mempool[id].nonce = r.tx.nonce
  BY DEF RowFor
<1>3. RowFor(r.tx) = {id}
  BY <1>2 DEF RowFor, OneRowEach
<1>4. ASSUME Fresh(r), Undisturbed(r.by) PROVE FALSE
  <2>1. FreshOffer(r)
    BY <1>4, FreshOffered
  <2>2. Numbered(mempool) /\ mempool \in Seq(TxRow)
    BY <1>4 DEF AdmissionInv, ShadowInv, Undisturbed, TypeOK
  <2> DEFINE R == TxsBy(mempool, DOMAIN mempool, r.by)
  <2>3. R = Rows(r.by)
    BY DEF Rows, TxIds
  <2>4. id \in R /\ R \in SUBSET DOMAIN mempool
    BY <1>2, <2>1 DEF TxsBy, TxIds, FreshOffer
  <2>5. mempool[id].nonce = Rank(R, id)
    BY <1>2, <2>1, <2>2 DEF Numbered, TxIds, FreshOffer
  <2> HIDE DEF R
  <2>6. R \in SUBSET Nat /\ IsFiniteSet(R)
    BY <2>2, <2>4, TxRows
  <2>7. Rank(R, id) < Cardinality(R) /\ Rank(R, id) \in Nat /\ Cardinality(R) \in Nat
    BY <2>4, <2>6, RankType, FS_CardinalityType
  <2>8. Rank(R, id) = Cardinality(R)
    BY <1>2, <2>1, <2>3, <2>5 DEF FreshOffer
  <2> QED
    BY <2>7, <2>8
<1> QED
  BY <1>1, <1>3, <1>4 DEF GoodScreen

LEMMA RefusalGood ==
  ASSUME AdmissionInv, ClientTypeOK, WireInv, NEW r \in wire, Refusal(r.tx) # "none",
         NEW s, s = Failed(Refusal(r.tx), Fresh(r))
  PROVE  GoodScreen(s, r.by)
<1>1. s.state = "failed" /\ s.code = Refusal(r.tx) /\ s.fresh = Fresh(r)
  BY DEF Failed
<1>2. ASSUME Fresh(r), Undisturbed(r.by)
      PROVE  Refusal(r.tx) \in {"RATE_LIMITED", "RECIPIENT_UNKNOWN"}
  <2> DEFINE k == r.tx.from
             b == AccountOf(tree, k).balance
             out == Value(mempool, LiveRows(k))
             x == Value(mempool, Rows(k))
             q == Received(k)
             a == r.tx.amount
  <2>1. FreshOffer(r)
    BY <1>2, FreshOffered
  <2>2. k = r.by /\ k \in Key /\ Holds(leaves, k) /\ r.tx.nonce = Cardinality(Rows(k)) /\ a + x <= q
    BY <2>1 DEF FreshOffer
  <2>3. Undisturbed(k)
    BY <1>2, <2>2
  <2>4. /\ tree = leaves /\ ExpectedNonce(k) = Cardinality(Rows(k))
        /\ b \in Nat /\ out \in Nat /\ out <= b /\ b - out + x = q
    BY <2>2, <2>3, NowOffered
  <2>5. mempool \in Seq(TxRow) /\ Rows(k) \in SUBSET DOMAIN mempool
    BY DEF AdmissionInv, TypeOK, Rows, TxsBy, TxIds
  <2>6. x \in Nat
    BY <2>5, RowSets
  <2>7. a \in Int
    <3>1. \A t \in Request : t.amount \in TxAmounts
      BY DEF Request
    <3>2. TxAmounts \subseteq Nat /\ r.tx \in Request
      BY MempoolAssumption DEF ClientTypeOK
    <3>3. a \in Nat
      BY <3>1, <3>2, Zenon
    <3> QED
      BY <3>3
  <2>8. Available(k) = b - out
    BY <2>4 DEF Available
  <2>9. Holds(tree, k) /\ r.tx.nonce = ExpectedNonce(k)
    BY <2>2, <2>4
  <2> HIDE DEF b, out, x, q, a
  <2>10. ~ (a > b - out)
    BY <2>2, <2>4, <2>6, <2>7
  <2>11. ~ (r.tx.amount > Available(r.tx.from))
    BY <2>8, <2>10 DEF a
  <2> QED
    BY <2>9, <2>11 DEF Refusal
<1> QED
  BY <1>1, <1>2 DEF GoodScreen

LEMMA NewReceipt ==
  ASSUME TypeOK, OneRowEach', NEW r, SubmitTx(r.tx),
         NEW s, s = Sent(r.tx, Len(mempool) + 1, Fresh(r)), NEW k
  PROVE  GoodScreen(s, k)'
<1> DEFINE t == r.tx
           row == [from |-> t.from, to |-> t.to, amount |-> t.amount, nonce |-> t.nonce,
                   withdraw |-> t.withdraw, status |-> "pending", reason |-> "none"]
           n == Len(mempool) + 1
<1>1. s.state = "sent" /\ s.tx = t /\ s.id = n
  BY DEF Sent
<1>2. mempool' = Append(mempool, row) /\ mempool \in Seq(TxRow)
  BY DEF SubmitTx, TypeOK
<1>3. row.from = t.from /\ row.nonce = t.nonce /\ row.to = t.to /\ row.amount = t.amount
  OBVIOUS
<1> HIDE DEF row
<1>4. n \in DOMAIN mempool' /\ mempool'[n] = row
  BY <1>2
<1> HIDE DEF n, t
<1>5. n \in RowFor(t)'
  BY <1>3, <1>4 DEF RowFor, TxIds
<1>6. \A u \in RowFor(t)' : u = n
  BY <1>5 DEF RowFor, OneRowEach
<1>7. RowFor(t)' = {n}
  BY <1>5, <1>6
<1> QED
  BY <1>1, <1>3, <1>4, <1>7 DEF GoodScreen

-----------------------------------------------------------------------------
(* The invariant of the wallets.                                           *)

Pages(pages, n) ==
  /\ DOMAIN pages = User
  /\ \A w \in User : pages[w].state = "waiting" => pages[w].post \in 1 .. n

Wired(rs, n) == \A r \in rs : r.by \in User /\ r.tx \in Request /\ r.post \in 1 .. n

LEMMA TypesFrom ==
  ASSUME HistoryInv', DOMAIN view' = User, Pages(screen', posts'), posts' \in Nat,
         Wired(wire', posts')
  PROVE  ClientTypeOK'
<1>1. history' \in Seq(HistoryRow)
  BY DEF HistoryInv
<1>2. \A h \in DOMAIN history' : history'[h] \in HistoryRow
  BY <1>1, LenProperties, ElementOfSeq
<1> QED
  BY <1>2 DEF ClientTypeOK, HistoryRow, Pages, Wired

LEMMA TypesKnown ==
  ASSUME ClientTypeOK
  PROVE  DOMAIN view = User /\ Pages(screen, posts) /\ posts \in Nat /\ Wired(wire, posts)
BY DEF ClientTypeOK, Pages, Wired

LEMMA AnswerTyped ==
  ASSUME NEW n, NEW pages, Pages(pages, n), NEW w \in User, NEW s, s.state # "waiting",
         NEW pages2, pages2 = [pages EXCEPT ![w] = s] \/ pages2 = pages
  PROVE  Pages(pages2, n)
<1>1. DOMAIN pages2 = User
  BY DEF Pages
<1>2. ASSUME NEW u \in User PROVE pages2[u] = pages[u] \/ pages2[u] = s
  BY DEF Pages
<1> QED
  BY <1>1, <1>2 DEF Pages

(* A page that answers the post of a wallet.                               *)
Shows(w, s) ==
  /\ s.state # "waiting" /\ GoodScreen(s, w)'
  /\ screen' = [screen EXCEPT ![w] = s] \/ screen' = screen

Answered == \E w \in User : \E s : Shows(w, s)

LEMMA AnsweredInv ==
  ASSUME AdmissionInv, AdmissionInv', Evolves, WalletInv, HistoryInv', Answered,
         wire' \subseteq wire, view' = view, posts' = posts
  PROVE  WalletInv'
<1>1. /\ ClientTypeOK /\ OneRowEach /\ ViewInv /\ WireInv /\ ReceiptIsOwn /\ FreshNotRefused
  BY DEF WalletInv
<1>2. PICK w \in User : \E s : Shows(w, s)
  BY DEF Answered
<1>3. PICK s : /\ s.state # "waiting" /\ GoodScreen(s, w)'
               /\ screen' = [screen EXCEPT ![w] = s] \/ screen' = screen
  BY <1>2 DEF Shows
<1>4. OneRowEach'
  BY <1>1 DEF Evolves
<1>5. DOMAIN view = User /\ Pages(screen, posts) /\ posts \in Nat /\ Wired(wire, posts)
  BY <1>1, TypesKnown
<1>6. (ReceiptIsOwn /\ FreshNotRefused)'
  BY <1>1, <1>3, <1>4, <1>5, AnswerKept DEF Pages
<1>7. Pages(screen', posts)
  BY <1>3, <1>5, AnswerTyped
<1>8. ClientTypeOK'
  <2>1. Wired(wire', posts')
    BY <1>5 DEF Wired
  <2> QED
    BY <1>5, <1>7, <2>1, TypesFrom
<1>9. ViewInv' /\ WireInv'
  BY <1>1, ViewsKept, WireKept
<1> QED
  BY <1>4, <1>6, <1>8, <1>9 DEF WalletInv

LEMMA UnseenInv ==
  ASSUME AdmissionInv, AdmissionInv', Evolves, WalletInv, HistoryInv', UNCHANGED clientVars
  PROVE  WalletInv'
<1>1. /\ ClientTypeOK /\ OneRowEach /\ ViewInv /\ WireInv /\ ReceiptIsOwn /\ FreshNotRefused
  BY DEF WalletInv
<1>2. view' = view /\ screen' = screen /\ wire' = wire /\ posts' = posts
  BY DEF clientVars
<1>3. OneRowEach'
  BY <1>1 DEF Evolves
<1>4. (ReceiptIsOwn /\ FreshNotRefused)'
  BY <1>1, <1>2, <1>3, ScreensKept
<1>5. ClientTypeOK'
  BY <1>1, <1>2, TypesKnown, TypesFrom
<1>6. ViewInv' /\ WireInv'
  BY <1>1, <1>2, ViewsKept, WireKept
<1> QED
  BY <1>3, <1>4, <1>5, <1>6 DEF WalletInv

LEMMA RefetchInv ==
  ASSUME AdmissionInv, AdmissionInv', Evolves, WalletInv, HistoryInv',
         NEW w \in User, Refetch(w)
  PROVE  WalletInv'
<1>1. /\ ClientTypeOK /\ OneRowEach /\ ViewInv /\ WireInv /\ ReceiptIsOwn /\ FreshNotRefused
  BY DEF WalletInv
<1>2. /\ view' = [view EXCEPT ![w] = AccountInfo(w)]
      /\ screen' = screen /\ wire' = wire /\ posts' = posts
  BY DEF Refetch
<1>3. OneRowEach'
  BY <1>1 DEF Evolves
<1>4. (ReceiptIsOwn /\ FreshNotRefused)'
  BY <1>1, <1>2, <1>3, ScreensKept
<1>5. ClientTypeOK'
  <2>1. DOMAIN view = User /\ Pages(screen, posts) /\ posts \in Nat /\ Wired(wire, posts)
    BY <1>1, TypesKnown
  <2>2. DOMAIN view' = User
    BY <1>2, <2>1
  <2> QED
    BY <1>2, <2>1, <2>2, TypesFrom
<1>6. ViewInv' /\ WireInv'
  BY <1>1, <1>2, ViewRefetched, WireKept
<1> QED
  BY <1>3, <1>4, <1>5, <1>6 DEF WalletInv

LEMMA SendInv ==
  ASSUME AdmissionInv, AdmissionInv', Evolves, WalletInv, HistoryInv',
         NEW w \in User, NEW to \in Key \cup {NoKey}, NEW a \in TxAmounts, Send(w, to, a)
  PROVE  WalletInv'
<1>1. /\ ClientTypeOK /\ OneRowEach /\ ViewInv /\ WireInv /\ ReceiptIsOwn /\ FreshNotRefused
  BY DEF WalletInv
<1>2. PICK p : p = posts + 1
  OBVIOUS
<1>3. posts' = p /\ view' = view /\ screen' = [screen EXCEPT ![w] = Waiting(p)]
  BY <1>2 DEF Send
<1>4. PICK s : s = Waiting(p)
  OBVIOUS
<1>5. s.state = "waiting" /\ s.post = p
  BY <1>4 DEF Waiting
<1>6. DOMAIN view = User /\ Pages(screen, posts) /\ posts \in Nat
  BY <1>1, TypesKnown
<1>7. OneRowEach'
  BY <1>1 DEF Evolves
<1>8. (ReceiptIsOwn /\ FreshNotRefused)'
  <2>1. GoodScreen(s, w)'
    BY <1>5 DEF GoodScreen
  <2> QED
    BY <1>1, <1>3, <1>4, <1>6, <1>7, <2>1, AnswerKept DEF Pages
<1>9. WireInv' /\ Wired(wire', p)
  BY <1>1, <1>2, SendGood DEF Wired
<1>10. Pages(screen', p)
  <2>1. screen' = [screen EXCEPT ![w] = s] /\ p \in 1 .. p
    BY <1>2, <1>3, <1>4, <1>6
  <2>2. \A i \in 1 .. posts : i \in 1 .. p
    BY <1>2, <1>6
  <2> QED
    BY <1>5, <1>6, <2>1, <2>2 DEF Pages
<1>11. ClientTypeOK'
  BY <1>2, <1>3, <1>6, <1>9, <1>10, TypesFrom
<1>12. ViewInv'
  BY <1>1, <1>3, ViewsKept
<1> QED
  BY <1>7, <1>8, <1>9, <1>11, <1>12 DEF WalletInv

LEMMA PostAnswered ==
  ASSUME AdmissionInv, Evolves, WalletInv, NEW r \in wire, Post(r)
  PROVE  Answered
<1>1. ClientTypeOK /\ OneRowEach /\ WireInv /\ TypeOK
  BY DEF WalletInv, AdmissionInv
<1>2. OneRowEach' /\ r.by \in User
  BY <1>1 DEF Evolves, ClientTypeOK
<1>3. CASE Resubmitted(r)
  <2>1. PICK id \in RowFor(r.tx) : Answer(r, Sent(r.tx, id, Fresh(r)))
    BY <1>3 DEF Resubmitted
  <2>2. PICK s : s = Sent(r.tx, id, Fresh(r))
    OBVIOUS
  <2>3. GoodScreen(s, r.by)
    BY <1>1, <2>2, OldReceipt
  <2>4. GoodScreen(s, r.by)'
    BY <1>2, <2>3, ScreenKept
  <2>5. s.state # "waiting" /\ (screen' = [screen EXCEPT ![r.by] = s] \/ screen' = screen)
    BY <2>1, <2>2 DEF Answer, Sent
  <2>6. Shows(r.by, s)
    BY <2>4, <2>5 DEF Shows, GoodScreen
  <2> QED
    BY <1>2, <2>6 DEF Answered
<1>4. CASE Admitted(r)
  <2>1. SubmitTx(r.tx) /\ Answer(r, Sent(r.tx, Len(mempool) + 1, Fresh(r)))
    BY <1>4 DEF Admitted
  <2>2. PICK s : s = Sent(r.tx, Len(mempool) + 1, Fresh(r))
    OBVIOUS
  <2>3. GoodScreen(s, r.by)'
    BY <1>1, <1>2, <2>1, <2>2, NewReceipt
  <2>4. s.state # "waiting" /\ (screen' = [screen EXCEPT ![r.by] = s] \/ screen' = screen)
    BY <2>1, <2>2 DEF Answer, Sent
  <2>5. Shows(r.by, s)
    BY <2>3, <2>4 DEF Shows, GoodScreen
  <2> QED
    BY <1>2, <2>5 DEF Answered
<1>5. CASE TurnedDown(r)
  <2>1. Refusal(r.tx) # "none" /\ Answer(r, Failed(Refusal(r.tx), Fresh(r)))
    BY <1>5 DEF TurnedDown
  <2>2. PICK s : s = Failed(Refusal(r.tx), Fresh(r))
    OBVIOUS
  <2>3. GoodScreen(s, r.by)
    BY <1>1, <2>1, <2>2, RefusalGood
  <2>4. GoodScreen(s, r.by)'
    BY <1>2, <2>3, ScreenKept
  <2>5. s.state # "waiting" /\ (screen' = [screen EXCEPT ![r.by] = s] \/ screen' = screen)
    BY <2>1, <2>2 DEF Answer, Failed
  <2>6. Shows(r.by, s)
    BY <2>4, <2>5 DEF Shows, GoodScreen
  <2> QED
    BY <1>2, <2>6 DEF Answered
<1> QED
  BY <1>3, <1>4, <1>5 DEF Post

LEMMA LostAnswered ==
  ASSUME WalletInv, (\E r \in wire : Limited(r)) \/ (\E w \in User : LoseAnswer(w))
  PROVE  Answered
<1>1. ASSUME NEW r \in wire, Limited(r) PROVE Answered
  <2>1. r.by \in User
    BY DEF WalletInv, ClientTypeOK
  <2>2. PICK s : s = Failed("RATE_LIMITED", Fresh(r))
    OBVIOUS
  <2>3. s.state = "failed" /\ s.code = "RATE_LIMITED"
    BY <2>2 DEF Failed
  <2>4. screen' = [screen EXCEPT ![r.by] = s] \/ screen' = screen
    BY <1>1, <2>2 DEF Limited, Answer
  <2>5. Shows(r.by, s)
    BY <2>3, <2>4 DEF Shows, GoodScreen
  <2> QED
    BY <2>1, <2>5 DEF Answered
<1>2. ASSUME NEW w \in User, LoseAnswer(w) PROVE Answered
  <2>1. PICK s : s = Failed("SEQUENCER_UNREACHABLE", FALSE)
    OBVIOUS
  <2>2. s.state = "failed" /\ s.fresh = FALSE
    BY <2>1 DEF Failed
  <2>3. screen' = [screen EXCEPT ![w] = s]
    BY <1>2, <2>1 DEF LoseAnswer
  <2>4. Shows(w, s)
    BY <2>2, <2>3 DEF Shows, GoodScreen
  <2> QED
    BY <2>4 DEF Answered
<1> QED
  BY <1>1, <1>2

LEMMA WalletInit == ClientInit => WalletInv
<1> SUFFICES ASSUME ClientInit PROVE WalletInv
  OBVIOUS
<1>1. /\ deposits = <<>> /\ mempool = <<>> /\ history = <<>>
      /\ view = [w \in User |-> <<>>] /\ screen = [w \in User |-> [state |-> "idle"]]
      /\ wire = {} /\ posts = 0
  BY DEF ClientInit, Init, Idle
<1>2. DOMAIN deposits = {} /\ DOMAIN mempool = {} /\ DOMAIN history = {}
  BY <1>1
<1>3. Consumed = {} /\ Included = {} /\ TxIds = {}
  BY <1>2 DEF Consumed, Included, DepIds, TxIds
<1>4. ASSUME NEW k \in Key PROVE Listing(history, k, deposits, Consumed, mempool, Included)
  <2>1. /\ DepsTo(deposits, Consumed, k) = {} /\ TxsTo(mempool, Included, k) = {}
        /\ TxsBy(mempool, Included, k) = {}
    BY <1>3 DEF DepsTo, TxsTo, TxsBy
  <2>2. EntriesOf(history, k) = {} /\ CreditsOf(history, k) = {} /\ DebitsOf(history, k) = {}
    BY <1>2 DEF EntriesOf, CreditsOf, DebitsOf
  <2>3. /\ Value(deposits, {}) = 0 /\ Value(mempool, {}) = 0 /\ Value(history, {}) = 0
        /\ Cardinality({}) = 0
    BY ValueEmpty, FS_EmptySet
  <2> QED
    BY <2>1, <2>2, <2>3 DEF Listing
<1>5. history \in Seq(HistoryRow)
  BY <1>1
<1>6. HistoryInv
  BY <1>4, <1>5 DEF HistoryInv, Lists
<1>7. ClientTypeOK
  BY <1>1, <1>2 DEF ClientTypeOK
<1>8. OneRowEach
  BY <1>3 DEF OneRowEach
<1>9. ViewInv /\ WireInv
  BY <1>1 DEF ViewInv, WireInv
<1>10. ReceiptIsOwn /\ FreshNotRefused
  BY <1>1 DEF ReceiptIsOwn, FreshNotRefused
<1> QED
  BY <1>6, <1>7, <1>8, <1>9, <1>10 DEF WalletInv

LEMMA WalletNext ==
  ASSUME AdmissionInv, WalletInv, [ClientNext]_allVars
  PROVE  AdmissionInv' /\ WalletInv'
<1>1. [Next]_vars
  BY ClientStep DEF WalletInv
<1>2. AdmissionInv' /\ Evolves
  BY <1>1, NextInv, NextEvolves
<1>3. ASSUME history' = history, ~Confirm PROVE HistoryInv'
  BY <1>2, <1>3, QuietHistory DEF WalletInv
<1>4. CASE Background /\ UNCHANGED <<history, clientVars>>
  <2>1. HistoryInv'
    BY <1>3, <1>4, OnlyConfirmSettles
  <2> QED
    BY <1>2, <1>4, <2>1, UnseenInv
<1>5. CASE ConfirmBatch /\ UNCHANGED clientVars
  <2>1. HistoryInv'
    BY <1>5, ConfirmHistory DEF WalletInv
  <2> QED
    BY <1>2, <1>5, <2>1, UnseenInv
<1>6. ASSUME NEW w \in User, Refetch(w) PROVE WalletInv'
  <2>1. UNCHANGED vars /\ history' = history
    BY <1>6 DEF Refetch, vars
  <2>2. HistoryInv'
    BY <1>3, <2>1, OnlyConfirmSettles
  <2> QED
    BY <1>2, <1>6, <2>2, RefetchInv
<1>7. ASSUME NEW w \in User, LoseAnswer(w) PROVE WalletInv'
  <2>1. /\ UNCHANGED vars /\ history' = history
        /\ view' = view /\ wire' = wire /\ posts' = posts
    BY <1>7 DEF LoseAnswer, vars
  <2>2. HistoryInv'
    BY <1>3, <2>1, OnlyConfirmSettles
  <2>3. Answered
    BY <1>7, LostAnswered
  <2> QED
    BY <1>2, <2>1, <2>2, <2>3, AnsweredInv
<1>8. ASSUME NEW w \in User, NEW to \in Key \cup {NoKey}, NEW a \in TxAmounts, Send(w, to, a)
      PROVE  WalletInv'
  <2>1. UNCHANGED vars /\ history' = history
    BY <1>8 DEF Send, vars
  <2>2. HistoryInv'
    BY <1>3, <2>1, OnlyConfirmSettles
  <2> QED
    BY <1>2, <1>8, <2>2, SendInv
<1>9. ASSUME NEW r \in wire, Post(r) PROVE WalletInv'
  <2>1. /\ history' = history /\ view' = view /\ posts' = posts /\ wire' \subseteq wire
        /\ Resubmitted(r) \/ Admitted(r) \/ TurnedDown(r)
    BY <1>9 DEF Post
  <2>2. SubmitTx(r.tx) \/ UNCHANGED vars
    BY <2>1 DEF Resubmitted, Admitted, TurnedDown
  <2>3. r.tx \in Request
    BY DEF WalletInv, ClientTypeOK
  <2>4. HistoryInv'
    BY <1>3, <2>1, <2>2, <2>3, OnlyConfirmSettles
  <2>5. Answered
    BY <1>2, <1>9, PostAnswered
  <2> QED
    BY <1>2, <2>1, <2>4, <2>5, AnsweredInv
<1>10. ASSUME NEW r \in wire, Limited(r) PROVE WalletInv'
  <2>1. /\ UNCHANGED vars /\ history' = history
        /\ view' = view /\ wire' \subseteq wire /\ posts' = posts
    BY <1>10 DEF Limited, vars
  <2>2. HistoryInv'
    BY <1>3, <2>1, OnlyConfirmSettles
  <2>3. Answered
    BY <1>10, LostAnswered
  <2> QED
    BY <1>2, <2>1, <2>2, <2>3, AnsweredInv
<1>11. CASE UNCHANGED allVars
  <2>1. UNCHANGED vars /\ history' = history /\ UNCHANGED clientVars
    BY <1>11 DEF allVars
  <2>2. HistoryInv'
    BY <1>3, <2>1, OnlyConfirmSettles
  <2> QED
    BY <1>2, <2>1, <2>2, UnseenInv
<1> QED
  BY <1>2, <1>4, <1>5, <1>6, <1>7, <1>8, <1>9, <1>10, <1>11 DEF ClientNext

(* Wallets can rely on what they read: what has settled is what GET        *)
(* /history lists, each sender uses a nonce once, and every view and every *)
(* payment on its way keeps to what the API once offered.  All of it is    *)
(* preserved by every step of the sequencer, of the network and of the     *)
(* wallets.                                                                *)
THEOREM WalletInvariant == ClientSpec => [](AdmissionInv /\ WalletInv)
<1>1. ClientInit => AdmissionInv /\ WalletInv
  BY InitInv, WalletInit DEF ClientInit
<1>2. AdmissionInv /\ WalletInv /\ [ClientNext]_allVars => AdmissionInv' /\ WalletInv'
  BY WalletNext
<1> QED
  BY <1>1, <1>2, PTL DEF ClientSpec

(* A client never breaks what the sequencer keeps: whatever wallets post,  *)
(* and however often, the steps of Client implement the specification of   *)
(* Mempool.                                                                *)
THEOREM ClientsRefineMempool == ClientSpec => Spec
<1>1. ClientInit => Init
  BY DEF ClientInit
<1>2. WalletInv /\ [ClientNext]_allVars => [Next]_vars
  BY ClientStep DEF WalletInv
<1>3. ClientSpec => []WalletInv
  BY WalletInvariant, PTL
<1> QED
  BY <1>1, <1>2, <1>3, PTL DEF ClientSpec, Spec

(* The tables, views, pages and requests keep their types, and a page      *)
(* waits for a post that was made.                                         *)
THEOREM ClientTyping == ClientSpec => []ClientTypeOK
<1>1. WalletInv => ClientTypeOK
  BY DEF WalletInv
<1> QED
  BY <1>1, WalletInvariant, PTL

(* "Sent (#id)" names the one row of that sender and nonce, and, for a     *)
(* payment made from a view that knows all rows of the sender, a row that  *)
(* pays what the user asked for, as long as no commit has failed and no    *)
(* row of the sender was rejected.                                         *)
THEOREM ReceiptsAreOwn == ClientSpec => []ReceiptIsOwn
<1>1. WalletInv => ReceiptIsOwn
  BY DEF WalletInv
<1> QED
  BY <1>1, WalletInvariant, PTL

(* A payment made from such a view is refused for the rate limit or its    *)
(* recipient only, whatever was built, failed or confirmed after the view  *)
(* was read, as long as no commit has failed and no row of the sender was  *)
(* rejected.                                                               *)
THEOREM FreshAccepted == ClientSpec => []FreshNotRefused
<1>1. WalletInv => FreshNotRefused
  BY DEF WalletInv
<1> QED
  BY <1>1, WalletInvariant, PTL

-----------------------------------------------------------------------------
(* Activity and account.                                                   *)

(* An answer that is not cut off lists all entries.                        *)
LEMMA AllListed ==
  ASSUME history \in Seq(HistoryRow), NEW k, Cardinality(EntriesOf(history, k)) <= HistoryLimit
  PROVE  ConfirmedEntries(k) = EntriesOf(history, k)
<1> DEFINE mine == EntriesOf(history, k)
<1>1. mine \in SUBSET DOMAIN history
  BY DEF EntriesOf
<1>2. mine \in SUBSET (1 .. Len(history)) /\ Len(history) \in Nat
  BY <1>1, LenProperties
<1>3. IsFiniteSet(mine) /\ Cardinality(mine) \in Nat
  BY <1>2, FiniteIds
<1>4. ConfirmedEntries(k) = {h \in mine : Cardinality({g \in mine : g > h}) < HistoryLimit}
  BY DEF ConfirmedEntries, EntriesOf
<1>5. Cardinality(mine) <= HistoryLimit /\ HistoryLimit \in Nat
  BY ClientAssumption
<1> HIDE DEF mine
<1>6. ASSUME NEW h \in mine PROVE Cardinality({g \in mine : g > h}) < HistoryLimit
  <2> DEFINE S == {g \in mine : g > h}
  <2>1. S \in SUBSET mine /\ h \notin S /\ h \in mine
    BY <1>2
  <2> HIDE DEF S
  <2>2. S # mine
    BY <2>1
  <2>3. /\ IsFiniteSet(S) /\ Cardinality(S) <= Cardinality(mine)
        /\ (Cardinality(mine) = Cardinality(S) => mine = S)
    BY <1>3, <2>1, FS_Subset
  <2>4. Cardinality(S) \in Nat
    BY <2>3, FS_CardinalityType
  <2>5. Cardinality(S) < HistoryLimit
    BY <1>3, <1>5, <2>2, <2>3, <2>4
  <2> QED
    BY <2>5 DEF S
<1> QED
  BY <1>4, <1>6 DEF mine

LEMMA ActivityExplained ==
  ASSUME AdmissionInv, HistoryInv, tree = leaves, NEW k \in Key,
         ConfirmedEntries(k) = EntriesOf(history, k),
         NEW pending, pending = {t \in MempoolEntries(k) : mempool[t].status # "rejected"},
         NEW info, info = AccountInfo(k)
  PROVE  IF info = <<>> THEN ConfirmedEntries(k) = {}
         ELSE /\ info[1].balance = Value(history, Credits(k)) - Value(history, Debits(k))
              /\ info[1].pending_out = Value(mempool, pending)
              /\ info[1].pending_nonce = Cardinality(Debits(k)) + Cardinality(pending)
<1>1. TypeOK /\ LedgerInv /\ RowsInv
  BY DEF AdmissionInv
<1>2. /\ mempool \in Seq(TxRow) /\ deposits \in Seq(DepRow) /\ leaves \in Tree
      /\ Ledger(leaves, deposits, Consumed, mempool, Included) /\ WellFormed(mempool)
  BY <1>1 DEF TypeOK, LedgerInv, RowsInv
<1>3. Listing(history, k, deposits, Consumed, mempool, Included)
  BY DEF HistoryInv, Lists
<1>4. Credits(k) = CreditsOf(history, k) /\ Debits(k) = DebitsOf(history, k)
  BY DEF Credits, Debits, CreditsOf, DebitsOf
<1>5. pending = LiveRows(k)
  <2>1. ASSUME NEW t \in TxIds
        PROVE  mempool[t].status \in {"pending", "batching", "included", "rejected"}
    <3>1. mempool[t] \in TxRow
      BY <1>2 DEF TxIds
    <3> QED
      BY <3>1 DEF TxRow
  <2> QED
    BY <2>1 DEF MempoolEntries, LiveRows
<1>6. Included \in SUBSET DOMAIN mempool /\ Consumed \in SUBSET DOMAIN deposits
  BY DEF Included, Consumed, TxIds, DepIds
<1>7. CASE ~Holds(leaves, k)
  <2>1. info = <<>>
    BY <1>7 DEF AccountInfo
  <2>2. DepsTo(deposits, Consumed, k) = {}
    BY <1>2, <1>7 DEF Ledger
  <2>3. \A t \in Included : /\ Holds(leaves, mempool[t].from)
                            /\ mempool[t].withdraw \/ Holds(leaves, mempool[t].to)
    BY <1>2 DEF Ledger
  <2>4. TxsBy(mempool, Included, k) = {}
    BY <1>7, <2>3 DEF TxsBy
  <2>5. \A t \in Included : mempool[t].withdraw => mempool[t].to # k
    BY <1>2, <1>6, AccountsAssumption DEF WellFormed
  <2>6. TxsTo(mempool, Included, k) = {}
    BY <1>7, <2>3, <2>5 DEF TxsTo
  <2>7. EntriesOf(history, k) = {}
    BY <1>3, <2>2, <2>4, <2>6 DEF Listing
  <2> QED
    BY <2>1, <2>7
<1>8. CASE Holds(leaves, k)
  <2> DEFINE a == AccountOf(leaves, k)
             s == Value(mempool, TxsBy(mempool, Included, k))
             d == Value(deposits, DepsTo(deposits, Consumed, k))
             x == Value(mempool, TxsTo(mempool, Included, k))
  <2>1. /\ info # <<>> /\ info[1].balance = a.balance
        /\ info[1].pending_out = Value(mempool, LiveRows(k))
        /\ info[1].pending_nonce = a.nonce + Cardinality(LiveRows(k))
    BY <1>8 DEF AccountInfo, ExpectedNonce
  <2>2. Explains(a, k, deposits, Consumed, mempool, Included)
    BY <1>2, <1>8, HeldExplained
  <2>3. /\ a.nonce = Cardinality(TxsBy(mempool, Included, k))
        /\ a.balance + s = d + x
    BY <2>2 DEF Explains
  <2>4. /\ Value(history, CreditsOf(history, k)) = d + x
        /\ Value(history, DebitsOf(history, k)) = s
        /\ Cardinality(DebitsOf(history, k)) = Cardinality(TxsBy(mempool, Included, k))
    BY <1>3 DEF Listing
  <2>5. a.balance \in Nat /\ s \in Nat /\ x \in Nat
    BY <1>2, <1>6, <1>8, HeldAccount, RowNumbers
  <2>6. d \in Nat
    <3>1. DepsTo(deposits, Consumed, k) \in SUBSET DOMAIN deposits
      BY <1>6 DEF DepsTo
    <3> QED
      BY <1>2, <3>1, DepRows, ValueType
  <2>7. a.balance = Value(history, Credits(k)) - Value(history, Debits(k))
    <3> DEFINE b == a.balance
    <3>1. b + s = d + x /\ b \in Nat
      BY <2>3, <2>5
    <3> HIDE DEF a, b, s, d, x
    <3>2. b = (d + x) - s
      BY <2>5, <2>6, <3>1
    <3>3. Value(history, Credits(k)) = d + x /\ Value(history, Debits(k)) = s
      BY <1>4, <2>4
    <3> QED
      BY <3>2, <3>3 DEF b
  <2>8. a.nonce = Cardinality(Debits(k))
    BY <1>4, <2>3, <2>4, Zenon
  <2> HIDE DEF a
  <2>9. /\ info[1].pending_out = Value(mempool, pending)
        /\ info[1].pending_nonce = Cardinality(Debits(k)) + Cardinality(pending)
    BY <1>5, <2>1, <2>8, Zenon
  <2> QED
    BY <2>1, <2>7, <2>9
<1> QED
  BY <1>7, <1>8

(* What the wallet shows fits together: the confirmed entries of GET       *)
(* /history add up to the balance of GET /account, the pending ones to     *)
(* what is on its way out, and both together to the nonce, while the live  *)
(* tree is the stored one and the answer of GET /history is not cut off.   *)
THEOREM ActivityAddsUp == ClientSpec => []ActivityExplainsAccount
<1>1. AdmissionInv /\ WalletInv => ActivityExplainsAccount
  <2> SUFFICES ASSUME AdmissionInv, WalletInv, tree = leaves, NEW k \in Key,
                      Cardinality({h \in DOMAIN history : history[h].pk = k}) <= HistoryLimit
               PROVE  LET info == AccountInfo(k)
                          pending == {t \in MempoolEntries(k) : mempool[t].status # "rejected"}
                      IN IF info = <<>> THEN ConfirmedEntries(k) = {}
                         ELSE /\ info[1].balance
                                   = Value(history, Credits(k)) - Value(history, Debits(k))
                              /\ info[1].pending_out = Value(mempool, pending)
                              /\ info[1].pending_nonce
                                   = Cardinality(Debits(k)) + Cardinality(pending)
    BY DEF ActivityExplainsAccount
  <2>1. HistoryInv /\ history \in Seq(HistoryRow)
    BY DEF WalletInv, HistoryInv
  <2>2. ConfirmedEntries(k) = EntriesOf(history, k)
    BY <2>1, AllListed DEF EntriesOf
  <2> QED
    BY <2>1, <2>2, ActivityExplained
<1> QED
  BY <1>1, WalletInvariant, PTL

=============================================================================

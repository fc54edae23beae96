----------------------- MODULE AllocationLedgerProofs -----------------------
(***************************************************************************)
(* Proofs about AllocationLedger: if no limit has more digits than the     *)
(* decimal context, rounding never changes what is admitted, budgets are   *)
(* conserved, and the ledger is a budget authority.                        *)
(***************************************************************************)
EXTENDS AllocationLedger, FiniteSetTheorems, WellFoundedInduction, TLAPS

-----------------------------------------------------------------------------
(* Induction and recursion over the naturals, about sets and functions.    *)

LEMMA LeastMember ==
  ASSUME NEW S, S \subseteq Nat, S # {}
  PROVE  \E x \in S : \A y \in S : x <= y
<1> DEFINE Segments == {0 .. n : n \in S}
<1>1. Segments \subseteq FiniteSubsetsOf(Nat) /\ Segments # {}
  <2>1. \A n \in S : 0 .. n \in SUBSET Nat /\ n \in Int
    OBVIOUS
  <2>2. \A n \in S : IsFiniteSet(0 .. n)
    BY <2>1, FS_Interval
  <2> QED
    BY <2>1, <2>2 DEF FiniteSubsetsOf
<1>2. PICK x \in S : \A y \in S : ~ (<<0 .. y, 0 .. x>> \in StrictSubsetOrdering(Nat))
  <2>1. PICK T \in Segments : \A U \in Segments : ~ (<<U, T>> \in StrictSubsetOrdering(Nat))
    <3> HIDE DEF Segments
    <3> QED
      BY <1>1, FS_StrictSubsetOrderingWellFounded, WFMin
  <2> QED
    BY <2>1
<1>3. ASSUME NEW y \in S, y < x PROVE FALSE
  <2>1. 0 .. y \in SUBSET Nat /\ 0 .. x \in SUBSET Nat /\ 0 .. y \subseteq 0 .. x
    BY <1>3
  <2>2. x \in 0 .. x /\ x \notin 0 .. y
    BY <1>3
  <2> QED
    BY <1>2, <2>1, <2>2 DEF StrictSubsetOrdering
<1> QED
  BY <1>3

LEMMA SetInduction ==
  ASSUME NEW S, 0 \in S, \A i \in Nat : i \in S => i + 1 \in S
  PROVE  Nat \subseteq S
<1> SUFFICES ASSUME Nat \ S # {} PROVE FALSE
  OBVIOUS
<1>1. PICK x \in Nat \ S : \A y \in Nat \ S : x <= y
  BY LeastMember
<1>2. x # 0 /\ x - 1 \in Nat /\ x - 1 \in S
  BY <1>1
<1> QED
  BY <1>1, <1>2

LEMMA SegmentInduction ==
  ASSUME NEW n \in Nat, NEW S, 0 \in S, \A i \in 1..n : i - 1 \in S => i \in S
  PROVE  0..n \subseteq S
<1> DEFINE T == {i \in Nat : i <= n => i \in S}
<1>1. 0 \in T
  OBVIOUS
<1>2. ASSUME NEW i \in Nat, i \in T PROVE i + 1 \in T
  <2> SUFFICES ASSUME i + 1 <= n PROVE i + 1 \in S
    OBVIOUS
  <2>1. i + 1 \in 1..n /\ (i + 1) - 1 = i /\ i \in S
    BY <1>2
  <2> QED
    BY <2>1
<1>3. Nat \subseteq T
  <2> HIDE DEF T
  <2> QED
    BY <1>1, <1>2, SetInduction
<1> QED
  BY <1>3

\* A start and a step for every index determine a function.
Unfolds(f, n, V, b, F) ==
  f \in [0..n -> V] /\ f[0] = b /\ \A i \in 1..n : f[i] = F[i][f[i - 1]]

LEMMA Recursion ==
  ASSUME NEW n \in Nat, NEW V, NEW b \in V, NEW F, \A i \in 1..n : F[i] \in [V -> V]
  PROVE  \E f : Unfolds(f, n, V, b, F)
<1> DEFINE S == {m \in 0..n : \E f : Unfolds(f, m, V, b, F)}
<1>1. 0 \in S
  <2> DEFINE g == [i \in 0..0 |-> b]
  <2>1. Unfolds(g, 0, V, b, F)
    BY DEF Unfolds
  <2> QED
    BY <2>1
<1>2. ASSUME NEW m \in 1..n, m - 1 \in S PROVE m \in S
  <2>1. PICK f : Unfolds(f, m - 1, V, b, F)
    BY <1>2
  <2> DEFINE g == [i \in 0..m |-> IF i = m THEN F[m][f[m - 1]] ELSE f[i]]
  <2>2. f \in [0..(m - 1) -> V] /\ f[0] = b /\ \A i \in 1..(m - 1) : f[i] = F[i][f[i - 1]]
    BY <2>1 DEF Unfolds
  <2>3. f[m - 1] \in V /\ F[m][f[m - 1]] \in V
    BY <2>2
  <2>4. g \in [0..m -> V]
    BY <2>2, <2>3
  <2>5. ASSUME NEW i \in 1..m PROVE g[i] = F[i][g[i - 1]]
    <3>1. i - 1 \in 0..(m - 1) /\ i - 1 # m /\ i - 1 \in 0..m
      OBVIOUS
    <3>2. g[i - 1] = f[i - 1]
      BY <3>1
    <3>3. CASE i = m
      BY <3>2, <3>3
    <3>4. CASE i # m
      BY <2>2, <3>2, <3>4
    <3> QED
      BY <3>3, <3>4
  <2>6. g[0] = b
    BY <2>2
  <2>7. Unfolds(g, m, V, b, F)
    <3> HIDE DEF g
    <3> QED
      BY <2>4, <2>5, <2>6 DEF Unfolds
  <2> QED
    BY <2>7
<1>3. 0..n \subseteq S
  <2> HIDE DEF S
  <2> QED
    BY <1>1, <1>2, SegmentInduction
<1> QED
  BY <1>3

LEMMA UnfoldsOneWay ==
  ASSUME NEW n \in Nat, NEW m \in Nat, n <= m, NEW V, NEW b, NEW F, NEW f, NEW g,
         Unfolds(f, n, V, b, F), Unfolds(g, m, V, b, F)
  PROVE  \A i \in 0..n : f[i] = g[i]
<1> DEFINE S == {i \in 0..n : f[i] = g[i]}
<1>1. 0 \in S
  BY DEF Unfolds
<1>2. ASSUME NEW i \in 1..n, i - 1 \in S PROVE i \in S
  <2>1. i \in 1..m /\ f[i] = F[i][f[i - 1]] /\ g[i] = F[i][g[i - 1]]
    BY DEF Unfolds
  <2> QED
    BY <1>2, <2>1
<1>3. 0..n \subseteq S
  <2> HIDE DEF S
  <2> QED
    BY <1>1, <1>2, SegmentInduction
<1> QED
  BY <1>3

UnfoldsOnNat(f, V, b, F) ==
  f \in [Nat -> V] /\ f[0] = b /\ \A i \in Nat \ {0} : f[i] = F[i][f[i - 1]]

LEMMA RecursionOnNat ==
  ASSUME NEW V, NEW b \in V, NEW F \in [Nat -> [V -> V]]
  PROVE  \E f : UnfoldsOnNat(f, V, b, F)
<1> DEFINE g(n) == CHOOSE f : Unfolds(f, n, V, b, F)
           h    == [n \in Nat |-> g(n)[n]]
<1>1. ASSUME NEW n \in Nat PROVE Unfolds(g(n), n, V, b, F)
  <2>1. \A i \in 1..n : F[i] \in [V -> V]
    OBVIOUS
  <2>2. \E f : Unfolds(f, n, V, b, F)
    BY <2>1, Recursion
  <2> QED
    BY <2>2
<1> HIDE DEF g
<1>2. ASSUME NEW n \in Nat PROVE g(n)[n] \in V
  BY <1>1 DEF Unfolds
<1>3. h[0] = b
  BY <1>1 DEF Unfolds
<1>4. ASSUME NEW i \in Nat \ {0} PROVE h[i] = F[i][h[i - 1]]
  <2>1. i - 1 \in Nat /\ i - 1 <= i /\ i \in 1..i /\ i - 1 \in 0..(i - 1)
    OBVIOUS
  <2>2. Unfolds(g(i), i, V, b, F) /\ Unfolds(g(i - 1), i - 1, V, b, F)
    BY <1>1, <2>1
  <2>3. g(i - 1)[i - 1] = g(i)[i - 1]
    BY <2>1, <2>2, UnfoldsOneWay
  <2>4. g(i)[i] = F[i][g(i)[i - 1]]
    BY <2>1, <2>2 DEF Unfolds
  <2> QED
    BY <2>1, <2>3, <2>4
<1>5. h \in [Nat -> V]
  BY <1>2
<1>6. UnfoldsOnNat(h, V, b, F)
  <2> HIDE DEF h
  <2> QED
    BY <1>3, <1>4, <1>5 DEF UnfoldsOnNat
<1> QED
  BY <1>6

-----------------------------------------------------------------------------
(* Decimal rounding.                                                       *)

LEMMA PowerDef ==
  /\ Power \in [Nat -> Nat]
  /\ Power[0] = 1 /\ \A k \in Nat \ {0} : Power[k] = 10 * Power[k - 1]
<1>1. PICK F \in [Nat -> [Nat -> Nat]] : \A i \in Nat, x \in Nat : F[i][x] = 10 * x
  <2> DEFINE G == [i \in Nat |-> [x \in Nat |-> 10 * x]]
  <2>1. G \in [Nat -> [Nat -> Nat]] /\ \A i \in Nat, x \in Nat : G[i][x] = 10 * x
    OBVIOUS
  <2> QED
    BY <2>1
<1>2. PICK f \in [Nat -> Nat] : f[0] = 1 /\ \A i \in Nat \ {0} : f[i] = F[i][f[i - 1]]
  <2>1. 1 \in Nat
    OBVIOUS
  <2>2. PICK f : UnfoldsOnNat(f, Nat, 1, F)
    BY <2>1, RecursionOnNat
  <2> QED
    BY <2>2 DEF UnfoldsOnNat
<1>3. ASSUME NEW i \in Nat \ {0} PROVE f[i] = 10 * f[i - 1]
  <2>1. i - 1 \in Nat /\ f[i - 1] \in Nat
    OBVIOUS
  <2> QED
    BY <1>1, <1>2, <2>1
<1>4. f = [k \in Nat |-> IF k = 0 THEN 1 ELSE 10 * f[k - 1]]
  BY <1>2, <1>3
<1>5. Power = [k \in Nat |-> IF k = 0 THEN 1 ELSE 10 * Power[k - 1]]
  BY <1>4, Zenon DEF Power
<1>6. Power[0] = 1 /\ \A k \in Nat \ {0} : Power[k] = 10 * Power[k - 1]
  BY <1>5
<1> DEFINE S == {k \in Nat : Power[k] \in Nat}
<1>7. Nat \subseteq S
  <2>1. 0 \in S
    BY <1>6
  <2>2. ASSUME NEW i \in Nat, i \in S PROVE i + 1 \in S
    <3>1. i + 1 \in Nat \ {0} /\ (i + 1) - 1 = i
      OBVIOUS
    <3>2. Power[i + 1] = 10 * Power[i] /\ Power[i] \in Nat
      BY <1>6, <2>2, <3>1
    <3>3. \A x \in Nat : 10 * x \in Nat
      OBVIOUS
    <3>4. Power[i + 1] \in Nat
      BY <3>2, <3>3, Zenon
    <3> QED
      BY <3>4
  <2> HIDE DEF S
  <2> QED
    BY <2>1, <2>2, SetInduction
<1>8. Power \in [Nat -> Nat]
  <2>1. \A k \in Nat : Power[k] \in Nat
    BY <1>7
  <2>2. \E G : Power = [k \in Nat |-> G[k]]
    <3> DEFINE G == [k \in Nat |-> IF k = 0 THEN 1 ELSE 10 * Power[k - 1]]
    <3>1. Power = [k \in Nat |-> G[k]]
      BY <1>5
    <3> QED
      BY <3>1
  <2> QED
    BY <2>1, <2>2
<1> QED
  BY <1>6, <1>8

\* Powers of ten are positive and outgrow their exponent.
LEMMA PowerGrows ==
  ASSUME NEW k \in Nat
  PROVE  Power[k] > k
<1> DEFINE S == {i \in Nat : Power[i] > i}
<1>1. 0 \in S
  BY PowerDef
<1>2. ASSUME NEW i \in Nat, i \in S PROVE i + 1 \in S
  <2>1. Power[i + 1] = 10 * Power[(i + 1) - 1] /\ (i + 1) - 1 = i /\ Power[i] \in Nat
    BY PowerDef
  <2> QED
    BY <1>2, <2>1
<1>3. Nat \subseteq S
  <2> HIDE DEF S
  <2> QED
    BY <1>1, <1>2, SetInduction
<1> QED
  BY <1>3

LEMMA PrecisionType == Power[Digits] \in Nat /\ Power[Digits] > 0
<1>1. Digits \in Nat
  BY BudgetAssumption
<1> QED
  BY <1>1, PowerDef, PowerGrows

LEMMA RoundedExact ==
  ASSUME NEW n \in Nat, n < Power[Digits]
  PROVE  Rounded(n) = n
<1> DEFINE Fits10(k) == n \div Power[k] < Power[Digits] /\ (k = 0 \/ n \div Power[k - 1] >= Power[Digits])
<1>1. 0 \in 0..n /\ Fits10(0)
  BY PowerDef
<1>2. ASSUME NEW k \in 0..n, Fits10(k) PROVE k = 0
  <2> SUFFICES ASSUME k # 0 PROVE FALSE
    OBVIOUS
  <2>1. k - 1 \in Nat /\ Power[k - 1] \in Nat /\ Power[k - 1] > 0 /\ Power[Digits] \in Nat
    BY PowerDef, PowerGrows, BudgetAssumption
  <2>2. n \div Power[k - 1] <= n
    BY <2>1
  <2>3. n \div Power[k - 1] >= Power[Digits] /\ n \div Power[k - 1] \in Nat
    BY <1>2, <2>1
  <2> QED
    BY <2>1, <2>2, <2>3
<1>3. Excess(n) = 0
  BY <1>1, <1>2 DEF Excess
<1>4. n \div 1 = n /\ n % 1 = 0
  OBVIOUS
<1> QED
  BY <1>3, <1>4, PowerDef DEF Rounded

LEMMA RoundedLarge ==
  ASSUME NEW n \in Nat, n >= Power[Digits]
  PROVE  Rounded(n) \in Nat /\ Rounded(n) >= Power[Digits]
<1> DEFINE Enough == {k \in 0..n : n \div Power[k] < Power[Digits]}
           k == Excess(n)
           P == Power[Digits]
<1>0. P \in Nat /\ P > 0 /\ \A i \in Nat : Power[i] \in Nat /\ Power[i] > 0
  BY PowerDef, PowerGrows, BudgetAssumption
<1>1. n \in Enough
  <2>1. Power[n] \in Nat /\ n < Power[n]
    BY PowerDef, PowerGrows
  <2>2. n \div Power[n] = 0
    BY <2>1
  <2> QED
    BY <1>0, <2>2
<1>2. PICK m \in Enough : \A j \in Enough : m <= j
  <2>1. Enough \subseteq Nat /\ Enough # {}
    BY <1>1
  <2> HIDE DEF Enough
  <2> QED
    BY <2>1, LeastMember
<1>3. m = 0 \/ n \div Power[m - 1] >= P
  <2> SUFFICES ASSUME m # 0 PROVE n \div Power[m - 1] >= P
    OBVIOUS
  <2>1. m - 1 \in 0..n /\ m - 1 \in Nat /\ ~ (m <= m - 1)
    OBVIOUS
  <2>2. m - 1 \notin Enough
    BY <1>2, <2>1
  <2>3. n \div Power[m - 1] \in Nat
    BY <1>0, <2>1
  <2> QED
    BY <1>0, <2>1, <2>2, <2>3
<1>4. k \in 0..n /\ n \div Power[k] < P /\ (k = 0 \/ n \div Power[k - 1] >= P)
  BY <1>2, <1>3 DEF Excess
<1> HIDE DEF k, Enough
<1>5. k # 0
  <2> SUFFICES ASSUME k = 0 PROVE FALSE
    OBVIOUS
  <2>1. n \div Power[0] < P
    BY <1>4
  <2>2. Power[0] = 1 /\ n \div 1 = n
    BY PowerDef
  <2> QED
    BY <1>0, <2>1, <2>2
<1>6. k - 1 \in Nat /\ Power[k] = 10 * Power[k - 1] /\ Power[Digits] = 10 * Power[Digits - 1] /\ Digits - 1 \in Nat
  BY <1>4, <1>5, PowerDef, BudgetAssumption
<1> DEFINE u == Power[k]
           v == Power[k - 1]
           a == Power[Digits - 1]
           q == n \div u
<1>7. u \in Nat /\ u > 0 /\ v \in Nat /\ v > 0 /\ a \in Nat /\ u = 10 * v /\ P = 10 * a
  BY <1>0, <1>4, <1>6
<1> HIDE DEF u, v, a, P
<1>8. q \in Nat /\ q * u <= n /\ n < (q + 1) * u
  BY <1>7
<1>9. P * v <= n
  <2>1. n \div v >= P /\ n \div v \in Nat /\ (n \div v) * v <= n
    BY <1>4, <1>5, <1>7 DEF v
  <2>2. P * v <= (n \div v) * v
    BY <1>0, <1>7, <2>1 DEF P
  <2> QED
    BY <1>0, <1>7, <2>1, <2>2 DEF P
<1>10. a * u <= n
  BY <1>7, <1>9
<1> HIDE DEF q
<1>11. a <= q
  <2> SUFFICES ASSUME q + 1 <= a PROVE FALSE
    BY <1>7, <1>8
  <2>1. (q + 1) * u <= a * u
    BY <1>7, <1>8
  <2> QED
    BY <1>7, <1>8, <1>10, <2>1
<1>12. q * u \in Nat /\ (q + 1) * u \in Nat /\ q * u <= (q + 1) * u
  BY <1>7, <1>8
<1>13. P <= q * u
  <2>1. a * u <= q * u
    BY <1>7, <1>8, <1>11
  <2>2. a * u = P * v /\ P <= P * v
    BY <1>7
  <2> QED
    BY <1>7, <1>12, <2>1, <2>2
<1>14. Rounded(n) \in {q * u, (q + 1) * u}
  BY DEF Rounded, q, u, k
<1> QED
  BY <1>12, <1>13, <1>14, <1>7 DEF P

-----------------------------------------------------------------------------
(* Sums.                                                                   *)

Adds(f, s, d) ==
  /\ f \in [0..Len(s) -> Nat] /\ f[0] = 0
  /\ \A i \in 1..Len(s) : f[i] = f[i - 1] + Quantity(s[i], d)

AddsRounded(f, s, d) ==
  /\ f \in [0..Len(s) -> Nat] /\ f[0] = 0
  /\ \A i \in 1..Len(s) :
       f[i] = IF d \in DOMAIN s[i].budget THEN Plus(f[i - 1], s[i].budget[d].quantity) ELSE f[i - 1]

Vectors    == UNION {[D -> [quantity : Nat, unit : Units]] : D \in SUBSET Dimensions}
Allocation == [child : Children, budget : Vectors]

LEMMA BatchesAreLists ==
  ASSUME NEW batch, IsBatch(batch)
  PROVE  batch \in Seq(Allocation)
<1>1. batch \in Seq({batch[i] : i \in DOMAIN batch})
  BY DEF IsBatch
<1>2. ASSUME NEW i \in DOMAIN batch PROVE batch[i] \in Allocation
  <2>1. batch[i] \in [child : Children, budget : {batch[i].budget}] /\ IsVector(batch[i].budget)
    BY DEF IsBatch
  <2>2. batch[i].budget \in Vectors
    BY <2>1 DEF IsVector, Vectors
  <2> QED
    BY <2>1, <2>2 DEF Allocation
<1> QED
  BY <1>1, <1>2

LEMMA QuantityType ==
  ASSUME NEW s \in Seq(Allocation), NEW d, NEW i \in 1..Len(s)
  PROVE  /\ Quantity(s[i], d) \in Nat
         /\ d \in DOMAIN s[i].budget => s[i].budget[d].quantity \in Nat
<1>1. s[i] \in Allocation
  OBVIOUS
<1>2. s[i].budget \in Vectors
  BY <1>1 DEF Allocation
<1> QED
  BY <1>2 DEF Vectors, Quantity

LEMMA RoundedType ==
  ASSUME NEW n \in Nat
  PROVE  Rounded(n) \in Nat
<1>1. Power[Digits] \in Nat
  BY PowerDef, BudgetAssumption
<1> QED
  BY <1>1, RoundedExact, RoundedLarge

LEMMA SumDef ==
  ASSUME NEW s \in Seq(Allocation), NEW d
  PROVE  \E f : Adds(f, s, d) /\ Sum(s, d) = f[Len(s)]
<1>0. Len(s) \in Nat
  OBVIOUS
<1> DEFINE n == Len(s)
           g == CHOOSE sum : sum = [i \in 0..Len(s) |-> IF i = 0 THEN 0 ELSE sum[i - 1] + Quantity(s[i], d)]
<1>1. PICK F : \A i \in 1..n : F[i] \in [Nat -> Nat] /\ \A x \in Nat : F[i][x] = x + Quantity(s[i], d)
  <2> DEFINE G == [i \in 1..n |-> [x \in Nat |-> x + Quantity(s[i], d)]]
  <2>1. ASSUME NEW i \in 1..n
        PROVE  G[i] \in [Nat -> Nat] /\ \A x \in Nat : G[i][x] = x + Quantity(s[i], d)
    <3>1. Quantity(s[i], d) \in Nat
      BY QuantityType
    <3> QED
      BY <3>1
  <2> QED
    BY <2>1
<1>2. PICK f : Unfolds(f, n, Nat, 0, F)
  <2>1. 0 \in Nat /\ \A i \in 1..n : F[i] \in [Nat -> Nat]
    BY <1>1
  <2> QED
    BY <1>0, <2>1, Recursion
<1>3. f \in [0..n -> Nat] /\ f[0] = 0 /\ \A i \in 1..n : f[i] = F[i][f[i - 1]]
  BY <1>2 DEF Unfolds
<1>4. ASSUME NEW i \in 1..n PROVE f[i] = f[i - 1] + Quantity(s[i], d)
  <2>1. f[i - 1] \in Nat
    BY <1>0, <1>3
  <2> QED
    BY <1>1, <1>3, <2>1
<1>5. Adds(f, s, d)
  BY <1>3, <1>4 DEF Adds
<1>6. f = [i \in 0..Len(s) |-> IF i = 0 THEN 0 ELSE f[i - 1] + Quantity(s[i], d)]
  BY <1>0, <1>3, <1>4
<1>7. g = [i \in 0..Len(s) |-> IF i = 0 THEN 0 ELSE g[i - 1] + Quantity(s[i], d)]
  BY <1>6, Zenon
<1>8. Sum(s, d) = g[Len(s)]
  BY Zenon DEF Sum
<1> HIDE DEF g
<1>9. \A i \in 0..n : g[i] = f[i]
  <2> DEFINE S == {i \in 0..n : g[i] = f[i]}
  <2>1. 0 \in S
    BY <1>0, <1>3, <1>7
  <2>2. ASSUME NEW i \in 1..n, i - 1 \in S PROVE i \in S
    <3>1. i \in 0..n /\ i # 0
      BY <1>0
    <3>2. g[i] = g[i - 1] + Quantity(s[i], d)
      BY <1>7, <3>1
    <3> QED
      BY <1>4, <2>2, <3>1, <3>2
  <2>3. 0..n \subseteq S
    <3> HIDE DEF S
    <3> QED
      BY <1>0, <2>1, <2>2, SegmentInduction
  <2> QED
    BY <2>3
<1> QED
  BY <1>0, <1>5, <1>8, <1>9

LEMMA AccumulatedDef ==
  ASSUME NEW s \in Seq(Allocation), NEW d
  PROVE  \E f : AddsRounded(f, s, d) /\ Accumulated(s, d) = f[Len(s)]
<1>0. Len(s) \in Nat
  OBVIOUS
<1> DEFINE n == Len(s)
           Next1(i, x) == IF d \in DOMAIN s[i].budget THEN Plus(x, s[i].budget[d].quantity) ELSE x
           g == CHOOSE total : total = [i \in 0..Len(s) |->
                  IF i = 0 THEN 0
                  ELSE IF d \in DOMAIN s[i].budget THEN Plus(total[i - 1], s[i].budget[d].quantity)
                  ELSE total[i - 1]]
<1>1. ASSUME NEW i \in 1..n, NEW x \in Nat PROVE Next1(i, x) \in Nat
  <2> SUFFICES ASSUME d \in DOMAIN s[i].budget PROVE Rounded(x + s[i].budget[d].quantity) \in Nat
    BY DEF Plus
  <2>1. x + s[i].budget[d].quantity \in Nat
    BY QuantityType
  <2> QED
    BY <2>1, RoundedType
<1>2. PICK F : \A i \in 1..n : F[i] \in [Nat -> Nat] /\ \A x \in Nat : F[i][x] = Next1(i, x)
  <2> HIDE DEF Next1
  <2> DEFINE G == [i \in 1..n |-> [x \in Nat |-> Next1(i, x)]]
  <2>1. \A i \in 1..n : G[i] \in [Nat -> Nat] /\ \A x \in Nat : G[i][x] = Next1(i, x)
    BY <1>1
  <2> QED
    BY <2>1
<1>3. PICK f : Unfolds(f, n, Nat, 0, F)
  <2>1. 0 \in Nat /\ \A i \in 1..n : F[i] \in [Nat -> Nat]
    BY <1>2
  <2> QED
    BY <1>0, <2>1, Recursion
<1>4. f \in [0..n -> Nat] /\ f[0] = 0 /\ \A i \in 1..n : f[i] = F[i][f[i - 1]]
  BY <1>3 DEF Unfolds
<1>5. ASSUME NEW i \in 1..n PROVE f[i] = Next1(i, f[i - 1])
  <2>1. f[i - 1] \in Nat
    BY <1>0, <1>4
  <2> HIDE DEF Next1
  <2> QED
    BY <1>2, <1>4, <2>1
<1>6. AddsRounded(f, s, d)
  BY <1>4, <1>5 DEF AddsRounded
<1>7. f = [i \in 0..Len(s) |-> IF i = 0 THEN 0 ELSE Next1(i, f[i - 1])]
  <2> HIDE DEF Next1
  <2> QED
    BY <1>0, <1>4, <1>5
<1>8. g = [i \in 0..Len(s) |-> IF i = 0 THEN 0 ELSE Next1(i, g[i - 1])]
  BY <1>7, Zenon
<1>9. Accumulated(s, d) = g[Len(s)]
  BY Zenon DEF Accumulated
<1> HIDE DEF g, Next1
<1>10. \A i \in 0..n : g[i] = f[i]
  <2> DEFINE S == {i \in 0..n : g[i] = f[i]}
  <2>1. 0 \in S
    BY <1>0, <1>4, <1>8
  <2>2. ASSUME NEW i \in 1..n, i - 1 \in S PROVE i \in S
    <3>1. i \in 0..n /\ i # 0
      BY <1>0
    <3>2. g[i] = Next1(i, g[i - 1])
      BY <1>8, <3>1
    <3> QED
      BY <1>5, <2>2, <3>1, <3>2
  <2>3. 0..n \subseteq S
    <3> HIDE DEF S
    <3> QED
      BY <1>0, <2>1, <2>2, SegmentInduction
  <2> QED
    BY <2>3
<1> QED
  BY <1>0, <1>6, <1>9, <1>10

\* As long as the exact sum has no more digits than the context, the sum that
\* is computed is exact; and once it has more, so has the one computed.
LEMMA RoundingIsHarmless ==
  ASSUME NEW s \in Seq(Allocation), NEW d
  PROVE  /\ Sum(s, d) \in Nat /\ Accumulated(s, d) \in Nat
         /\ Sum(s, d) < Power[Digits] => Accumulated(s, d) = Sum(s, d)
         /\ Sum(s, d) >= Power[Digits] => Accumulated(s, d) >= Power[Digits]
<1> DEFINE n == Len(s)
           P == Power[Digits]
<1>0. n \in Nat /\ P \in Nat /\ P > 0
  <2>1. n \in Nat
    OBVIOUS
  <2>2. P \in Nat /\ P > 0
    BY PrecisionType
  <2> QED
    BY <2>1, <2>2
<1>1. PICK f : Adds(f, s, d) /\ Sum(s, d) = f[Len(s)]
  BY SumDef
<1>2. PICK g : AddsRounded(g, s, d) /\ Accumulated(s, d) = g[Len(s)]
  BY AccumulatedDef
<1> DEFINE Agree(i) == (f[i] < P => g[i] = f[i]) /\ (f[i] >= P => g[i] >= P)
           S == {i \in 0..n : Agree(i)}
<1>3. 0 \in S
  BY <1>0, <1>1, <1>2 DEF Adds, AddsRounded
<1>4. ASSUME NEW i \in 1..n, i - 1 \in S PROVE i \in S
  <2> DEFINE x == f[i - 1]
             y == g[i - 1]
             q == Quantity(s[i], d)
  <2>1. i \in 0..n /\ i - 1 \in 0..n
    BY <1>0
  <2>2. x \in Nat /\ y \in Nat /\ q \in Nat /\ f[i] = x + q
    <3>1. x \in Nat /\ f[i] = x + q
      BY <1>1, <2>1 DEF Adds
    <3>2. y \in Nat
      BY <1>2, <2>1 DEF AddsRounded
    <3>3. q \in Nat
      BY QuantityType
    <3> QED
      BY <3>1, <3>2, <3>3
  <2>3. (x < P => y = x) /\ (x >= P => y >= P)
    BY <1>4
  <2>4. CASE d \notin DOMAIN s[i].budget
    <3>1. q = 0 /\ g[i] = y
      BY <1>2, <2>4 DEF AddsRounded, Quantity
    <3> HIDE DEF x, y, q, P
    <3> QED
      BY <1>0, <2>1, <2>2, <2>3, <3>1
  <2>5. CASE d \in DOMAIN s[i].budget
    <3>1. q = s[i].budget[d].quantity
      BY <2>5 DEF Quantity
    <3>2. g[i] = Rounded(y + q)
      BY <1>2, <2>5, <3>1 DEF AddsRounded, Plus
    <3> HIDE DEF x, y, q
    <3>3. y + q \in Nat
      BY <2>2
    <3>4. y + q < P => g[i] = y + q
      BY <3>2, <3>3, RoundedExact
    <3>5. y + q >= P => g[i] >= P
      BY <3>2, <3>3, RoundedLarge
    <3> HIDE DEF P
    <3> QED
      BY <1>0, <2>1, <2>2, <2>3, <3>4, <3>5
  <2> QED
    BY <2>4, <2>5
<1>5. 0..n \subseteq S
  <2> HIDE DEF S
  <2> QED
    BY <1>0, <1>3, <1>4, SegmentInduction
<1>6. Agree(n)
  BY <1>0, <1>5
<1>7. f[n] \in Nat /\ g[n] \in Nat
  BY <1>0, <1>1, <1>2 DEF Adds, AddsRounded
<1> QED
  BY <1>1, <1>2, <1>6, <1>7

\* What two lists take together is what they take one by one.
LEMMA SumOfBoth ==
  ASSUME NEW s \in Seq(Allocation), NEW t \in Seq(Allocation), NEW d
  PROVE  Sum(s \o t, d) = Sum(s, d) + Sum(t, d)
<1> DEFINE m == Len(s)
           n == Len(t)
           w == s \o t
<1>0. /\ m \in Nat /\ n \in Nat /\ w \in Seq(Allocation) /\ Len(w) = m + n
      /\ \A i \in 1..m : w[i] = s[i]
      /\ \A i \in 1..n : w[m + i] = t[i]
  OBVIOUS
<1>1. PICK f : Adds(f, s, d) /\ Sum(s, d) = f[m]
  BY SumDef
<1>2. PICK g : Adds(g, t, d) /\ Sum(t, d) = g[n]
  BY SumDef
<1>3. PICK h : Adds(h, w, d) /\ Sum(w, d) = h[m + n]
  BY <1>0, SumDef
<1>4. /\ f \in [0..m -> Nat] /\ f[0] = 0 /\ \A i \in 1..m : f[i] = f[i - 1] + Quantity(s[i], d)
      /\ g \in [0..n -> Nat] /\ g[0] = 0 /\ \A i \in 1..n : g[i] = g[i - 1] + Quantity(t[i], d)
      /\ h \in [0..(m + n) -> Nat] /\ h[0] = 0
      /\ \A i \in 1..(m + n) : h[i] = h[i - 1] + Quantity(w[i], d)
  BY <1>0, <1>1, <1>2, <1>3 DEF Adds
<1> HIDE DEF m, n, w
<1>5. h[m] = f[m]
  <2> DEFINE S == {i \in 0..m : h[i] = f[i]}
  <2>1. 0 \in S
    BY <1>0, <1>4
  <2>2. ASSUME NEW i \in 1..m, i - 1 \in S PROVE i \in S
    <3>1. i \in 1..(m + n) /\ w[i] = s[i] /\ i \in 0..m
      BY <1>0
    <3>2. h[i] = h[i - 1] + Quantity(s[i], d) /\ f[i] = f[i - 1] + Quantity(s[i], d)
      BY <1>4, <3>1
    <3> QED
      BY <2>2, <3>1, <3>2
  <2>3. 0..m \subseteq S
    <3> HIDE DEF S
    <3> QED
      BY <1>0, <2>1, <2>2, SegmentInduction
  <2> QED
    BY <1>0, <2>3
<1>6. h[m + n] = f[m] + g[n]
  <2> DEFINE S == {i \in 0..n : h[m + i] = f[m] + g[i]}
  <2>0. f[m] \in Nat
    BY <1>0, <1>4
  <2>1. 0 \in S
    BY <1>0, <1>4, <1>5, <2>0
  <2>2. ASSUME NEW i \in 1..n, i - 1 \in S PROVE i \in S
    <3>1. m + i \in 1..(m + n) /\ w[m + i] = t[i] /\ i \in 0..n /\ (m + i) - 1 = m + (i - 1)
      BY <1>0
    <3>2. h[m + i] = h[(m + i) - 1] + Quantity(t[i], d)
      BY <1>4, <3>1
    <3>3. g[i] = g[i - 1] + Quantity(t[i], d) /\ g[i - 1] \in Nat /\ Quantity(t[i], d) \in Nat
      <4>1. i - 1 \in 0..n
        BY <1>0
      <4>2. g[i] = g[i - 1] + Quantity(t[i], d) /\ g[i - 1] \in Nat
        BY <1>4, <4>1
      <4>3. Quantity(t[i], d) \in Nat
        BY QuantityType DEF n
      <4> QED
        BY <4>2, <4>3
    <3>4. h[m + (i - 1)] = f[m] + g[i - 1]
      BY <2>2
    <3> QED
      BY <2>0, <3>1, <3>2, <3>3, <3>4
  <2>3. 0..n \subseteq S
    <3> HIDE DEF S
    <3> QED
      BY <1>0, <2>1, <2>2, SegmentInduction
  <2> QED
    BY <1>0, <2>3
<1> QED
  BY <1>1, <1>2, <1>3, <1>5, <1>6 DEF w

LEMMA SumOfNothing ==
  ASSUME NEW d
  PROVE  Sum(<<>>, d) = 0
<1>1. <<>> \in Seq(Allocation) /\ Len(<<>>) = 0
  OBVIOUS
<1> QED
  BY <1>1, SumDef DEF Adds

-----------------------------------------------------------------------------
(* Batches.                                                                *)

LEMMA EmptyBatch == IsBatch(<<>>) /\ ChildrenOf(<<>>) = {}
  BY DEF IsBatch, ChildrenOf

\* Two batches without a child in common make one.
LEMMA BothBatches ==
  ASSUME NEW s, NEW b, IsBatch(s), IsBatch(b), ChildrenOf(b) \cap ChildrenOf(s) = {}
  PROVE  IsBatch(s \o b) /\ ChildrenOf(s \o b) = ChildrenOf(s) \cup ChildrenOf(b)
<1> DEFINE m == Len(s)
           n == Len(b)
           w == s \o b
<1>1. s \in Seq(Allocation) /\ b \in Seq(Allocation)
  BY BatchesAreLists
<1>2. /\ m \in Nat /\ n \in Nat /\ w \in Seq(Allocation)
      /\ DOMAIN s = 1..m /\ DOMAIN b = 1..n /\ DOMAIN w = 1..(m + n)
      /\ \A i \in 1..m : w[i] = s[i]
      /\ \A i \in 1..n : w[m + i] = b[i]
  BY <1>1
<1>3. w \in Seq({w[i] : i \in DOMAIN w})
  <2> DEFINE R == {w[i] : i \in DOMAIN w}
  <2>1. \A i \in DOMAIN w : w[i] \in R
    OBVIOUS
  <2>2. w \in Seq(Allocation)
    BY <1>2
  <2> HIDE DEF R, w
  <2>3. w \in Seq(R)
    BY <2>1, <2>2
  <2> QED
    BY <2>3 DEF R
<1> HIDE DEF w, m, n
<1>4. \A k \in 1..(m + n) : k \in 1..m \/ (k - m \in 1..n /\ m + (k - m) = k)
  BY <1>2
<1>5. \A i \in 1..m : i \in 1..(m + n)
  BY <1>2
<1>6. \A i \in 1..n : m + i \in 1..(m + n)
  BY <1>2
<1>7. \A k \in DOMAIN w : \/ k \in DOMAIN s /\ w[k] = s[k]
                          \/ k - m \in DOMAIN b /\ w[k] = b[k - m]
  <2> SUFFICES ASSUME NEW k \in 1..(m + n), k \notin 1..m
               PROVE  k - m \in 1..n /\ w[k] = b[k - m]
    BY <1>2
  <2>1. k - m \in 1..n /\ m + (k - m) = k
    BY <1>4
  <2>2. w[m + (k - m)] = b[k - m]
    BY <1>2, <2>1
  <2> QED
    BY <2>1, <2>2
<1>8. ASSUME NEW k \in DOMAIN w
      PROVE  w[k] \in [child : Children, budget : {w[k].budget}] /\ IsVector(w[k].budget)
  BY <1>7 DEF IsBatch
<1>9. ASSUME NEW i \in DOMAIN w, NEW j \in DOMAIN w, w[i].child = w[j].child PROVE i = j
  <2>1. \A x \in DOMAIN s, y \in DOMAIN b : s[x].child # b[y].child
    BY DEF ChildrenOf
  <2>2. CASE i \in DOMAIN s /\ w[i] = s[i] /\ j \in DOMAIN s /\ w[j] = s[j]
    BY <1>9, <2>2 DEF IsBatch
  <2>3. CASE i - m \in DOMAIN b /\ w[i] = b[i - m] /\ j - m \in DOMAIN b /\ w[j] = b[j - m]
    <3>1. i - m = j - m
      BY <1>9, <2>3 DEF IsBatch
    <3> QED
      BY <1>2, <3>1
  <2> QED
    BY <1>7, <1>9, <2>1, <2>2, <2>3
<1>10. IsBatch(w)
  BY <1>3, <1>8, <1>9 DEF IsBatch
<1>11. ChildrenOf(w) = ChildrenOf(s) \cup ChildrenOf(b)
  <2>1. ChildrenOf(w) \subseteq ChildrenOf(s) \cup ChildrenOf(b)
    BY <1>7 DEF ChildrenOf
  <2>2. ASSUME NEW i \in DOMAIN s PROVE s[i].child \in ChildrenOf(w)
    <3>1. i \in DOMAIN w /\ w[i] = s[i]
      BY <1>2, <1>5
    <3> QED
      BY <3>1 DEF ChildrenOf
  <2>3. ASSUME NEW i \in DOMAIN b PROVE b[i].child \in ChildrenOf(w)
    <3>1. m + i \in DOMAIN w /\ w[m + i] = b[i]
      BY <1>2, <1>6
    <3> QED
      BY <3>1 DEF ChildrenOf
  <2>4. ChildrenOf(s) \subseteq ChildrenOf(w) /\ ChildrenOf(b) \subseteq ChildrenOf(w)
    <3> DEFINE C == ChildrenOf(w)
    <3> HIDE DEF C
    <3>1. \A i \in DOMAIN s : s[i].child \in C
      BY <2>2 DEF C
    <3>2. \A i \in DOMAIN b : b[i].child \in C
      BY <2>3 DEF C
    <3>3. ChildrenOf(s) \subseteq C /\ ChildrenOf(b) \subseteq C
      BY <3>1, <3>2 DEF ChildrenOf
    <3> QED
      BY <3>3 DEF C
  <2> QED
    BY <2>1, <2>4
<1> QED
  BY <1>10, <1>11 DEF w

\* The check on the rounded total decides what the exact total says.
LEMMA WithinIsExact ==
  ASSUME Precise, NEW p \in Parents, NEW batch, IsBatch(allocations[p]), IsBatch(batch),
         NEW d \in DOMAIN LimitsOf[p]
  PROVE  /\ Issued(p, d) \in Nat /\ Sum(batch, d) \in Nat /\ LimitsOf[p][d].quantity \in Nat
         /\ Total(p, batch, d) <= LimitsOf[p][d].quantity
              <=> Issued(p, d) + Sum(batch, d) <= LimitsOf[p][d].quantity
<1> DEFINE s == allocations[p]
           P == Power[Digits]
           limit == LimitsOf[p][d].quantity
<1>1. s \in Seq(Allocation) /\ batch \in Seq(Allocation) /\ s \o batch \in Seq(Allocation)
  BY BatchesAreLists
<1>2. Sum(s, d) \in Nat /\ Sum(batch, d) \in Nat
  BY <1>1, RoundingIsHarmless
<1>3. limit \in Nat
  BY BudgetAssumption DEF IsVector
<1>4. limit < P /\ P \in Nat
  BY PrecisionType DEF Precise
<1>5. Sum(s \o batch, d) = Sum(s, d) + Sum(batch, d)
  BY <1>1, SumOfBoth
<1> DEFINE x == Sum(s \o batch, d)
           y == Accumulated(s \o batch, d)
<1>6. x \in Nat /\ y \in Nat /\ (x < P => y = x) /\ (x >= P => y >= P)
  BY <1>1, RoundingIsHarmless
<1>7. y <= limit <=> x <= limit
  <2> HIDE DEF x, y, P, limit
  <2> QED
    BY <1>3, <1>4, <1>6
<1> QED
  BY <1>2, <1>3, <1>5, <1>7 DEF Issued, Total

-----------------------------------------------------------------------------
(* The inductive invariant.                                                *)

\* A call that has been checked is the only one, and is for a recorded parent.
LEMMA UpdateIsChecked ==
  ASSUME AllocationInv, NEW t \in Threads, pc[t] = "update"
  PROVE  /\ lock = t
         /\ call[t].parent \in Parents /\ call[t].batch \in Batches /\ IsBatch(call[t].batch)
         /\ Admits(call[t].parent, call[t].batch)
<1>1. call[t] # NoCall /\ call[t] \in [parent : Parents, batch : Batches] \cup {NoCall}
  BY DEF AllocationInv, TypeOK
<1>2. call[t].parent \in Parents /\ call[t].batch \in Batches
  BY <1>1
<1> QED
  BY <1>2, BudgetAssumption DEF AllocationInv

\* What Updates does to the recorded allocations.
LEMMA UpdateAppends ==
  ASSUME AllocationInv, NEW t \in Threads, Updates(t), NEW q \in Parents
  PROVE  /\ pc[t] = "update" /\ DOMAIN allocations' = Parents
         /\ q = call[t].parent => /\ allocations'[q] = allocations[q] \o call[t].batch
                                  /\ IsBatch(allocations'[q])
                                  /\ ChildrenOf(allocations'[q])
                                       = ChildrenOf(allocations[q]) \cup ChildrenOf(call[t].batch)
         /\ q # call[t].parent => allocations'[q] = allocations[q]
<1>1. /\ pc[t] = "update" /\ DOMAIN allocations = Parents /\ IsBatch(allocations[q])
      /\ allocations' = [allocations EXCEPT ![call[t].parent] = @ \o call[t].batch]
  BY DEF Updates, AllocationInv, TypeOK
<1>2. IsNew(call[t].parent, call[t].batch) /\ IsBatch(call[t].batch)
  BY <1>1, UpdateIsChecked DEF Admits
<1>3. ASSUME q = call[t].parent
      PROVE  /\ IsBatch(allocations[q] \o call[t].batch)
             /\ ChildrenOf(allocations[q] \o call[t].batch)
                  = ChildrenOf(allocations[q]) \cup ChildrenOf(call[t].batch)
  <2>1. ChildrenOf(call[t].batch) \cap ChildrenOf(allocations[q]) = {}
    BY <1>2, <1>3 DEF IsNew
  <2> QED
    BY <1>1, <1>2, <2>1, BothBatches
<1> QED
  BY <1>1, <1>3

LEMMA AllocationInit == Init => AllocationInv
<1> SUFFICES ASSUME Init PROVE AllocationInv
  OBVIOUS
<1>1. TypeOK
  BY EmptyBatch DEF Init, TypeOK
<1>2. \A t \in Threads : pc[t] = "idle"
  BY DEF Init
<1> QED
  BY <1>1, <1>2 DEF AllocationInv

LEMMA AllocationNext == AllocationInv /\ [Next]_vars => AllocationInv'
<1> SUFFICES ASSUME AllocationInv, [Next]_vars PROVE AllocationInv'
  OBVIOUS
<1> USE DEF AllocationInv
<1>0. TypeOK /\ None \notin Threads /\ \A b \in Batches : IsBatch(b)
  BY BudgetAssumption
<1>1. ASSUME NEW t \in Threads, NEW p \in Parents, RegisterParent(t, p) PROVE AllocationInv'
  <2>1. TypeOK'
    BY <1>0, <1>1 DEF RegisterParent, TypeOK
  <2>2. ASSUME NEW s \in Threads PROVE pc'[s] # "update" /\ pc' = pc /\ call' = call
    BY <1>0, <1>1 DEF RegisterParent
  <2> QED
    BY <2>1, <2>2
<1>2. ASSUME NEW t \in Threads, NEW p \in Parents, NEW batch \in Batches, CallAllocate(t, p, batch)
      PROVE  AllocationInv'
  <2>0. [parent |-> p, batch |-> batch] # NoCall
    BY BudgetAssumption DEF NoCall
  <2>1. TypeOK'
    BY <1>0, <1>2 DEF CallAllocate, TypeOK
  <2>2. ASSUME NEW s \in Threads
        PROVE  /\ pc'[s] # "idle" => call'[s] # NoCall
               /\ pc'[s] = "update" => lock' = s /\ Admits(call[s].parent, call[s].batch)'
    <3>1. CASE s = t
      BY <1>0, <1>2, <2>0, <3>1 DEF CallAllocate, TypeOK
    <3>2. CASE s # t
      <4>1. pc'[s] = pc[s] /\ call'[s] = call[s] /\ lock' = lock
        BY <1>0, <1>2, <3>2 DEF CallAllocate, TypeOK
      <4>2. allocations' = allocations /\ registered' = registered
        BY <1>2 DEF CallAllocate
      <4>3. Admits(call[s].parent, call[s].batch) => Admits(call[s].parent, call[s].batch)'
        BY <4>1, <4>2 DEF Admits, IsNew, Comparable, Within, Total
      <4> QED
        BY <4>1, <4>3
    <3> QED
      BY <3>1, <3>2
  <2> QED
    BY <2>1, <2>2
<1>3. ASSUME NEW t \in Threads, Refuses(t) PROVE AllocationInv'
  <2>1. TypeOK'
    BY <1>0, <1>3 DEF Refuses, Return, TypeOK
  <2>2. ASSUME NEW s \in Threads PROVE pc'[s] # "update" /\ (pc'[s] # "idle" => call'[s] # NoCall)
    BY <1>0, <1>3 DEF Refuses, Return, TypeOK
  <2> QED
    BY <2>1, <2>2
<1>4. ASSUME NEW t \in Threads, Checks(t) PROVE AllocationInv'
  <2>1. TypeOK'
    BY <1>0, <1>4 DEF Checks, TypeOK
  <2>2. ASSUME NEW s \in Threads
        PROVE  /\ pc'[s] # "idle" => call'[s] # NoCall
               /\ pc'[s] = "update" => lock' = s /\ Admits(call[s].parent, call[s].batch)'
    <3>1. UNCHANGED allocations /\ registered' = registered /\ call' = call
      BY <1>4 DEF Checks
    <3>2. pc[s] # "update" /\ (s # t => pc'[s] = pc[s]) /\ lock' = t /\ pc[t] # "idle"
      BY <1>0, <1>4 DEF Checks, TypeOK
    <3>3. Admits(call[t].parent, call[t].batch) /\ UNCHANGED call[t]
      BY <1>4, <3>1 DEF Checks
    <3>4. Admits(call[t].parent, call[t].batch)'
      BY <3>1, <3>3 DEF Admits, IsNew, Comparable, Within, Total
    <3> QED
      BY <3>1, <3>2, <3>4
  <2> QED
    BY <2>1, <2>2
<1>5. ASSUME NEW t \in Threads, Updates(t) PROVE AllocationInv'
  <2>1. lock = t /\ pc[t] = "update"
    BY <1>5, UpdateIsChecked DEF Updates
  <2>2. TypeOK'
    <3>1. DOMAIN allocations' = Parents /\ \A q \in Parents : IsBatch(allocations'[q])
      <4>1. DOMAIN allocations' = Parents
        BY <1>0, <1>5 DEF Updates, TypeOK
      <4>2. ASSUME NEW q \in Parents PROVE IsBatch(allocations'[q])
        BY <1>0, <1>5, UpdateAppends DEF TypeOK
      <4> QED
        BY <4>1, <4>2
    <3>2. /\ registered' \subseteq Parents /\ lock' \in Threads \cup {None}
          /\ pc' \in [Threads -> {"idle", "allocate", "update"}]
          /\ call' \in [Threads -> [parent : Parents, batch : Batches] \cup {NoCall}]
      BY <1>0, <1>5 DEF Updates, Return, TypeOK
    <3> QED
      BY <3>1, <3>2 DEF TypeOK
  <2>3. ASSUME NEW s \in Threads PROVE pc'[s] # "update" /\ (pc'[s] # "idle" => call'[s] # NoCall)
    <3>1. s # t => pc[s] # "update"
      BY <2>1
    <3> QED
      BY <1>0, <1>5, <3>1 DEF Updates, Return, TypeOK
  <2> QED
    BY <2>2, <2>3
<1>6. CASE UNCHANGED vars
  <2>1. TypeOK'
    BY <1>0, <1>6 DEF vars, TypeOK
  <2>2. UNCHANGED <<registered, allocations, lock, pc, call>>
    BY <1>6 DEF vars
  <2>3. ASSUME NEW s \in Threads
        PROVE  Admits(call[s].parent, call[s].batch) => Admits(call[s].parent, call[s].batch)'
    BY <2>2 DEF Admits, IsNew, Comparable, Within, Total
  <2> QED
    BY <2>1, <2>2, <2>3
<1> QED
  BY <1>1, <1>2, <1>3, <1>4, <1>5, <1>6 DEF Next

\* What is recorded and asked for is well formed, a child is recorded once,
\* and what was checked still holds when it is recorded (allocate_batch).
THEOREM CheckedUntilUpdated == Spec => []AllocationInv
  BY AllocationInit, AllocationNext, PTL DEF Spec

-----------------------------------------------------------------------------
(* Budgets.                                                                *)

\* An update adds what the batch takes, and the exact total stays in the limit.
LEMMA UpdateIsWithin ==
  ASSUME Precise, AllocationInv, NEW t \in Threads, Updates(t),
         NEW p \in Parents, NEW d \in DOMAIN LimitsOf[p]
  PROVE  /\ p = call[t].parent =>
              /\ Issued(p, d)' = Issued(p, d) + Sum(call[t].batch, d)
              /\ Issued(p, d) + Sum(call[t].batch, d) <= LimitsOf[p][d].quantity
              /\ Issued(p, d) \in Nat /\ Sum(call[t].batch, d) \in Nat
         /\ p # call[t].parent => Issued(p, d)' = Issued(p, d)
<1>1. pc[t] = "update" /\ IsBatch(allocations[p])
  BY DEF AllocationInv, TypeOK, Updates
<1>2. CASE p = call[t].parent
  <2> DEFINE b == call[t].batch
  <2>1. IsBatch(b) /\ Within(p, b)
    BY <1>1, <1>2, UpdateIsChecked DEF Admits
  <2>2. Total(p, b, d) <= LimitsOf[p][d].quantity
    BY <2>1 DEF Within
  <2>3. /\ Issued(p, d) + Sum(b, d) <= LimitsOf[p][d].quantity
        /\ Issued(p, d) \in Nat /\ Sum(b, d) \in Nat
    <3> HIDE DEF b
    <3> QED
      BY <1>1, <2>1, <2>2, WithinIsExact
  <2>4. allocations'[p] = allocations[p] \o b
    BY <1>2, UpdateAppends
  <2>5. Sum(allocations[p] \o b, d) = Sum(allocations[p], d) + Sum(b, d)
    <3>1. allocations[p] \in Seq(Allocation) /\ b \in Seq(Allocation)
      BY <1>1, <2>1, BatchesAreLists
    <3> QED
      BY <3>1, SumOfBoth
  <2> QED
    BY <1>2, <2>3, <2>4, <2>5 DEF Issued
<1>3. CASE p # call[t].parent
  BY <1>3, UpdateAppends DEF Issued
<1> QED
  BY <1>2, <1>3

\* The steps that record nothing.
LEMMA OthersRecordNothing ==
  ASSUME [Next]_vars, ~ \E t \in Threads : Updates(t)
  PROVE  UNCHANGED allocations
BY DEF Next, vars, RegisterParent, CallAllocate, Refuses, Checks

LEMMA InitConserved == Init => Conserved
<1> SUFFICES ASSUME Init, NEW p \in Parents, NEW d \in DOMAIN LimitsOf[p]
             PROVE  Issued(p, d) <= LimitsOf[p][d].quantity
  BY DEF Conserved
<1>1. Issued(p, d) = 0
  BY SumOfNothing DEF Init, Issued
<1>2. LimitsOf[p][d].quantity \in Nat
  BY BudgetAssumption DEF IsVector
<1> QED
  BY <1>1, <1>2

LEMMA NextConserved ==
  ASSUME Precise, AllocationInv, Conserved, [Next]_vars
  PROVE  Conserved'
<1> SUFFICES ASSUME NEW p \in Parents, NEW d \in DOMAIN LimitsOf[p]
             PROVE  Issued(p, d)' <= LimitsOf[p][d].quantity
  BY DEF Conserved
<1>1. CASE \E t \in Threads : Updates(t)
  <2>1. PICK t \in Threads : Updates(t)
    BY <1>1
  <2> QED
    BY <2>1, UpdateIsWithin DEF Conserved
<1>2. CASE ~ \E t \in Threads : Updates(t)
  BY <1>2, OthersRecordNothing DEF Issued, Conserved
<1> QED
  BY <1>1, <1>2

\* Sibling budgets never add up to more than the parent's, whatever threads
\* allocate at the same time, as long as limits fit the decimal context.
THEOREM BudgetsAreConserved ==
  ASSUME Precise
  PROVE  Spec => []Conserved
<1>1. Conserved /\ AllocationInv /\ [Next]_vars => Conserved'
  BY NextConserved
<1> QED
  BY <1>1, InitConserved, CheckedUntilUpdated, PTL DEF Spec

\* Neither rounding nor another thread makes allocate_batch refuse a batch
\* that fits what the parent has left, as long as limits fit the context.
THEOREM FittingBatchesAreAdmitted ==
  ASSUME Precise
  PROVE  Spec => FittingIsNotRefused
<1>1. ASSUME AllocationInv, NEW t \in Threads, Refuses(t), call[t].parent \in registered,
             IsNew(call[t].parent, call[t].batch), Comparable(call[t].parent, call[t].batch),
             Fits(call[t].parent, call[t].batch)
      PROVE  FALSE
  <2> DEFINE p == call[t].parent
             b == call[t].batch
  <2>1. p \in Parents /\ IsBatch(b) /\ IsBatch(allocations[p])
    <3>1. call[t] # NoCall
      BY <1>1 DEF AllocationInv, Refuses
    <3>2. call[t].parent \in Parents /\ call[t].batch \in Batches
      BY <1>1, <3>1 DEF AllocationInv, TypeOK
    <3> QED
      BY <1>1, <3>2, BudgetAssumption DEF AllocationInv, TypeOK
  <2>2. ASSUME NEW d \in DOMAIN LimitsOf[p] PROVE Total(p, b, d) <= LimitsOf[p][d].quantity
    <3>1. Issued(p, d) + Sum(b, d) <= LimitsOf[p][d].quantity
      BY <1>1 DEF Fits
    <3> HIDE DEF p, b
    <3> QED
      BY <2>1, <3>1, WithinIsExact
  <2>3. Within(p, b)
    BY <2>2 DEF Within
  <2> QED
    BY <1>1, <2>3 DEF Refuses, Admits
<1> DEFINE Step == \A t \in Threads :
       LET p == call[t].parent IN
       Refuses(t) /\ p \in registered /\ IsNew(p, call[t].batch) /\ Comparable(p, call[t].batch)
         => ~Fits(p, call[t].batch)
<1>2. AllocationInv /\ [Next]_vars => [Step]_vars
  BY <1>1
<1> QED
  BY <1>2, CheckedUntilUpdated, PTL DEF Spec, FittingIsNotRefused

-----------------------------------------------------------------------------
(* The refinement.                                                         *)

Balance == [p \in Parents |-> [d \in DOMAIN LimitsOf[p] |-> LimitsOf[p][d].quantity - Issued(p, d)]]
Issuing == [p \in Parents |-> ChildrenOf(allocations[p])]

\* The definitions that the ledger and the authority share.
LEMMA SameBatches ==
  ASSUME NEW s, NEW d
  PROVE  Authority!ChildrenOf(s) = ChildrenOf(s) /\ Authority!Sum(s, d) = Sum(s, d)
BY DEF Authority!ChildrenOf, ChildrenOf, Authority!Sum, Sum, Authority!Quantity, Quantity

LEMMA InitAuthority == Init => Authority!Init
<1> SUFFICES ASSUME Init PROVE Authority!Init
  OBVIOUS
<1>1. ASSUME NEW p \in Parents, NEW d \in DOMAIN LimitsOf[p]
      PROVE  LimitsOf[p][d].quantity - Issued(p, d) = LimitsOf[p][d].quantity
  <2>1. Issued(p, d) = 0
    BY SumOfNothing DEF Init, Issued
  <2>2. LimitsOf[p][d].quantity \in Nat
    BY BudgetAssumption DEF IsVector
  <2> QED
    BY <2>1, <2>2
<1>2. Balance = [p \in Parents |-> [d \in DOMAIN LimitsOf[p] |-> LimitsOf[p][d].quantity]]
  BY <1>1 DEF Balance
<1>3. \A p \in Parents : ChildrenOf(allocations[p]) = {}
  BY EmptyBatch DEF Init
<1> QED
  BY <1>2, <1>3 DEF Authority!Init, Init, Balance

\* An update issues the whole batch out of the balance.
LEMMA UpdateIssues ==
  ASSUME Precise, AllocationInv, NEW t \in Threads, Updates(t)
  PROVE  \E p \in Parents, batch \in Batches : Authority!Issue(p, batch)
<1>1. pc[t] = "update" /\ registered' = registered
  BY DEF Updates
<1>0. PICK p \in Parents, b \in Batches : p = call[t].parent /\ b = call[t].batch
  BY <1>1, UpdateIsChecked
<1>2. IsBatch(b) /\ Admits(p, b)
  BY <1>0, <1>1, UpdateIsChecked
<1>3. ASSUME NEW d \in DOMAIN LimitsOf[p]
      PROVE  /\ Issued(p, d)' = Issued(p, d) + Sum(b, d)
             /\ Issued(p, d) + Sum(b, d) <= LimitsOf[p][d].quantity
             /\ Issued(p, d) \in Nat /\ Sum(b, d) \in Nat /\ LimitsOf[p][d].quantity \in Nat
  <2>1. LimitsOf[p][d].quantity \in Nat
    BY <1>2, BudgetAssumption DEF IsVector
  <2> QED
    BY <1>0, <2>1, UpdateIsWithin
<1>4. \A d \in DOMAIN LimitsOf[p] : Sum(b, d) <= Balance[p][d]
  BY <1>2, <1>3 DEF Balance
<1>5. Balance' = [Balance EXCEPT ![p] = [d \in DOMAIN LimitsOf[p] |-> Balance[p][d] - Sum(b, d)]]
  <2>1. ASSUME NEW q \in Parents, NEW d \in DOMAIN LimitsOf[q]
        PROVE  LimitsOf[q][d].quantity - Issued(q, d)'
                 = IF q = p THEN Balance[p][d] - Sum(b, d) ELSE Balance[q][d]
    <3>1. CASE q = p
      BY <1>2, <1>3, <3>1 DEF Balance
    <3>2. CASE q # p
      BY <1>0, <3>2, UpdateIsWithin DEF Balance
    <3> QED
      BY <3>1, <3>2
  <2> QED
    BY <1>2, <2>1 DEF Balance
<1>6. Issuing' = [Issuing EXCEPT ![p] = @ \cup ChildrenOf(b)]
  <2>1. ASSUME NEW q \in Parents
        PROVE  ChildrenOf(allocations'[q])
                 = IF q = p THEN Issuing[q] \cup ChildrenOf(b) ELSE Issuing[q]
    BY <1>0, UpdateAppends DEF Issuing
  <2> QED
    BY <1>2, <2>1 DEF Issuing
<1>7. ASSUME NEW i \in DOMAIN b
      PROVE  /\ b[i].child \notin Issuing[p]
             /\ \A d \in DOMAIN b[i].budget :
                  d \in DOMAIN LimitsOf[p] /\ b[i].budget[d].unit = LimitsOf[p][d].unit
  BY <1>2 DEF Admits, IsNew, Comparable, Issuing, ChildrenOf
<1>8. Authority!Issue(p, b)
  <2>1. p \in registered
    BY <1>2 DEF Admits
  <2>2. \A d \in DOMAIN LimitsOf[p] : Authority!Sum(b, d) <= Balance[p][d]
    BY <1>4, SameBatches
  <2>3. Balance' = [Balance EXCEPT ![p] = [d \in DOMAIN LimitsOf[p] |-> Balance[p][d] - Authority!Sum(b, d)]]
    BY <1>5, SameBatches
  <2>4. Issuing' = [Issuing EXCEPT ![p] = @ \cup Authority!ChildrenOf(b)]
    BY <1>6, SameBatches
  <2> QED
    BY <1>1, <1>7, <2>1, <2>2, <2>3, <2>4 DEF Authority!Issue, Balance, Issuing
<1> QED
  BY <1>8

LEMMA NextAuthority ==
  ASSUME Precise, AllocationInv, [Next]_vars
  PROVE  [Authority!Next]_(Authority!vars)
<1> USE DEF Authority!vars
<1>1. CASE \E t \in Threads : Updates(t)
  <2>1. PICK t \in Threads : Updates(t)
    BY <1>1
  <2>2. \E p \in Parents, batch \in Batches : Authority!Issue(p, batch)
    BY <2>1, UpdateIssues
  <2> QED
    BY <2>2 DEF Authority!Next
<1>2. ASSUME NEW t \in Threads, NEW p \in Parents, RegisterParent(t, p)
      PROVE  Authority!Next
  <2>1. Authority!Register(p)
    BY <1>2 DEF RegisterParent, Authority!Register, Issued
  <2> QED
    BY <2>1 DEF Authority!Next
<1>3. ASSUME UNCHANGED <<registered, allocations>>
      PROVE  UNCHANGED Authority!vars
  BY <1>3 DEF Issued
<1>4. \/ \E t \in Threads : Updates(t) \/ \E p \in Parents : RegisterParent(t, p)
      \/ UNCHANGED <<registered, allocations>>
  BY DEF Next, vars, CallAllocate, Refuses, Checks
<1> QED
  BY <1>1, <1>2, <1>3, <1>4

\* The ledger, with its threads, its lock and its rounded totals, is a budget
\* authority: it issues whole batches of new children out of the balance.
THEOREM LedgerIsBudgetAuthority ==
  ASSUME Precise
  PROVE  Spec => KeepsBudget
<1>1. AllocationInv /\ [Next]_vars => [Authority!Next]_(Authority!vars)
  BY NextAuthority
<1> QED
  BY <1>1, InitAuthority, CheckedUntilUpdated, PTL DEF Spec, KeepsBudget, Authority!Spec
=============================================================================

---------------------------- MODULE PowersProofs ----------------------------
(***************************************************************************)
(* Natural numbers: the least element of a set, which stands in for        *)
(* induction in the other proofs, and the recursion that powers satisfy.   *)
(***************************************************************************)
EXTENDS Powers, WellFoundedInduction, TLAPS

\* A nonempty set of naturals has a least element.
LEMMA LeastNat ==
    ASSUME NEW S \in SUBSET Nat, S # {}
    PROVE  \E m \in S : \A n \in S : m <= n
<1> DEFINE Less == {p \in Nat \X Nat : p[1] < p[2]}
<1>1. IsWellFoundedOn(Less, Nat)
  BY NatLessThanWellFounded DEF OpToRel
<1>2. \A m, n \in Nat : n < m => <<n, m>> \in Less
  OBVIOUS
<1> HIDE DEF Less
<1>3. PICK m \in S : \A n \in S : ~ (<<n, m>> \in Less)
  BY <1>1, WFMin
<1>4. ASSUME NEW n \in S PROVE m <= n
  <2>1. m \in Nat /\ n \in Nat
    BY <1>3
  <2>2. ~ (n < m)
    BY <2>1, <1>2, <1>3
  <2> QED
    BY <2>1, <2>2
<1> QED
  BY <1>4

-----------------------------------------------------------------------------
(* The function Power picks exists: tables of its first values exist, two   *)
(* of them agree where both are defined, and the function reads each value  *)
(* off a table that is long enough.                                         *)

\* f lists the powers of base up to base^n.
Table(base, n, f) ==
    /\ f \in [0..n -> Nat]
    /\ f[0] = 1
    /\ \A k \in 1..n : f[k] = base * f[k-1]

LEMMA TableExists ==
    ASSUME NEW base \in Nat, NEW n \in Nat
    PROVE  \E f : Table(base, n, f)
<1> DEFINE Missing == {k \in Nat : ~ \E f : Table(base, k, f)}
<1>1. ASSUME Missing # {} PROVE FALSE
  <2>1. PICK k \in Missing : \A j \in Missing : k <= j
    <3>1. Missing \in SUBSET Nat
      OBVIOUS
    <3> HIDE DEF Missing
    <3> QED
      BY <1>1, <3>1, LeastNat
  <2>2. k # 0
    <3>1. Table(base, 0, [j \in 0..0 |-> 1])
      BY DEF Table
    <3> QED
      BY <2>1, <3>1
  <2>3. k - 1 \in Nat /\ k - 1 \notin Missing
    BY <2>1, <2>2
  <2>4. PICK f : Table(base, k - 1, f)
    BY <2>3
  <2> DEFINE g == [j \in 0..k |-> IF j = k THEN base * f[k-1] ELSE f[j]]
  <2>5. /\ f \in [0..(k-1) -> Nat] /\ f[0] = 1
        /\ \A j \in 1..(k-1) : f[j] = base * f[j-1]
    BY <2>4 DEF Table
  <2>6. k \in Nat
    BY <2>1
  <2>7. f[k-1] \in Nat
    BY <2>2, <2>5, <2>6
  <2>8. base * f[k-1] \in Nat
    BY <2>7
  <2>9. g \in [0..k -> Nat]
    BY <2>5, <2>6, <2>8
  <2>10. g[0] = 1
    BY <2>2, <2>5, <2>6
  <2>11. ASSUME NEW j \in 1..k PROVE g[j] = base * g[j-1]
    <3>1. CASE j = k
      BY <3>1, <2>6
    <3>2. CASE j # k
      <4>1. j \in 1..(k-1) /\ j - 1 \in 0..k /\ j - 1 # k /\ j \in 0..k
        BY <3>2, <2>6
      <4>2. g[j] = f[j] /\ g[j-1] = f[j-1]
        BY <4>1, <3>2
      <4> QED
        BY <4>1, <4>2, <2>5
    <3> QED
      BY <3>1, <3>2
  <2>12. Table(base, k, g)
    BY <2>9, <2>10, <2>11 DEF Table
  <2> QED
    BY <2>1, <2>12
<1> QED
  BY <1>1

LEMMA TablesAgree ==
    ASSUME NEW base \in Nat, NEW m \in Nat, NEW n \in Nat, NEW f, NEW g,
           Table(base, m, f), Table(base, n, g),
           NEW j \in 0..m, j \in 0..n
    PROVE  f[j] = g[j]
<1> DEFINE Differ == {k \in 0..m : k \in 0..n /\ f[k] # g[k]}
<1>1. ASSUME Differ # {} PROVE FALSE
  <2>1. PICK k \in Differ : \A i \in Differ : k <= i
    <3>1. Differ \in SUBSET Nat
      OBVIOUS
    <3> HIDE DEF Differ
    <3> QED
      BY <1>1, <3>1, LeastNat
  <2>2. k # 0
    BY <2>1 DEF Table
  <2>3. /\ k - 1 \in 0..m /\ k - 1 \in 0..n /\ k - 1 \notin Differ
        /\ k \in 1..m /\ k \in 1..n
    BY <2>1, <2>2
  <2>4. f[k-1] = g[k-1]
    BY <2>3
  <2>5. f[k] = base * f[k-1] /\ g[k] = base * g[k-1]
    BY <2>3 DEF Table
  <2> QED
    BY <2>1, <2>4, <2>5
<1> QED
  BY <1>1

\* Power is the repeated product.
LEMMA PowerRecursion ==
    ASSUME NEW base \in Nat, NEW n \in Nat
    PROVE  /\ Power(base, 0) = 1
           /\ Power(base, n + 1) = base * Power(base, n)
           /\ Power(base, n) \in Nat
<1> DEFINE Rec(p) == p = [k \in Nat |-> IF k = 0 THEN 1 ELSE base * p[k-1]]
           tab == [k \in Nat |-> CHOOSE f : Table(base, k, f)]
           q == [k \in Nat |-> tab[k][k]]
<1>1. \A k \in Nat : Table(base, k, tab[k])
  BY TableExists
<1> HIDE DEF tab
<1>2. \A k \in Nat : q[k] \in Nat
  BY <1>1 DEF Table
<1>3. q[0] = 1
  BY <1>1 DEF Table
<1>4. ASSUME NEW k \in Nat, k # 0 PROVE q[k] = base * q[k-1]
  <2>1. k - 1 \in Nat /\ k - 1 \in 0..k /\ k - 1 \in 0..(k-1) /\ k \in 1..k
    BY <1>4
  <2>2. tab[k][k] = base * tab[k][k-1]
    BY <1>1, <2>1 DEF Table
  <2>3. tab[k][k-1] = tab[k-1][k-1]
    BY <1>1, <2>1, TablesAgree
  <2> QED
    BY <2>1, <2>2, <2>3
<1>5. Rec(q)
  <2>1. \A k \in Nat : q[k] = IF k = 0 THEN 1 ELSE base * q[k-1]
    BY <1>3, <1>4
  <2> QED
    BY <2>1
<1> DEFINE P == CHOOSE p : Rec(p)
<1>6. Rec(P)
  BY <1>5
<1>7. \A k \in Nat : Power(base, k) = P[k]
  BY DEF Power
<1> HIDE DEF P, q
<1>8. /\ P[0] = 1
      /\ \A k \in Nat : k # 0 => P[k] = base * P[k-1]
  BY <1>6
<1>9. P[n+1] = base * P[n]
  <2>1. n + 1 \in Nat /\ n + 1 # 0 /\ (n + 1) - 1 = n
    OBVIOUS
  <2> QED
    BY <1>8, <2>1
<1>10. P[n] \in Nat
  <2> DEFINE Bad == {k \in 0..n : P[k] \notin Nat}
  <2>1. ASSUME Bad # {} PROVE FALSE
    <3>1. Bad \in SUBSET Nat
      OBVIOUS
    <3>2. PICK k \in Bad : \A j \in Bad : k <= j
      <4> HIDE DEF Bad
      <4> QED
        BY <2>1, <3>1, LeastNat
    <3>3. k # 0 /\ k \in Nat
      BY <3>2, <1>8
    <3>4. k - 1 \in 0..n /\ k - 1 \notin Bad
      BY <3>2, <3>3
    <3>5. P[k-1] \in Nat /\ P[k] = base * P[k-1]
      BY <3>3, <3>4, <1>8
    <3> QED
      BY <3>2, <3>5
  <2> QED
    BY <2>1
<1> QED
  BY <1>7, <1>8, <1>9, <1>10

\* Powers of a positive base are positive.
LEMMA PowerPositive ==
    ASSUME NEW base \in Nat \ {0}, NEW n \in Nat
    PROVE  Power(base, n) \in Nat \ {0}
<1> DEFINE Zero == {k \in Nat : Power(base, k) = 0}
<1>1. ASSUME Zero # {} PROVE FALSE
  <2>1. PICK k \in Zero : \A j \in Zero : k <= j
    <3>1. Zero \in SUBSET Nat
      OBVIOUS
    <3> HIDE DEF Zero
    <3> QED
      BY <1>1, <3>1, LeastNat
  <2>2. k # 0
    BY <2>1, PowerRecursion
  <2>3. k - 1 \in Nat /\ k - 1 \notin Zero /\ (k - 1) + 1 = k
    BY <2>1, <2>2
  <2>4. /\ Power(base, k - 1) \in Nat \ {0}
        /\ Power(base, k) = base * Power(base, k - 1)
    BY <2>3, PowerRecursion
  <2>5. \A a, b \in Nat \ {0} : a * b # 0
    OBVIOUS
  <2> QED
    BY <2>1, <2>4, <2>5
<1> QED
  BY <1>1, PowerRecursion
=============================================================================

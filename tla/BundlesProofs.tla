---------------------------- MODULE BundlesProofs ----------------------------
(***************************************************************************)
(* A block's way from the node to the API, for every answer of the node,   *)
(* every integer width and every way the driver reads a numeric.           *)
(*                                                                         *)
(* Three ideas carry the proofs.  An ascending enumeration of a set is     *)
(* unique, so the stores list the same events in the same order however    *)
(* they sort.  A numeric that was read as an integer and an exponent is    *)
(* multiplied out to the value that was written.  And what is fetched and  *)
(* what is stored are functions of the node's two answers, so the stages   *)
(* of a block need no other invariant.                                     *)
(***************************************************************************)
EXTENDS Bundles, PowersProofs, FiniteSetTheorems

-----------------------------------------------------------------------------
(* Ascending enumerations *)

\* s lists the members of S in ascending order of key.
Ascends(s, S, key) ==
    /\ s \in [1..Cardinality(S) -> S]
    /\ \A j, k \in 1..Cardinality(S) : j < k => key[s[j]] < key[s[k]]

\* Every member is listed.
LEMMA AscendsOnto ==
    ASSUME NEW S, IsFiniteSet(S), NEW key \in [S -> Nat], NEW s,
           Ascends(s, S, key), NEW x \in S
    PROVE  \E k \in 1..Cardinality(S) : s[k] = x
<1> DEFINE n == Cardinality(S)
<1>1. n \in Nat
  BY FS_CardinalityType, Zenon
<1>2. s \in [1..n -> S]
  BY Zenon DEF Ascends
<1>3. ASSUME NEW j \in 1..n, NEW k \in 1..n, s[j] = s[k] PROVE j = k
  <2>1. ~ (j < k) /\ ~ (k < j)
    <3>1. key[s[j]] \in Nat
      BY <1>2, Zenon
    <3>2. j < k => key[s[j]] < key[s[k]]
      BY Zenon DEF Ascends
    <3>3. k < j => key[s[k]] < key[s[j]]
      BY Zenon DEF Ascends
    <3> QED
      BY <1>3, <3>1, <3>2, <3>3
  <2> QED
    BY <1>1, <2>1
<1>4. s \in Injection(1..n, S)
  BY <1>2, <1>3, Zenon DEF Injection, IsInjective
<1>5. Cardinality(1..n) = n
  BY <1>1, FS_Interval
<1>6. s \in Surjection(1..n, S)
  BY <1>4, <1>5, FS_Injection, Zenon
<1> QED
  BY <1>6, Zenon DEF Surjection

\* There is at most one.
LEMMA AscendsUnique ==
    ASSUME NEW S, IsFiniteSet(S), NEW key \in [S -> Nat], NEW s, NEW t,
           Ascends(s, S, key), Ascends(t, S, key)
    PROVE  s = t
<1> DEFINE n == Cardinality(S)
           Differ == {k \in 1..n : s[k] # t[k]}
<1>1. n \in Nat
  BY FS_CardinalityType, Zenon
<1>2. s \in [1..n -> S] /\ t \in [1..n -> S]
  BY Zenon DEF Ascends
<1>3. ASSUME NEW f, NEW g, NEW k \in 1..n,
             Ascends(f, S, key), Ascends(g, S, key), f[k] # g[k],
             \A j \in 1..n : j < k => f[j] = g[j]
      PROVE  key[g[k]] < key[f[k]]
  <2>1. f \in [1..n -> S] /\ f[k] \in S
    BY <1>3, Zenon DEF Ascends
  <2>2. PICK m \in 1..n : g[m] = f[k]
    <3>1. \A x \in S : \E m \in 1..n : g[m] = x
      BY <1>3, AscendsOnto
    <3> QED
      BY <2>1, <3>1, Zenon
  <2>3. ~ (m < k)
    <3>1. ASSUME m < k PROVE FALSE
      <4>1. key[f[m]] < key[f[k]] /\ f[m] = f[k] /\ key[f[k]] \in Nat
        BY <1>3, <2>1, <2>2, <3>1, Zenon DEF Ascends
      <4> QED
        BY <4>1
    <3> QED
      BY <3>1, Zenon
  <2>4. k < m
    BY <1>1, <1>3, <2>2, <2>3
  <2> QED
    BY <1>3, <2>2, <2>4, Zenon DEF Ascends
<1>4. ASSUME Differ # {} PROVE FALSE
  <2>1. PICK k \in Differ : \A j \in Differ : k <= j
    <3>1. Differ \in SUBSET Nat
      BY <1>1
    <3> HIDE DEF Differ
    <3> QED
      BY <1>4, <3>1, LeastNat, Zenon
  <2>2. \A j \in 1..n : j < k => s[j] = t[j]
    BY <1>1, <2>1
  <2>3. key[t[k]] < key[s[k]] /\ key[s[k]] < key[t[k]]
    BY <1>3, <2>1, <2>2, Zenon
  <2>4. key[t[k]] \in Nat /\ key[s[k]] \in Nat
    BY <1>2, <2>1, Zenon
  <2> QED
    BY <2>3, <2>4
<1>5. \A k \in 1..n : s[k] = t[k]
  BY <1>4, Zenon
<1>6. s = [k \in 1..n |-> s[k]] /\ t = [k \in 1..n |-> t[k]]
  BY <1>2, Zenon
<1>7. [k \in 1..n |-> s[k]] = [k \in 1..n |-> t[k]]
  BY <1>5, Zenon
<1> QED
  BY <1>6, <1>7, Zenon

\* There is one when no two members share a key: each member's position is the
\* number of members up to it.
LEMMA AscendsExists ==
    ASSUME NEW S, IsFiniteSet(S), NEW key \in [S -> Nat],
           \A x, y \in S : key[x] = key[y] => x = y
    PROVE  \E s : Ascends(s, S, key)
<1> DEFINE n == Cardinality(S)
           UpTo(x) == {y \in S : key[y] <= key[x]}
           rank == [x \in S |-> Cardinality(UpTo(x))]
<1>1. n \in Nat
  BY FS_CardinalityType, Zenon
<1>2. ASSUME NEW x \in S
      PROVE  /\ IsFiniteSet(UpTo(x))
             /\ rank[x] \in 1..n
  <2>1. UpTo(x) \in SUBSET S /\ x \in UpTo(x)
    OBVIOUS
  <2>2. IsFiniteSet(UpTo(x)) /\ Cardinality(UpTo(x)) <= n
    BY <2>1, FS_Subset, Zenon
  <2>3. Cardinality(UpTo(x)) \in Nat /\ Cardinality(UpTo(x)) # 0
    BY <2>1, <2>2, FS_CardinalityType, FS_EmptySet, Zenon
  <2> QED
    BY <1>1, <2>2, <2>3
<1>3. ASSUME NEW x \in S, NEW y \in S, key[x] < key[y]
      PROVE  rank[x] < rank[y]
  <2>1. UpTo(x) \in SUBSET UpTo(y) /\ y \in UpTo(y) /\ y \notin UpTo(x)
    BY <1>3
  <2>2. /\ Cardinality(UpTo(x)) <= Cardinality(UpTo(y))
        /\ Cardinality(UpTo(x)) # Cardinality(UpTo(y))
    BY <1>2, <2>1, FS_Subset, Zenon
  <2>3. rank[x] \in Nat /\ rank[y] \in Nat
    BY <1>2, <1>1
  <2> QED
    BY <2>2, <2>3
<1> HIDE DEF rank, UpTo
<1>4. ASSUME NEW x \in S, NEW y \in S, rank[x] = rank[y] PROVE x = y
  <2>1. /\ key[x] \in Nat /\ key[y] \in Nat
        /\ rank[x] \in Nat /\ rank[y] \in Nat
    BY <1>2, <1>1
  <2>2. ~ (key[x] < key[y]) /\ ~ (key[y] < key[x])
    BY <1>3, <1>4, <2>1
  <2> QED
    BY <2>1, <2>2
<1>5. rank \in [S -> 1..n]
  BY <1>2, Zenon DEF rank
<1>6. rank \in Injection(S, 1..n)
  BY <1>4, <1>5, Zenon DEF Injection, IsInjective
<1>7. Cardinality(1..n) = n /\ IsFiniteSet(1..n)
  BY <1>1, FS_Interval
<1>8. rank \in Surjection(S, 1..n)
  BY <1>6, <1>7, FS_Injection, Zenon
<1> DEFINE s == [k \in 1..n |-> CHOOSE x \in S : rank[x] = k]
<1>9. \A k \in 1..n : s[k] \in S /\ rank[s[k]] = k
  BY <1>8, Zenon DEF Surjection
<1>10. s \in [1..n -> S]
  BY <1>9, Zenon
<1> HIDE DEF s
<1>11. ASSUME NEW j \in 1..n, NEW k \in 1..n, j < k
       PROVE  key[s[j]] < key[s[k]]
  <2>1. /\ s[j] \in S /\ s[k] \in S /\ rank[s[j]] = j /\ rank[s[k]] = k
        /\ key[s[j]] \in Nat /\ key[s[k]] \in Nat /\ j \in Nat /\ k \in Nat
    BY <1>1, <1>9
  <2>2. key[s[j]] # key[s[k]]
    BY <1>11, <2>1
  <2>3. ~ (key[s[k]] < key[s[j]])
    BY <1>3, <1>11, <2>1
  <2> QED
    BY <2>1, <2>2, <2>3
<1>12. Ascends(s, S, key)
  BY <1>10, <1>11, Zenon DEF Ascends
<1> QED
  BY <1>12, Zenon

\* So Ordered is the ascending enumeration.
LEMMA OrderedIs ==
    ASSUME NEW S, IsFiniteSet(S), NEW key \in [S -> Nat], NEW s,
           Ascends(s, S, key)
    PROVE  Ordered(S, key) = s
<1> DEFINE A(t) == /\ t \in [1..Cardinality(S) -> S]
                   /\ \A j, k \in DOMAIN t : j < k => key[t[j]] < key[t[k]]
<1>1. A(s)
  BY Zenon DEF Ascends
<1>2. A(Ordered(S, key))
  BY <1>1, Zenon DEF Ordered
<1>3. Ascends(Ordered(S, key), S, key)
  BY <1>2, Zenon DEF Ascends
<1> QED
  BY <1>3, AscendsUnique, Zenon

LEMMA OrderedAscends ==
    ASSUME NEW S, IsFiniteSet(S), NEW key \in [S -> Nat],
           \A x, y \in S : key[x] = key[y] => x = y
    PROVE  Ascends(Ordered(S, key), S, key)
  BY AscendsExists, OrderedIs

-----------------------------------------------------------------------------
(* Numerics *)

\* Quotients and remainders of multiples.
LEMMA Multiples ==
    ASSUME NEW a \in Nat, NEW m \in Nat \ {0}
    PROVE  /\ (a * m) % m = 0 /\ (a * m) \div m = a
           /\ a % m = 0 => (a \div m) * m = a
  OBVIOUS

\* Trailing zeros can be counted: among the exponents up to scale that divide
\* v there is a largest one.
LEMMA LargestExponent ==
    ASSUME NEW v \in Nat, NEW scale \in Nat
    PROVE  \E e \in 0..scale :
              /\ v % Power(Base, e) = 0
              /\ \A f \in 0..scale : v % Power(Base, f) = 0 => f <= e
<1> DEFINE D == {f \in 0..scale : v % Power(Base, f) = 0}
           Rest == {scale - f : f \in D}
<1>1. 0 \in D
  <2>1. Power(Base, 0) = 1
    BY PowerRecursion, BundlesAssumption, Zenon
  <2>2. v % 1 = 0
    OBVIOUS
  <2> QED
    BY <2>1, <2>2
<1>2. Rest \in SUBSET Nat /\ Rest # {}
  BY <1>1
<1>3. D \subseteq 0..scale
  OBVIOUS
<1> HIDE DEF D
<1>4. PICK r \in Rest : \A q \in Rest : r <= q
  <2> HIDE DEF Rest
  <2> QED
    BY <1>2, LeastNat, Zenon
<1>5. PICK e \in D : r = scale - e
  BY <1>4, Zenon
<1>6. ASSUME NEW f \in D PROVE f <= e
  <2>1. scale - e <= scale - f
    BY <1>4, <1>5, Zenon
  <2> QED
    BY <1>3, <2>1
<1> QED
  BY <1>3, <1>5, <1>6, Zenon DEF D

\* However the driver reads it, a numeric decodes to what was written.
LEMMA NumericRoundTrip ==
    ASSUME NEW V \in SUBSET Nat, NEW scale \in Scales
    PROVE  /\ decodePostgresNumeric(readNumeric(V, scale)) = V
           /\ V \subseteq 0..MaxUint256 =>
                 \A required \in BOOLEAN :
                    (required => V # {}) =>
                        numericDecodes(readNumeric(V, scale), required)
<1> DEFINE Read(v) ==
             IF scale < 0 THEN [int |-> v * Power(Base, - scale), exp |-> scale]
             ELSE LET e == CHOOSE e \in 0..scale :
                              /\ v % Power(Base, e) = 0
                              /\ \A f \in 0..scale :
                                    v % Power(Base, f) = 0 => f <= e
                  IN  [int |-> v \div Power(Base, e), exp |-> e]
<1>1. readNumeric(V, scale) = {Read(v) : v \in V}
  BY Zenon DEF readNumeric
<1>2. scale \in (- MaxDigits)..MaxDigits /\ MaxDigits \in Nat
      /\ Base \in Nat \ {0}
  BY BundlesAssumption, Zenon
<1>3. ASSUME NEW v \in V
      PROVE  /\ integerOf(Read(v)) = {v}
             /\ Read(v).exp \in (- MaxDigits)..MaxDigits
  <2>0. v \in Nat
    OBVIOUS
  <2>1. CASE scale < 0
    <3> DEFINE m == Power(Base, - scale)
    <3>1. - scale \in Nat
      BY <1>2, <2>1
    <3>2. m \in Nat \ {0}
      BY <1>2, <3>1, PowerPositive, Zenon
    <3>3. Read(v) = [int |-> v * m, exp |-> scale]
      BY <2>1, Zenon
    <3>4. Read(v).int = v * m /\ Read(v).exp = scale
      BY <3>3, Zenon
    <3> HIDE DEF m, Read
    <3>5. (v * m) % m = 0 /\ (v * m) \div m = v
      BY <2>0, <3>2, Multiples, Zenon
    <3>6. ~ (scale >= 0)
      BY <1>2, <2>1
    <3> QED
      BY <1>2, <3>4, <3>5, <3>6, Zenon DEF integerOf, m
  <2>2. CASE ~ (scale < 0)
    <3>1. scale \in Nat
      BY <1>2, <2>2
    <3> DEFINE P(e) == /\ v % Power(Base, e) = 0
                       /\ \A f \in 0..scale : v % Power(Base, f) = 0 => f <= e
               e == CHOOSE e \in 0..scale : P(e)
               m == Power(Base, e)
    <3>2. e \in 0..scale /\ P(e)
      BY <2>0, <3>1, LargestExponent, Zenon
    <3>3. Read(v) = [int |-> v \div m, exp |-> e]
      BY <2>2, Zenon
    <3> HIDE DEF Read, e
    <3>4. Read(v).int = v \div m /\ Read(v).exp = e /\ v % m = 0
      BY <3>2, <3>3
    <3>5. m \in Nat \ {0} /\ e \in Nat
      BY <1>2, <3>1, <3>2, PowerPositive
    <3> HIDE DEF m
    <3>6. (v \div m) * m = v
      BY <2>0, <3>4, <3>5, Multiples, Zenon
    <3>7. integerOf(Read(v)) = {v}
      BY <3>4, <3>5, <3>6 DEF integerOf, m
    <3>8. e \in (- MaxDigits)..MaxDigits
      BY <1>2, <3>1, <3>2
    <3> QED
      BY <3>4, <3>7, <3>8, Zenon
  <2> QED
    BY <2>1, <2>2, Zenon
<1> HIDE DEF Read
<1>4. decodePostgresNumeric(readNumeric(V, scale)) = V
  BY <1>1, <1>3 DEF decodePostgresNumeric
<1>5. ASSUME V \subseteq 0..MaxUint256, NEW required \in BOOLEAN,
             required => V # {}
      PROVE  numericDecodes(readNumeric(V, scale), required)
  BY <1>1, <1>3, <1>5 DEF numericDecodes
<1> QED
  BY <1>4, <1>5, Zenon

-----------------------------------------------------------------------------
(* What FetchBlock makes of consistent answers *)

\* A byte slice that is not nil.
Bytes == (STRING \cup {"empty"}) \ {"nil"}

\* domain.Transaction and domain.EventLog, as FetchBlock fills them.
Transaction ==
    [hash : STRING, blockNumber : Nat, blockHash : STRING, index : Nat,
     type : 0..255, nonce : Nat, sender : SUBSET STRING,
     recipient : SUBSET STRING, value : SUBSET Nat, gasLimit : Nat,
     gasPrice : SUBSET Nat, maxFeePerGas : SUBSET Nat,
     maxPriorityFeePerGas : SUBSET Nat, input : Bytes]

EventLog ==
    [blockNumber : Nat, blockHash : STRING, transactionHash : STRING,
     transactionIndex : Nat, logIndex : Nat, address : STRING, topics : Nat,
     data : Bytes]

\* The node's answers that FetchBlock turns into a bundle.
Consistent(b, logs) ==
    /\ b \in NodeBlock /\ consistentBlock(b)
    /\ logs \in Seq(NodeLog) /\ consistentLogs(b, logs)

LEMMA BytesKept ==
    ASSUME NEW bytes \in STRING
    PROVE  /\ appendToEmpty(bytes) \in Bytes
           /\ hex(appendToNil(appendToEmpty(bytes))) = hex(bytes)
<1>1. "empty" # "nil"
  BY SMT
<1>2. CASE bytes = "nil"
  BY <1>1, <1>2, Zenon DEF Bytes, appendToEmpty, appendToNil, hex
<1>3. CASE bytes = "empty"
  BY <1>1, <1>3, Zenon DEF Bytes, appendToEmpty, appendToNil, hex
<1>4. CASE bytes \notin {"nil", "empty"}
  BY <1>4, Zenon DEF Bytes, appendToEmpty, appendToNil, hex
<1> QED
  BY <1>2, <1>3, <1>4, Zenon

LEMMA Mapped ==
    ASSUME NEW b, NEW logs, Consistent(b, logs),
           NEW k \in DOMAIN b.transactions
    PROVE  LET t == b.transactions[k]
               m == mapTransactions(b)[k]
           IN  /\ t \in NodeTransaction
               /\ m \in Transaction
               /\ m.hash = t.hash /\ m.index = k - 1
               /\ m.blockNumber = b.number /\ m.blockHash = b.hash
               /\ m.value = {t.value} /\ m.input = appendToEmpty(t.data)
<1> DEFINE t == b.transactions[k]
           m == mapTransactions(b)[k]
<1>1. /\ b.transactions \in Seq(NodeTransaction \cup {Nil})
      /\ b.number \in Nat /\ b.hash \in STRING
  BY BundlesAssumption DEF Consistent, NodeBlock
<1>2. t \in NodeTransaction
  BY <1>1 DEF Consistent, consistentBlock, consistentTransactions
<1>3. /\ t.hash \in STRING /\ t.type \in 0..255 /\ t.nonce \in Nat
      /\ t.sender \in SUBSET STRING /\ t.to \in SUBSET STRING
      /\ t.value \in Nat /\ t.gas \in Nat /\ t.gasPrice \in Nat
      /\ t.feeCap \in Nat /\ t.tipCap \in Nat /\ t.data \in STRING
  <2> HIDE DEF t, m
  <2>1. /\ t.hash \in STRING /\ t.type \in 0..255 /\ t.nonce \in 0..MaxUint64
        /\ t.sender \in Optional(STRING) /\ t.to \in Optional(STRING)
        /\ t.value \in Nat /\ t.gas \in 0..MaxUint64 /\ t.gasPrice \in Nat
        /\ t.feeCap \in Nat /\ t.tipCap \in Nat /\ t.data \in STRING
    BY <1>2, Zenon DEF NodeTransaction
  <2>2. t.nonce \in Nat /\ t.gas \in Nat
    <3>1. t.nonce \in 0..MaxUint64 /\ t.gas \in 0..MaxUint64
      BY <2>1, Zenon
    <3>2. MaxUint64 \in Nat
      BY BundlesAssumption, Zenon
    <3> QED
      BY <3>1, <3>2
  <2>3. t.sender \in SUBSET STRING /\ t.to \in SUBSET STRING
    BY <2>1, Zenon DEF Optional
  <2> QED
    BY <2>1, <2>2, <2>3, Zenon
<1>4. k - 1 \in Nat
  <2> HIDE DEF t, m
  <2> QED
    BY <1>1
<1>5. m = [hash |-> t.hash, blockNumber |-> b.number, blockHash |-> b.hash,
           index |-> k - 1, type |-> t.type, nonce |-> t.nonce,
           sender |-> t.sender, recipient |-> t.to, value |-> {t.value},
           gasLimit |-> t.gas,
           gasPrice |-> {p \in {t.gasPrice} : hasGasPrice(t)},
           maxFeePerGas |-> {p \in {t.feeCap} : ~ hasGasPrice(t)},
           maxPriorityFeePerGas |-> {p \in {t.tipCap} : ~ hasGasPrice(t)},
           input |-> appendToEmpty(t.data)]
  BY Zenon DEF mapTransactions
<1> HIDE DEF m, t
<1>6. /\ {p \in {t.gasPrice} : hasGasPrice(t)} \in SUBSET Nat
      /\ {p \in {t.feeCap} : ~ hasGasPrice(t)} \in SUBSET Nat
      /\ {p \in {t.tipCap} : ~ hasGasPrice(t)} \in SUBSET Nat
      /\ {t.value} \in SUBSET Nat
      /\ appendToEmpty(t.data) \in Bytes
  BY <1>3, BytesKept, Zenon
<1>7. m \in Transaction
  BY <1>1, <1>3, <1>4, <1>5, <1>6, Zenon DEF Transaction
<1>8. /\ m.hash = t.hash /\ m.index = k - 1
      /\ m.blockNumber = b.number /\ m.blockHash = b.hash
      /\ m.value = {t.value} /\ m.input = appendToEmpty(t.data)
  BY <1>5, Zenon
<1> QED
  BY <1>2, <1>7, <1>8, Zenon DEF m, t

\* The event made from a log.
EventFor(b, log) ==
    [blockNumber |-> b.number, blockHash |-> b.hash,
     transactionHash |-> log.txHash, transactionIndex |-> log.txIndex,
     logIndex |-> log.index, address |-> log.address,
     topics |-> log.topics, data |-> appendToEmpty(log.data)]

EventsFor(b, logs) == {EventFor(b, log) : log \in Range(logs)}

LEMMA MappedLog ==
    ASSUME NEW b, NEW logs, Consistent(b, logs), NEW k \in DOMAIN logs
    PROVE  LET e == EventFor(b, logs[k])
           IN  /\ e \in EventLog
               /\ e.blockNumber = b.number /\ e.blockHash = b.hash
               /\ e.transactionHash = logs[k].txHash
               /\ e.transactionIndex = logs[k].txIndex
               /\ e.logIndex = logs[k].index /\ e.topics = logs[k].topics
<1> DEFINE log == logs[k]
           e == EventFor(b, log)
<1>1. log \in NodeLog /\ b.number \in Nat /\ b.hash \in STRING
  BY BundlesAssumption DEF Consistent, NodeBlock
<1>2. /\ log.txHash \in STRING /\ log.txIndex \in Nat /\ log.index \in Nat
      /\ log.address \in STRING /\ log.topics \in Nat /\ log.data \in STRING
  BY <1>1, BundlesAssumption DEF NodeLog
<1>3. appendToEmpty(log.data) \in Bytes
  BY <1>2, BytesKept, Zenon
<1> HIDE DEF log
<1>4. e \in EventLog
  BY <1>1, <1>2, <1>3, Zenon DEF EventFor, EventLog
<1>5. /\ e.blockNumber = b.number /\ e.blockHash = b.hash
      /\ e.transactionHash = log.txHash /\ e.transactionIndex = log.txIndex
      /\ e.logIndex = log.index /\ e.topics = log.topics
  BY Zenon DEF EventFor
<1> QED
  BY <1>4, <1>5, Zenon DEF log

\* The events are as many as the logs, each with its own log index.
LEMMA EventsAreKeyed ==
    ASSUME NEW b, NEW logs, Consistent(b, logs)
    PROVE  LET S == EventsFor(b, logs)
           IN  /\ IsFiniteSet(S)
               /\ S \in SUBSET EventLog
               /\ \A x, y \in S : x.logIndex = y.logIndex => x = y
<1> DEFINE S == EventsFor(b, logs)
           f == [k \in 1..Len(logs) |-> EventFor(b, logs[k])]
<1>1. logs \in Seq(NodeLog) /\ Len(logs) \in Nat /\ DOMAIN logs = 1..Len(logs)
  BY DEF Consistent
<1>2. S = {EventFor(b, logs[k]) : k \in 1..Len(logs)}
  BY <1>1, Zenon DEF EventsFor, Range
<1>3. f \in Surjection(1..Len(logs), S)
  <2>1. f \in [1..Len(logs) -> S]
    BY <1>2, Zenon
  <2>2. \A x \in S : \E k \in 1..Len(logs) : f[k] = x
    BY <1>2, Zenon
  <2> QED
    BY <2>1, <2>2, Zenon DEF Surjection
<1>4. IsFiniteSet(S)
  BY <1>1, <1>3, FS_Interval, FS_Surjection
<1>5. S \in SUBSET EventLog
  BY <1>1, <1>2, MappedLog
<1>6. ASSUME NEW j \in 1..Len(logs), NEW k \in 1..Len(logs),
             EventFor(b, logs[j]).logIndex = EventFor(b, logs[k]).logIndex
      PROVE  j = k
  <2>1. logs[j].index = logs[k].index
    BY <1>1, <1>6, MappedLog
  <2>2. \A i \in 1..Len(logs) : \A h \in 1..(i-1) : logs[h].index # logs[i].index
    BY <1>1, Zenon DEF Consistent, consistentLogs
  <2>3. ~ (j < k)
    BY <1>1, <2>1, <2>2
  <2>4. ~ (k < j)
    BY <1>1, <2>1, <2>2
  <2> QED
    BY <1>1, <2>3, <2>4
<1>7. ASSUME NEW x \in S, NEW y \in S, x.logIndex = y.logIndex PROVE x = y
  <2>1. PICK j \in 1..Len(logs) : x = EventFor(b, logs[j])
    BY <1>2, Zenon
  <2>2. PICK k \in 1..Len(logs) : y = EventFor(b, logs[k])
    BY <1>2, Zenon
  <2> QED
    BY <1>6, <1>7, <2>1, <2>2, Zenon
<1> QED
  BY <1>4, <1>5, <1>7, Zenon

\* Events that have log indexes of their own are listed by them.
LEMMA ByLogIndexAscends ==
    ASSUME NEW S, IsFiniteSet(S), S \in SUBSET EventLog,
           \A x, y \in S : x.logIndex = y.logIndex => x = y
    PROVE  Ascends(byLogIndex(S), S, [e \in S |-> e.logIndex])
<1> DEFINE key == [e \in S |-> e.logIndex]
<1>1. key \in [S -> Nat]
  BY Zenon DEF EventLog
<1>2. \A x, y \in S : key[x] = key[y] => x = y
  OBVIOUS
<1> HIDE DEF key
<1>3. Ascends(Ordered(S, key), S, key)
  BY <1>1, <1>2, OrderedAscends, Zenon
<1> QED
  BY <1>3, Zenon DEF byLogIndex, key

\* The bundle of consistent answers.
LEMMA BundleIs ==
    ASSUME NEW b, NEW logs, Consistent(b, logs)
    PROVE  LET u == newBundle(b, logs)
               S == EventsFor(b, logs)
           IN  /\ u.block = [number |-> b.number, hash |-> b.hash,
                             parentHash |-> b.parentHash, timestamp |-> b.time,
                             gasLimit |-> b.gasLimit, gasUsed |-> b.gasUsed,
                             baseFeePerGas |-> b.baseFee,
                             transactionCount |-> Len(b.transactions)]
               /\ u.transactions = mapTransactions(b)
               /\ DOMAIN u.transactions = DOMAIN b.transactions
               /\ u.transactions \in Seq(Transaction)
               /\ Len(u.transactions) = Len(b.transactions)
               /\ Ascends(u.events, S, [e \in S |-> e.logIndex])
               /\ u.events \in Seq(EventLog)
               /\ Range(u.events) = S
<1> DEFINE u == newBundle(b, logs)
           S == EventsFor(b, logs)
           key == [e \in S |-> e.logIndex]
<1>1. /\ b.transactions \in Seq(NodeTransaction \cup {Nil})
      /\ Len(b.transactions) \in Nat
      /\ DOMAIN b.transactions = 1..Len(b.transactions)
  BY DEF Consistent, NodeBlock
<1>2. /\ u.block = [number |-> b.number, hash |-> b.hash,
                    parentHash |-> b.parentHash, timestamp |-> b.time,
                    gasLimit |-> b.gasLimit, gasUsed |-> b.gasUsed,
                    baseFeePerGas |-> b.baseFee,
                    transactionCount |-> Len(b.transactions)]
      /\ u.transactions = mapTransactions(b)
      /\ u.events = mapEvents(b, logs)
  BY Zenon DEF newBundle
<1> HIDE DEF u
<1>3. DOMAIN mapTransactions(b) = DOMAIN b.transactions
  BY Zenon DEF mapTransactions
<1>4. \A k \in DOMAIN b.transactions : mapTransactions(b)[k] \in Transaction
  BY Mapped, Zenon
<1>5. mapTransactions(b) = [k \in DOMAIN b.transactions |-> mapTransactions(b)[k]]
  BY Zenon DEF mapTransactions
<1>6. mapTransactions(b) \in [1..Len(b.transactions) -> Transaction]
  BY <1>1, <1>4, <1>5, Zenon
<1>7. /\ mapTransactions(b) \in Seq(Transaction)
      /\ Len(mapTransactions(b)) = Len(b.transactions)
  BY <1>1, <1>6
<1>8. mapEvents(b, logs) = byLogIndex(S)
  BY Zenon DEF mapEvents, EventsFor, EventFor
<1>9. /\ IsFiniteSet(S) /\ S \in SUBSET EventLog
      /\ \A x, y \in S : x.logIndex = y.logIndex => x = y
  BY EventsAreKeyed, Zenon
<1>10. Ascends(u.events, S, key)
  BY <1>2, <1>8, <1>9, ByLogIndexAscends, Zenon
<1>11. key \in [S -> Nat]
  BY <1>9, Zenon DEF EventLog
<1> HIDE DEF S, key
<1>12. u.events \in [1..Cardinality(S) -> S] /\ Cardinality(S) \in Nat
  BY <1>9, <1>10, FS_CardinalityType, Zenon DEF Ascends
<1>13. u.events \in Seq(EventLog)
  BY <1>9, <1>12
<1>14. \A x \in S : \E k \in 1..Cardinality(S) : u.events[k] = x
  BY <1>9, <1>10, <1>11, AscendsOnto
<1>15. Range(u.events) = S
  BY <1>12, <1>14, Zenon DEF Range
<1> QED
  BY <1>2, <1>3, <1>7, <1>10, <1>13, <1>15, Zenon DEF u, S, key

-----------------------------------------------------------------------------
(* A bundle passes validation, and a valid bundle can be written *)

\* domain.Block and domain.BlockBundle
Block ==
    [number : Nat, hash : STRING, parentHash : STRING, timestamp : Nat,
     gasLimit : Nat, gasUsed : Nat, baseFeePerGas : SUBSET Nat,
     transactionCount : Nat]

BlockBundle ==
    [block : Block, transactions : Seq(Transaction), events : Seq(EventLog)]

LEMMA BundleType ==
    ASSUME NEW b, NEW logs, Consistent(b, logs)
    PROVE  newBundle(b, logs) \in BlockBundle
<1> DEFINE u == newBundle(b, logs)
<1>1. /\ b.number \in Nat /\ b.hash \in STRING /\ b.parentHash \in STRING
      /\ b.time \in Nat /\ b.gasLimit \in Nat /\ b.gasUsed \in Nat
      /\ Len(b.transactions) \in Nat
  BY BundlesAssumption DEF Consistent, NodeBlock
<1>2. b.baseFee \in SUBSET Nat
  <2>1. b.baseFee \in Optional(Nat)
    BY Zenon DEF Consistent, NodeBlock
  <2> QED
    BY <2>1, Zenon DEF Optional
<1>3. u.block \in Block
  <2>1. u.block = [number |-> b.number, hash |-> b.hash,
                   parentHash |-> b.parentHash, timestamp |-> b.time,
                   gasLimit |-> b.gasLimit, gasUsed |-> b.gasUsed,
                   baseFeePerGas |-> b.baseFee,
                   transactionCount |-> Len(b.transactions)]
    BY BundleIs, Zenon
  <2> HIDE DEF u
  <2> QED
    BY <1>1, <1>2, <2>1 DEF Block
<1>4. u.transactions \in Seq(Transaction) /\ u.events \in Seq(EventLog)
  BY BundleIs, Zenon
<1>5. u = [block |-> u.block, transactions |-> u.transactions,
           events |-> u.events]
  BY Zenon DEF newBundle
<1> QED
  BY <1>3, <1>4, <1>5, Zenon DEF BlockBundle

\* What FetchBlock checks is what validateCanonicalBundles demands.
LEMMA Canonical ==
    ASSUME NEW b, NEW logs, Consistent(b, logs)
    PROVE  validateCanonicalBundles(newBundle(b, logs))
<1> DEFINE u == newBundle(b, logs)
           S == EventsFor(b, logs)
           key == [e \in S |-> e.logIndex]
<1>0. /\ u.block.number = b.number /\ u.block.hash = b.hash
      /\ u.block.transactionCount = Len(b.transactions)
  BY Zenon DEF newBundle
<1>1. /\ u.transactions = mapTransactions(b)
      /\ DOMAIN u.transactions = DOMAIN b.transactions
      /\ Len(u.transactions) = Len(b.transactions)
      /\ Ascends(u.events, S, key)
      /\ Range(u.events) = S
      /\ u.events \in Seq(EventLog)
  BY BundleIs, Zenon
<1>2. /\ consistentTransactions(b.transactions) /\ consistentLogs(b, logs)
      /\ logs \in Seq(NodeLog)
      /\ b.transactions \in Seq(NodeTransaction \cup {Nil})
  BY Zenon DEF Consistent, consistentBlock, NodeBlock
<1> HIDE DEF u
<1>3. Len(u.transactions) <= MaxUint32
  BY <1>1, <1>2, Zenon DEF consistentTransactions
<1>4. \A k \in DOMAIN b.transactions :
          LET t == u.transactions[k]
          IN  /\ t.hash = b.transactions[k].hash /\ t.index = k - 1
              /\ t.blockNumber = b.number /\ t.blockHash = b.hash
  BY <1>1, Mapped
<1>5. validTransactions(u)
  <2> SUFFICES ASSUME NEW k \in DOMAIN u.transactions
               PROVE  LET t == u.transactions[k]
                      IN  /\ t.blockNumber = u.block.number
                          /\ t.blockHash = u.block.hash
                          /\ t.index = k - 1
                          /\ \A j \in 1..(k - 1) :
                                u.transactions[j].hash # t.hash
    BY Zenon DEF validTransactions
  <2>1. k \in DOMAIN b.transactions
    BY <1>1, Zenon
  <2>2. ASSUME NEW j \in 1..(k - 1)
        PROVE  u.transactions[j].hash # u.transactions[k].hash
    <3>1. j \in DOMAIN b.transactions
      BY <1>2, <2>1
    <3>2. b.transactions[j].hash # b.transactions[k].hash
      BY <1>2, <2>1, Zenon DEF consistentTransactions
    <3> QED
      BY <1>4, <2>1, <3>1, <3>2, Zenon
  <2> QED
    BY <1>0, <1>4, <2>1, <2>2, Zenon
<1>6. validEvents(u)
  <2> SUFFICES ASSUME NEW k \in DOMAIN u.events
               PROVE  LET e == u.events[k]
                      IN  /\ \E j \in DOMAIN u.transactions :
                                /\ u.transactions[j].hash = e.transactionHash
                                /\ u.transactions[j].index = e.transactionIndex
                          /\ e.blockNumber = u.block.number
                          /\ e.blockHash = u.block.hash
                          /\ e.topics <= 4
                          /\ \A j \in 1..(k - 1) :
                                u.events[j].logIndex # e.logIndex
    BY Zenon DEF validEvents
  <2> DEFINE e == u.events[k]
  <2>1. e \in S
    BY <1>1, Zenon DEF Range
  <2>2. PICK i \in DOMAIN logs : e = EventFor(b, logs[i])
    BY <2>1, Zenon DEF EventsFor, Range
  <2>3. /\ e.blockNumber = b.number /\ e.blockHash = b.hash
        /\ e.transactionHash = logs[i].txHash
        /\ e.transactionIndex = logs[i].txIndex /\ e.topics = logs[i].topics
    BY <2>2, MappedLog
  <2>4. logs[i].topics <= 4 /\ knownPosition(logs[i], b)
    BY <1>2, Zenon DEF consistentLogs
  <2>5. PICK j \in DOMAIN b.transactions :
            b.transactions[j].hash = logs[i].txHash /\ j - 1 = logs[i].txIndex
    BY <2>4, Zenon DEF knownPosition
  <2>6. /\ u.transactions[j].hash = e.transactionHash
        /\ u.transactions[j].index = e.transactionIndex
    BY <1>4, <2>3, <2>5, Zenon
  <2>7. ASSUME NEW h \in 1..(k - 1)
        PROVE  u.events[h].logIndex # e.logIndex
    <3>1. h \in DOMAIN u.events /\ h < k
      BY <1>1
    <3>2. u.events[h] \in S
      BY <1>1, <3>1, Zenon DEF Range
    <3>3. DOMAIN u.events = 1..Cardinality(S)
      BY <1>1, Zenon DEF Ascends
    <3>4. key[u.events[h]] < key[e]
      <4> HIDE DEF key, S
      <4> QED
        BY <1>1, <3>1, <3>3, Zenon DEF Ascends
    <3>5. u.events[h].logIndex < e.logIndex
      BY <2>1, <3>2, <3>4, Zenon
    <3>6. e.logIndex \in Nat /\ u.events[h].logIndex \in Nat
      <4>1. e \in EventLog /\ u.events[h] \in EventLog
        BY <1>1, <3>1
      <4> QED
        BY <4>1, Zenon DEF EventLog
    <3> QED
      BY <3>5, <3>6
  <2> QED
    BY <1>0, <1>1, <2>3, <2>4, <2>5, <2>6, <2>7, Zenon
<1> QED
  BY <1>0, <1>1, <1>3, <1>5, <1>6, Zenon DEF validateCanonicalBundles, u

\* The rows of a bundle keep every field but the block's hash.
LEMMA QueuedTransaction ==
    ASSUME NEW u \in BlockBundle, NEW k \in DOMAIN u.transactions
    PROVE  LET t == u.transactions[k]
               r == queueBundle(u).transactions[k]
           IN  /\ t \in Transaction
               /\ r = [t EXCEPT !.blockHash = Nil]
               /\ r.hash = t.hash /\ r.blockNumber = t.blockNumber
               /\ r.index = t.index /\ r.type = t.type /\ r.nonce = t.nonce
               /\ r.gasLimit = t.gasLimit /\ r.input = t.input
               /\ r.value = t.value /\ r.gasPrice = t.gasPrice
               /\ r.maxFeePerGas = t.maxFeePerGas
               /\ r.maxPriorityFeePerGas = t.maxPriorityFeePerGas
<1> DEFINE t == u.transactions[k]
<1>1. t \in Transaction
  BY DEF BlockBundle
<1>2. queueBundle(u).transactions[k] = [t EXCEPT !.blockHash = Nil]
  BY Zenon DEF queueBundle
<1> QED
  BY <1>1, <1>2, Zenon DEF Transaction

LEMMA QueuedEvent ==
    ASSUME NEW u \in BlockBundle, NEW k \in DOMAIN u.events
    PROVE  LET e == u.events[k]
               r == queueBundle(u).events[k]
           IN  /\ e \in EventLog
               /\ r = [e EXCEPT !.blockHash = Nil]
               /\ r.blockNumber = e.blockNumber /\ r.logIndex = e.logIndex
               /\ r.transactionHash = e.transactionHash
               /\ r.transactionIndex = e.transactionIndex
               /\ r.topics = e.topics /\ r.data = e.data
<1> DEFINE e == u.events[k]
<1>1. e \in EventLog
  BY DEF BlockBundle
<1>2. queueBundle(u).events[k] = [e EXCEPT !.blockHash = Nil]
  BY Zenon DEF queueBundle
<1> QED
  BY <1>1, <1>2, Zenon DEF EventLog

\* What validatePostgresUpdate says of the parts of a bundle.
LEMMA ValidTransaction ==
    ASSUME NEW u \in BlockBundle, validatePostgresUpdate(u),
           NEW k \in DOMAIN u.transactions
    PROVE  LET t == u.transactions[k]
           IN  /\ t.blockNumber = u.block.number /\ t.blockHash = u.block.hash
               /\ t.index = k - 1 /\ t.index \in 0..MaxInt32
               /\ {t.blockNumber, t.nonce, t.gasLimit} \subseteq 0..MaxInt64
               /\ t.value # {}
               /\ \A v \in {t.value, t.gasPrice, t.maxFeePerGas,
                            t.maxPriorityFeePerGas} :
                     v \in SUBSET Nat /\ v \subseteq 0..MaxUint256
               /\ \A j \in 1..(k - 1) : u.transactions[j].hash # t.hash
<1> DEFINE t == u.transactions[k]
<1>1. t \in Transaction
  BY DEF BlockBundle
<1>2. /\ t.blockNumber = u.block.number /\ t.blockHash = u.block.hash
      /\ t.index = k - 1
      /\ \A j \in 1..(k - 1) : u.transactions[j].hash # t.hash
  BY Zenon DEF validatePostgresUpdate, validateCanonicalBundles, validTransactions
<1>3. validatePostgresTransaction(t)
  BY Zenon DEF validatePostgresUpdate
<1> HIDE DEF t
<1>4. /\ {t.blockNumber, t.nonce, t.gasLimit} \subseteq 0..MaxInt64
      /\ t.index <= MaxInt32
      /\ t.value # {} /\ t.value \subseteq 0..MaxUint256
      /\ t.gasPrice \subseteq 0..MaxUint256
      /\ t.maxFeePerGas \subseteq 0..MaxUint256
      /\ t.maxPriorityFeePerGas \subseteq 0..MaxUint256
  BY <1>3, Zenon DEF validatePostgresTransaction, validateUint256
<1>5. /\ t.index \in Nat
      /\ t.value \in SUBSET Nat /\ t.gasPrice \in SUBSET Nat
      /\ t.maxFeePerGas \in SUBSET Nat /\ t.maxPriorityFeePerGas \in SUBSET Nat
  BY <1>1, Zenon DEF Transaction
<1>6. t.index \in 0..MaxInt32
  BY <1>4, <1>5, BundlesAssumption
<1> QED
  BY <1>2, <1>4, <1>5, <1>6, Zenon DEF t

LEMMA ValidEvent ==
    ASSUME NEW u \in BlockBundle, validatePostgresUpdate(u),
           NEW k \in DOMAIN u.events
    PROVE  LET e == u.events[k]
           IN  /\ e.blockNumber = u.block.number /\ e.blockHash = u.block.hash
               /\ e.blockNumber \in 0..MaxInt64
               /\ e.transactionIndex \in 0..MaxInt32
               /\ e.logIndex \in 0..MaxInt32
               /\ e.topics \in 0..4
               /\ \E j \in DOMAIN u.transactions :
                     u.transactions[j].hash = e.transactionHash
               /\ \A j \in 1..(k - 1) : u.events[j].logIndex # e.logIndex
<1> DEFINE e == u.events[k]
<1>1. e \in EventLog
  BY DEF BlockBundle
<1>2. /\ e.blockNumber = u.block.number /\ e.blockHash = u.block.hash
      /\ e.topics <= 4
      /\ \E j \in DOMAIN u.transactions :
            u.transactions[j].hash = e.transactionHash
      /\ \A j \in 1..(k - 1) : u.events[j].logIndex # e.logIndex
  BY Zenon DEF validatePostgresUpdate, validateCanonicalBundles, validEvents
<1>3. e.transactionIndex <= MaxInt32 /\ e.logIndex <= MaxInt32
  BY Zenon DEF validatePostgresUpdate
<1>4. u.block.number \in 0..MaxInt64
  BY Zenon DEF validatePostgresUpdate, validatePostgresBlock
<1> HIDE DEF e
<1>5. /\ e.transactionIndex \in Nat /\ e.logIndex \in Nat /\ e.topics \in Nat
  BY <1>1, Zenon DEF EventLog
<1>6. /\ e.transactionIndex \in 0..MaxInt32 /\ e.logIndex \in 0..MaxInt32
      /\ e.topics \in 0..4
  BY <1>2, <1>3, <1>5, BundlesAssumption
<1> QED
  BY <1>2, <1>4, <1>6, Zenon DEF e

LEMMA ValidBlock ==
    ASSUME NEW u \in BlockBundle, validatePostgresUpdate(u)
    PROVE  LET b == u.block
           IN  /\ {b.number, b.timestamp, b.gasLimit, b.gasUsed}
                     \subseteq 0..MaxInt64
               /\ b.transactionCount \in 0..MaxInt32
               /\ b.transactionCount = Len(u.transactions)
               /\ b.baseFeePerGas \in SUBSET Nat
               /\ b.baseFeePerGas \subseteq 0..MaxUint256
<1>1. /\ u.block.transactionCount \in Nat
      /\ u.block.baseFeePerGas \in SUBSET Nat
  BY Zenon DEF BlockBundle, Block
<1>2. /\ {u.block.number, u.block.timestamp, u.block.gasLimit,
          u.block.gasUsed} \subseteq 0..MaxInt64
      /\ u.block.transactionCount <= MaxInt32
      /\ u.block.baseFeePerGas \subseteq 0..MaxUint256
  BY Zenon DEF validatePostgresUpdate, validatePostgresBlock, validateUint256
<1>3. u.block.transactionCount = Len(u.transactions)
  BY Zenon DEF validatePostgresUpdate, validateCanonicalBundles
<1>4. u.block.transactionCount \in 0..MaxInt32
  BY <1>1, <1>2, BundlesAssumption
<1> QED
  BY <1>1, <1>2, <1>3, <1>4, Zenon

LEMMA Fits ==
    ASSUME NEW v, v \subseteq 0..MaxUint256
    PROVE  numericFits(v)
<1>1. Power(Base, MaxDigits) \in Nat
  BY PowerRecursion, BundlesAssumption, Zenon
<1>2. MaxUint256 \in Nat /\ MaxUint256 <= Power(Base, MaxDigits) - 1
  BY <1>1, BundlesAssumption
<1> HIDE DEF Power
<1> QED
  BY <1>1, <1>2 DEF numericFits

\* No conversion panics, and every clause of the schema holds.
LEMMA Writable ==
    ASSUME NEW u \in BlockBundle, validatePostgresUpdate(u)
    PROVE  argumentsFit(u) /\ constraintsHold(queueBundle(u))
<1> DEFINE rows == queueBundle(u)
<1>1. bigints(u) \subseteq 0..MaxInt64
  <2> DEFINE A == {u.block.number, u.block.timestamp, u.block.gasLimit,
                   u.block.gasUsed}
             B == UNION {{t.blockNumber, t.nonce, t.gasLimit} :
                            t \in Range(u.transactions)}
             C == {e.blockNumber : e \in Range(u.events)}
  <2>1. A \subseteq 0..MaxInt64
    BY ValidBlock, Zenon
  <2>2. \A t \in Range(u.transactions) :
            {t.blockNumber, t.nonce, t.gasLimit} \subseteq 0..MaxInt64
    BY ValidTransaction DEF Range
  <2>3. B \subseteq 0..MaxInt64
    BY <2>2
  <2>4. C \subseteq 0..MaxInt64
    BY ValidEvent DEF Range
  <2>5. bigints(u) = A \cup C \cup B
    BY Zenon DEF bigints
  <2> HIDE DEF A, B, C
  <2> QED
    BY <2>1, <2>3, <2>4, <2>5, Zenon
<1>2. integers(u) \subseteq 0..MaxInt32
  <2>1. u.block.transactionCount \in 0..MaxInt32
    BY ValidBlock, Zenon
  <2>2. \A t \in Range(u.transactions) : t.index \in 0..MaxInt32
    BY ValidTransaction, Zenon DEF Range
  <2>3. \A e \in Range(u.events) :
            e.transactionIndex \in 0..MaxInt32 /\ e.logIndex \in 0..MaxInt32
    BY ValidEvent, Zenon DEF Range
  <2> QED
    BY <2>1, <2>2, <2>3, Zenon DEF integers
<1>3. /\ rows.block = u.block
      /\ DOMAIN rows.transactions = DOMAIN u.transactions
      /\ DOMAIN rows.events = DOMAIN u.events
  BY Zenon DEF queueBundle
<1>4. blockRowAllowed(rows.block)
  <2>1. u.block.baseFeePerGas \subseteq 0..MaxUint256
    BY ValidBlock, Zenon
  <2>2. numericFits(u.block.baseFeePerGas)
    BY <2>1, Fits, Zenon
  <2> QED
    BY <1>3, <2>2, Zenon DEF blockRowAllowed
<1>5. ASSUME NEW k \in DOMAIN u.transactions
      PROVE  transactionRowAllowed(rows, k)
  <2> DEFINE t == u.transactions[k]
             r == rows.transactions[k]
  <2>1. /\ t \in Transaction
        /\ r.hash = t.hash /\ r.blockNumber = t.blockNumber
        /\ r.index = t.index /\ r.type = t.type /\ r.input = t.input
        /\ r.value = t.value /\ r.gasPrice = t.gasPrice
        /\ r.maxFeePerGas = t.maxFeePerGas
        /\ r.maxPriorityFeePerGas = t.maxPriorityFeePerGas
    BY QueuedTransaction, Zenon
  <2>2. t.blockNumber = rows.block.number /\ t.value # {}
    <3>1. t.blockNumber = u.block.number /\ t.value # {}
      BY ValidTransaction, Zenon
    <3> HIDE DEF rows, t
    <3> QED
      BY <1>3, <3>1, Zenon
  <2>3. \A v \in {t.value, t.gasPrice, t.maxFeePerGas,
                  t.maxPriorityFeePerGas} : numericFits(v)
    <3>1. \A v \in {t.value, t.gasPrice, t.maxFeePerGas,
                    t.maxPriorityFeePerGas} : v \subseteq 0..MaxUint256
      BY ValidTransaction
    <3> HIDE DEF t
    <3> QED
      BY <3>1, Fits, Zenon
  <2>4. t.type \in 0..255 /\ t.input # "nil"
    BY <2>1, Zenon DEF Transaction, Bytes
  <2>5. ASSUME NEW j \in 1..(k - 1)
        PROVE  /\ rows.transactions[j].hash # t.hash
               /\ rows.transactions[j].index # t.index
    <3>1. j \in DOMAIN u.transactions /\ j \in Int /\ k \in Int /\ j < k
      BY DEF BlockBundle
    <3>2. /\ rows.transactions[j].hash = u.transactions[j].hash
          /\ rows.transactions[j].index = u.transactions[j].index
      BY <3>1, QueuedTransaction, Zenon
    <3>3. u.transactions[j].hash # t.hash
      BY ValidTransaction, Zenon
    <3>4. u.transactions[j].index = j - 1 /\ t.index = k - 1
      BY <3>1, ValidTransaction, Zenon
    <3> QED
      BY <3>1, <3>2, <3>3, <3>4
  <2> HIDE DEF rows, t, r
  <2>6. /\ r.blockNumber = rows.block.number /\ r.type \in 0..255
        /\ r.value # {} /\ r.input # "nil"
    BY <2>1, <2>2, <2>4, Zenon
  <2>7. \A v \in {r.value, r.gasPrice, r.maxFeePerGas,
                  r.maxPriorityFeePerGas} : numericFits(v)
    BY <2>1, <2>3, Zenon
  <2>8. \A j \in 1..(k - 1) : /\ rows.transactions[j].hash # r.hash
                              /\ rows.transactions[j].index # r.index
    BY <2>1, <2>5, Zenon
  <2> QED
    BY <2>6, <2>7, <2>8, Zenon DEF transactionRowAllowed, r
<1>6. ASSUME NEW k \in DOMAIN u.events
      PROVE  eventRowAllowed(rows, k)
  <2> DEFINE e == u.events[k]
             r == rows.events[k]
  <2>1. /\ e \in EventLog
        /\ r.blockNumber = e.blockNumber /\ r.logIndex = e.logIndex
        /\ r.transactionHash = e.transactionHash
        /\ r.topics = e.topics /\ r.data = e.data
    BY QueuedEvent, Zenon
  <2>2. e.blockNumber = rows.block.number /\ e.topics \in 0..4
    BY <1>3, ValidEvent
  <2>3. e.data # "nil"
    BY <2>1, Zenon DEF EventLog, Bytes
  <2>4. \E t \in Range(rows.transactions) : t.hash = e.transactionHash
    <3>1. PICK j \in DOMAIN u.transactions :
              u.transactions[j].hash = e.transactionHash
      BY ValidEvent, Zenon
    <3>2. rows.transactions[j].hash = e.transactionHash
      BY <3>1, QueuedTransaction, Zenon
    <3> QED
      BY <1>3, <3>2, Zenon DEF Range
  <2>5. ASSUME NEW j \in 1..(k - 1)
        PROVE  rows.events[j].logIndex # e.logIndex
    <3>1. j \in DOMAIN u.events
      BY DEF BlockBundle
    <3>2. rows.events[j].logIndex = u.events[j].logIndex
      BY <3>1, QueuedEvent, Zenon
    <3> QED
      BY <3>2, ValidEvent
  <2> HIDE DEF rows
  <2> QED
    BY <2>1, <2>2, <2>3, <2>4, <2>5, Zenon DEF eventRowAllowed
<1> QED
  BY <1>1, <1>2, <1>3, <1>4, <1>5, <1>6, Zenon DEF argumentsFit, constraintsHold

-----------------------------------------------------------------------------
(* What is read back is what was written *)

LEMMA TransactionReadBack ==
    ASSUME NEW u \in BlockBundle, validatePostgresUpdate(u),
           NEW k \in DOMAIN u.transactions, NEW scale \in Scales
    PROVE  LET r == queueBundle(u).transactions[k]
           IN  /\ transactionDecodes(r, scale)
               /\ decodeTransaction(queueBundle(u), r, scale)
                      = cloneTransaction(u.transactions[k])
<1> DEFINE t == u.transactions[k]
           rows == queueBundle(u)
           r == rows.transactions[k]
           Back(v) == decodePostgresNumeric(readNumeric(v, scale))
<1>1. /\ t \in Transaction
      /\ r = [t EXCEPT !.blockHash = Nil]
      /\ r.blockNumber = t.blockNumber
      /\ r.index = t.index /\ r.type = t.type /\ r.nonce = t.nonce
      /\ r.gasLimit = t.gasLimit
      /\ r.value = t.value /\ r.gasPrice = t.gasPrice
      /\ r.maxFeePerGas = t.maxFeePerGas
      /\ r.maxPriorityFeePerGas = t.maxPriorityFeePerGas
  BY QueuedTransaction, Zenon
<1>2. /\ t.value # {} /\ t.blockHash = u.block.hash
      /\ \A v \in {t.value, t.gasPrice, t.maxFeePerGas,
                   t.maxPriorityFeePerGas} :
            v \in SUBSET Nat /\ v \subseteq 0..MaxUint256
  BY ValidTransaction, SMTT(30)
<1>3. rows.block.hash = u.block.hash
  BY Zenon DEF queueBundle
<1> HIDE DEF t, rows
<1>4. /\ Back(t.value) = t.value /\ Back(t.gasPrice) = t.gasPrice
      /\ Back(t.maxFeePerGas) = t.maxFeePerGas
      /\ Back(t.maxPriorityFeePerGas) = t.maxPriorityFeePerGas
  BY <1>2, NumericRoundTrip, Zenon
<1>5. transactionDecodes(r, scale)
  <2>1. /\ {t.blockNumber, t.index, t.nonce, t.gasLimit} \subseteq Nat
        /\ t.type \in 0..255
    BY <1>1, Zenon DEF Transaction
  <2>2. numericDecodes(readNumeric(t.value, scale), TRUE)
    BY <1>2, NumericRoundTrip, Zenon
  <2>3. /\ numericDecodes(readNumeric(t.gasPrice, scale), FALSE)
        /\ numericDecodes(readNumeric(t.maxFeePerGas, scale), FALSE)
        /\ numericDecodes(readNumeric(t.maxPriorityFeePerGas, scale), FALSE)
    BY <1>2, NumericRoundTrip, Zenon
  <2> HIDE DEF r
  <2> QED
    BY <1>1, <2>1, <2>2, <2>3, Zenon DEF transactionDecodes
<1>6. decodeTransaction(rows, r, scale)
          = [r EXCEPT !.blockHash = t.blockHash, !.value = Back(r.value),
                      !.gasPrice = Back(r.gasPrice),
                      !.maxFeePerGas = Back(r.maxFeePerGas),
                      !.maxPriorityFeePerGas = Back(r.maxPriorityFeePerGas),
                      !.input = appendToNil(r.input)]
  BY <1>1, <1>2, <1>3, Zenon DEF decodeTransaction, Transaction
<1>7. decodeTransaction(rows, r, scale) = [t EXCEPT !.input = appendToNil(t.input)]
  <2>1. decodeTransaction(rows, r, scale)
            = [r EXCEPT !.blockHash = t.blockHash, !.value = t.value,
                        !.gasPrice = t.gasPrice,
                        !.maxFeePerGas = t.maxFeePerGas,
                        !.maxPriorityFeePerGas = t.maxPriorityFeePerGas,
                        !.input = appendToNil(t.input)]
    <3>1. r.input = t.input
      BY <1>1, Zenon DEF Transaction
    <3> HIDE DEF Back, r
    <3> QED
      BY <1>1, <1>4, <1>6, <3>1, Zenon
  <2> DEFINE i == appendToNil(t.input)
  <2> HIDE DEF i
  <2>2. [[t EXCEPT !.blockHash = Nil] EXCEPT
            !.blockHash = t.blockHash, !.value = t.value,
            !.gasPrice = t.gasPrice, !.maxFeePerGas = t.maxFeePerGas,
            !.maxPriorityFeePerGas = t.maxPriorityFeePerGas, !.input = i]
            = [t EXCEPT !.input = i]
    BY <1>1, Zenon DEF Transaction
  <2> QED
    BY <1>1, <2>1, <2>2, Zenon DEF i
<1>8. cloneTransaction(t) = [t EXCEPT !.input = appendToNil(t.input)]
  BY <1>1, Zenon DEF cloneTransaction, Transaction
<1> QED
  BY <1>5, <1>7, <1>8, Zenon DEF t, rows

\* The events of a transaction, as rows and as the bundle holds them.
Unhashed(e) == [e EXCEPT !.blockHash = Nil]

LEMMA UnhashedFields ==
    ASSUME NEW e \in EventLog
    PROVE  /\ Unhashed(e).logIndex = e.logIndex
           /\ Unhashed(e).blockNumber = e.blockNumber
           /\ Unhashed(e).transactionHash = e.transactionHash
           /\ Unhashed(e).transactionIndex = e.transactionIndex
           /\ Unhashed(e).topics = e.topics
  BY Zenon DEF Unhashed, EventLog

LEMMA EventReadBack ==
    ASSUME NEW e \in EventLog, NEW rows, e.blockHash = rows.block.hash
    PROVE  decodeEvent(rows, Unhashed(e)) = cloneEvent(e)
  BY Zenon DEF decodeEvent, Unhashed, cloneEvent, EventLog

\* Rows without the block's hash are in the order of the events.
LEMMA UnhashedOrder ==
    ASSUME NEW S \in SUBSET EventLog, IsFiniteSet(S),
           \A x, y \in S : x.logIndex = y.logIndex => x = y
    PROVE  LET s == byLogIndex(S)
               r == byLogIndex({Unhashed(e) : e \in S})
           IN  /\ s \in [1..Cardinality(S) -> S]
               /\ r = [k \in 1..Cardinality(S) |-> Unhashed(s[k])]
<1> DEFINE R == {Unhashed(e) : e \in S}
           n == Cardinality(S)
           s == byLogIndex(S)
           r == [k \in 1..n |-> Unhashed(s[k])]
           key == [e \in S |-> e.logIndex]
           rkey == [e \in R |-> e.logIndex]
           f == [e \in S |-> Unhashed(e)]
<1>1. Ascends(s, S, key)
  BY ByLogIndexAscends, Zenon
<1>2. n \in Nat /\ s \in [1..n -> S]
  BY <1>1, FS_CardinalityType, Zenon DEF Ascends
<1>3. \A e \in S : Unhashed(e) \in R /\ Unhashed(e).logIndex = e.logIndex
  BY UnhashedFields, Zenon
<1>4. \A e \in S : e.logIndex \in Nat
  BY Zenon DEF EventLog
<1>5. rkey \in [R -> Nat]
  BY <1>3, <1>4
<1>6. ExistsBijection(S, R)
  <2>1. f \in [S -> R]
    OBVIOUS
  <2>2. \A x, y \in S : f[x] = f[y] => x = y
    BY <1>3
  <2>3. \A z \in R : \E x \in S : f[x] = z
    OBVIOUS
  <2> QED
    BY <2>1, <2>2, <2>3, Zenon
       DEF ExistsBijection, Bijection, Injection, Surjection, IsInjective
<1>7. IsFiniteSet(R) /\ Cardinality(R) = n
  BY <1>6, FS_Bijection, Zenon
<1>8. \A e \in S : key[e] = e.logIndex /\ rkey[Unhashed(e)] = e.logIndex
  BY <1>3, Zenon
<1>9. \A j, k \in 1..n : j < k => key[s[j]] < key[s[k]]
  BY <1>1, Zenon DEF Ascends
<1> HIDE DEF R, s, key, rkey, n
<1>10. r \in [1..n -> R]
  BY <1>2, <1>3, Zenon
<1>11. \A k \in 1..n : rkey[r[k]] = key[s[k]]
  BY <1>2, <1>8, Zenon
<1>12. \A j, k \in 1..n : j < k => rkey[r[j]] < rkey[r[k]]
  BY <1>9, <1>11, Zenon
<1>13. Ascends(r, R, rkey)
  BY <1>7, <1>10, <1>12, Zenon DEF Ascends
<1>14. Ordered(R, rkey) = r
  BY <1>5, <1>7, <1>13, OrderedIs, Zenon
<1>15. byLogIndex(R) = r
  BY <1>14, Zenon DEF byLogIndex, rkey
<1> QED
  BY <1>2, <1>15, Zenon DEF R, s, n

LEMMA ValidEventsAreKeyed ==
    ASSUME NEW u \in BlockBundle, validatePostgresUpdate(u)
    PROVE  LET S == Range(u.events)
           IN  /\ S \in SUBSET EventLog /\ IsFiniteSet(S)
               /\ \A x, y \in S : x.logIndex = y.logIndex => x = y
<1> DEFINE n == Len(u.events)
           S == Range(u.events)
<1>1. /\ u.events \in Seq(EventLog) /\ n \in Nat /\ DOMAIN u.events = 1..n
      /\ u.events \in [1..n -> EventLog]
  BY DEF BlockBundle
<1>2. S = {u.events[k] : k \in 1..n}
  BY <1>1, Zenon DEF Range
<1>3. u.events \in Surjection(1..n, S)
  BY <1>1, <1>2, Zenon DEF Surjection
<1>4. IsFiniteSet(S)
  BY <1>1, <1>3, FS_Interval, FS_Surjection
<1>5. ASSUME NEW j \in 1..n, NEW k \in 1..n,
             u.events[j].logIndex = u.events[k].logIndex
      PROVE  j = k
  <2>1. \A i \in 1..n : \A h \in 1..(i-1) :
            u.events[h].logIndex # u.events[i].logIndex
    BY <1>1, ValidEvent, Zenon
  <2> QED
    BY <1>1, <1>5, <2>1
<1>6. S \in SUBSET EventLog
  BY <1>1, <1>2, Zenon
<1> QED
  BY <1>2, <1>4, <1>5, <1>6, Zenon

LEMMA EventsReadBack ==
    ASSUME NEW u \in BlockBundle, validatePostgresUpdate(u), NEW hash
    PROVE  LET rows == queueBundle(u)
               E == EventsOf(u.events, hash)
               R == EventsOf(rows.events, hash)
           IN  /\ \A e \in Range(R) : eventDecodes(e)
               /\ [k \in DOMAIN R |-> decodeEvent(rows, R[k])]
                      = [k \in DOMAIN E |-> cloneEvent(E[k])]
<1> DEFINE rows == queueBundle(u)
           E == EventsOf(u.events, hash)
           R == EventsOf(rows.events, hash)
           S == {e \in Range(u.events) : e.transactionHash = hash}
           T == {e \in Range(rows.events) : e.transactionHash = hash}
           n == Cardinality(S)
<1>1. /\ S \in SUBSET EventLog /\ IsFiniteSet(S)
      /\ \A x, y \in S : x.logIndex = y.logIndex => x = y
  <2>1. /\ Range(u.events) \in SUBSET EventLog /\ IsFiniteSet(Range(u.events))
        /\ \A x, y \in Range(u.events) : x.logIndex = y.logIndex => x = y
    BY ValidEventsAreKeyed, Zenon
  <2>2. IsFiniteSet(S)
    BY <2>1, FS_Subset, Zenon
  <2> QED
    BY <2>1, <2>2, Zenon
<1>2. /\ DOMAIN rows.events = DOMAIN u.events
      /\ \A k \in DOMAIN u.events : rows.events[k] = Unhashed(u.events[k])
  BY Zenon DEF queueBundle, Unhashed
<1>3. rows.block.hash = u.block.hash
  BY Zenon DEF queueBundle
<1> HIDE DEF rows
<1>4. Range(rows.events) = {Unhashed(e) : e \in Range(u.events)}
  BY <1>2, Zenon DEF Range
<1>5. \A e \in Range(u.events) : Unhashed(e).transactionHash = e.transactionHash
  BY ValidEventsAreKeyed, UnhashedFields, Zenon
<1>6. T = {Unhashed(e) : e \in S}
  BY <1>4, <1>5
<1>7. E = byLogIndex(S) /\ R = byLogIndex(T)
  BY Zenon DEF EventsOf
<1> HIDE DEF E, R, S, T
<1>8. E \in [1..n -> S] /\ R = [k \in 1..n |-> Unhashed(E[k])]
  BY <1>1, <1>6, <1>7, UnhashedOrder, Zenon
<1>9. ASSUME NEW e \in S
      PROVE  /\ e \in EventLog /\ e.blockHash = rows.block.hash
             /\ eventDecodes(Unhashed(e))
  <2>1. PICK k \in DOMAIN u.events : e = u.events[k]
    BY Zenon DEF S, Range
  <2>2. /\ e.blockHash = u.block.hash /\ e.topics \in 0..4
    BY <2>1, ValidEvent, Zenon
  <2>3. e \in EventLog
    BY <1>1, Zenon
  <2>4. {e.blockNumber, e.transactionIndex, e.logIndex} \subseteq Nat
    BY <2>3, Zenon DEF EventLog
  <2>5. eventDecodes(Unhashed(e))
    BY <2>2, <2>3, <2>4, UnhashedFields DEF eventDecodes
  <2> QED
    BY <1>3, <2>2, <2>3, <2>5, Zenon
<1>10. \A e \in Range(R) : eventDecodes(e)
  BY <1>8, <1>9, Zenon DEF Range
<1>11. DOMAIN R = 1..n /\ DOMAIN E = 1..n
  BY <1>8, Zenon
<1>12. \A k \in 1..n : decodeEvent(rows, R[k]) = cloneEvent(E[k])
  <2> TAKE k \in 1..n
  <2>1. R[k] = Unhashed(E[k]) /\ E[k] \in S
    BY <1>8, Zenon
  <2> QED
    BY <1>9, <2>1, EventReadBack, Zenon
<1>13. [k \in DOMAIN R |-> decodeEvent(rows, R[k])]
           = [k \in DOMAIN E |-> cloneEvent(E[k])]
  BY <1>11, <1>12, Zenon
<1> QED
  BY <1>10, <1>13, Zenon DEF E, R, rows

LEMMA BlockReadBack ==
    ASSUME NEW u \in BlockBundle, validatePostgresUpdate(u),
           NEW scale \in Scales
    PROVE  postgresBlock(queueBundle(u), scale)
               = newBlockResponse(u.block, Hashes(u.transactions))
<1> DEFINE rows == queueBundle(u)
           s == rows.transactions
           n == Len(u.transactions)
           S == Range(s)
           key == [t \in S |-> t.index]
<1>1. /\ n \in Nat /\ DOMAIN u.transactions = 1..n
      /\ \A k \in 1..n : u.transactions[k] \in Transaction
  BY DEF BlockBundle
<1>2. /\ DOMAIN s = 1..n /\ rows.block = u.block
      /\ s = [k \in 1..n |-> [u.transactions[k] EXCEPT !.blockHash = Nil]]
  BY <1>1, Zenon DEF queueBundle
<1>3. \A k \in 1..n : /\ s[k].hash = u.transactions[k].hash
                      /\ s[k].index = k - 1
  <2> TAKE k \in 1..n
  <2>1. k \in DOMAIN u.transactions
    BY <1>1, Zenon
  <2>2. s[k].hash = u.transactions[k].hash /\ s[k].index = u.transactions[k].index
    BY <2>1, QueuedTransaction, Zenon
  <2>3. u.transactions[k].index = k - 1
    BY <2>1, ValidTransaction, Zenon
  <2> QED
    BY <2>2, <2>3, Zenon
<1> HIDE DEF rows
<1>4. s \in [1..n -> S] /\ S = {s[k] : k \in 1..n}
  BY <1>2, Zenon DEF Range
<1>5. ExistsBijection(1..n, S)
  <2>1. \A j, k \in 1..n : s[j] = s[k] => j = k
    BY <1>1, <1>3
  <2> QED
    BY <1>4, <2>1, Zenon
       DEF ExistsBijection, Bijection, Injection, Surjection, IsInjective
<1>6. IsFiniteSet(1..n) /\ Cardinality(1..n) = n
  <2> HIDE DEF n
  <2>1. n \in Int /\ 1 \in Int
    BY <1>1
  <2>2. /\ IsFiniteSet(1..n)
        /\ Cardinality(1..n) = IF 1 > n THEN 0 ELSE n - 1 + 1
    BY <2>1, FS_Interval, Zenon
  <2> QED
    BY <1>1, <2>2
<1>7. IsFiniteSet(S) /\ Cardinality(S) = n
  BY <1>5, <1>6, FS_Bijection, Zenon
<1>8. key \in [S -> Nat]
  BY <1>1, <1>3, <1>4
<1>9. \A k \in 1..n : key[s[k]] = k - 1
  BY <1>3, <1>4, Zenon
<1> HIDE DEF S, key, s
<1>10. Ascends(s, S, key)
  <2>1. \A j, k \in 1..n : j < k => key[s[j]] < key[s[k]]
    BY <1>1, <1>9
  <2> QED
    BY <1>4, <1>7, <2>1, Zenon DEF Ascends
<1>11. Ordered(S, key) = s
  BY <1>7, <1>8, <1>10, OrderedIs, Zenon
<1>12. Hashes(s) = Hashes(u.transactions)
  <2>1. \A k \in 1..n : s[k].hash = u.transactions[k].hash
    BY <1>3, Zenon DEF s
  <2>2. DOMAIN s = 1..n
    BY <1>2, Zenon DEF s
  <2> QED
    BY <1>1, <2>1, <2>2, Zenon DEF Hashes
<1>13. Len(s) = u.block.transactionCount
  <2>1. Len(s) = n
    BY <1>1, <1>2
  <2> QED
    BY <2>1, ValidBlock, Zenon
<1>14. u.block \in Block
  BY Zenon DEF BlockBundle
<1>15. decodeBlock(u.block, scale) = u.block
  <2>1. decodePostgresNumeric(readNumeric(u.block.baseFeePerGas, scale))
            = u.block.baseFeePerGas
    BY ValidBlock, NumericRoundTrip, Zenon
  <2> QED
    BY <1>14, <2>1, Zenon DEF decodeBlock, Block
<1>16. blockDecodes(u.block, scale)
  <2>1. numericDecodes(readNumeric(u.block.baseFeePerGas, scale), FALSE)
    BY ValidBlock, NumericRoundTrip, Zenon
  <2>2. /\ {u.block.number, u.block.timestamp, u.block.gasLimit,
            u.block.gasUsed} \subseteq Nat
        /\ u.block.transactionCount >= 0
    BY <1>14 DEF Block
  <2> QED
    BY <2>1, <2>2, Zenon DEF blockDecodes
<1>17. postgresBlock(rows, scale)
           = newBlockResponse(decodeBlock(rows.block, scale), Hashes(s))
  <2>1. Ordered(Range(rows.transactions),
                [t \in Range(rows.transactions) |-> t.index]) = s
    BY <1>11, Zenon DEF S, key, s
  <2> QED
    BY <1>2, <1>13, <1>16, <2>1, Zenon DEF postgresBlock
<1> QED
  BY <1>2, <1>12, <1>15, <1>17, Zenon DEF rows

\* The API answers from PostgreSQL as it would from Memory.
LEMMA ReadBack ==
    ASSUME NEW u \in BlockBundle, validatePostgresUpdate(u),
           NEW scale \in Scales
    PROVE  postgresAnswers(queueBundle(u), scale) = memoryAnswers(u)
<1> DEFINE rows == queueBundle(u)
           P(k) == postgresTransaction(rows, rows.transactions[k], scale)
           M(k) == newTransactionResponse(
                       cloneTransaction(u.transactions[k]),
                       LET events == EventsOf(u.events, u.transactions[k].hash)
                       IN  [j \in DOMAIN events |-> cloneEvent(events[j])])
<1>1. DOMAIN rows.transactions = DOMAIN u.transactions
  BY Zenon DEF queueBundle
<1>2. ASSUME NEW k \in DOMAIN u.transactions PROVE P(k) = M(k)
  <2> DEFINE t == u.transactions[k]
             r == rows.transactions[k]
             R == EventsOf(rows.events, r.hash)
             E == EventsOf(u.events, t.hash)
  <2>1. r.hash = t.hash
    BY QueuedTransaction, Zenon
  <2>2. /\ transactionDecodes(r, scale)
        /\ decodeTransaction(rows, r, scale) = cloneTransaction(t)
    BY TransactionReadBack, Zenon
  <2>3. /\ \A e \in Range(R) : eventDecodes(e)
        /\ [j \in DOMAIN R |-> decodeEvent(rows, R[j])]
               = [j \in DOMAIN E |-> cloneEvent(E[j])]
    <3>1. R = EventsOf(rows.events, t.hash)
      BY <2>1, Zenon
    <3>2. /\ \A e \in Range(EventsOf(rows.events, t.hash)) : eventDecodes(e)
          /\ [j \in DOMAIN EventsOf(rows.events, t.hash) |->
                 decodeEvent(rows, EventsOf(rows.events, t.hash)[j])]
                 = [j \in DOMAIN E |-> cloneEvent(E[j])]
      BY EventsReadBack, Zenon
    <3> HIDE DEF R, E
    <3> QED
      BY <3>1, <3>2, Zenon
  <2>4. P(k) = newTransactionResponse(
                   decodeTransaction(rows, r, scale),
                   [j \in DOMAIN R |-> decodeEvent(rows, R[j])])
    <3> HIDE DEF rows
    <3> QED
      BY <2>2, <2>3, Zenon DEF postgresTransaction
  <2> HIDE DEF rows, t
  <2>5. P(k) = newTransactionResponse(
                   cloneTransaction(t), [j \in DOMAIN E |-> cloneEvent(E[j])])
    BY <2>2, <2>3, <2>4, Zenon
  <2> QED
    BY <2>5, Zenon DEF t
<1>3. postgresAnswers(rows, scale)
          = [block |-> postgresBlock(rows, scale),
             transactions |-> [k \in DOMAIN rows.transactions |-> P(k)]]
  BY Zenon DEF postgresAnswers
<1>4. memoryAnswers(u)
          = [block |-> newBlockResponse(u.block, Hashes(u.transactions)),
             transactions |-> [k \in DOMAIN u.transactions |-> M(k)]]
  BY Zenon DEF memoryAnswers
<1>5. postgresBlock(rows, scale)
          = newBlockResponse(u.block, Hashes(u.transactions))
  BY BlockReadBack, Zenon
<1> HIDE DEF rows, P, M
<1>6. [k \in DOMAIN rows.transactions |-> P(k)]
          = [k \in DOMAIN u.transactions |-> M(k)]
  BY <1>1, <1>2, Zenon
<1> QED
  BY <1>3, <1>4, <1>5, <1>6, Zenon DEF rows

\* And that is what the node returned.
FromTheNode(a, b) ==
    /\ \A r \in a.block : /\ r.block.hash = b.hash
                          /\ r.block.baseFeePerGas = b.baseFee
    /\ \A k \in DOMAIN b.transactions :
          \E r \in a.transactions[k] :
              /\ r.transaction.hash = b.transactions[k].hash
              /\ r.transaction.value = {b.transactions[k].value}
              /\ r.transaction.input = hex(b.transactions[k].data)

LEMMA AnswersFromTheNode ==
    ASSUME NEW b, NEW logs, Consistent(b, logs)
    PROVE  FromTheNode(memoryAnswers(newBundle(b, logs)), b)
<1> DEFINE u == newBundle(b, logs)
           a == memoryAnswers(u)
<1>1. u.block.hash = b.hash /\ u.block.baseFeePerGas = b.baseFee
  BY Zenon DEF newBundle
<1>2. u.transactions = mapTransactions(b)
  BY Zenon DEF newBundle
<1>3. DOMAIN u.transactions = DOMAIN b.transactions
  BY <1>2, Zenon DEF mapTransactions
<1> HIDE DEF u
<1>4. a.block = newBlockResponse(u.block, Hashes(u.transactions))
  BY Zenon DEF memoryAnswers
<1>5. \A r \in a.block : /\ r.block.hash = b.hash
                         /\ r.block.baseFeePerGas = b.baseFee
  BY <1>1, <1>4, SMTT(30) DEF newBlockResponse
<1>6. ASSUME NEW k \in DOMAIN b.transactions
      PROVE  \E r \in a.transactions[k] :
                 /\ r.transaction.hash = b.transactions[k].hash
                 /\ r.transaction.value = {b.transactions[k].value}
                 /\ r.transaction.input = hex(b.transactions[k].data)
  <2> DEFINE t == b.transactions[k]
             m == u.transactions[k]
             c == cloneTransaction(m)
             events == LET E == EventsOf(u.events, m.hash)
                       IN  [j \in DOMAIN E |-> cloneEvent(E[j])]
             r == [transaction |-> [c EXCEPT !.input = hex(@)],
                   events |-> [j \in DOMAIN events |->
                                  newEventResponse(events[j])]]
  <2>1. /\ t \in NodeTransaction /\ m \in Transaction
        /\ m.hash = t.hash /\ m.value = {t.value}
        /\ m.input = appendToEmpty(t.data)
    BY <1>2, Mapped
  <2>2. a.transactions[k] = newTransactionResponse(c, events)
    BY <1>3, Zenon DEF memoryAnswers
  <2>3. t.data \in STRING
    BY <2>1, Zenon DEF NodeTransaction
  <2> HIDE DEF events, m, t
  <2>4. c.value = m.value
    BY <2>1, Zenon DEF cloneTransaction, Transaction
  <2>5. /\ [c EXCEPT !.input = hex(@)].hash = m.hash
        /\ [c EXCEPT !.input = hex(@)].value = m.value
        /\ [c EXCEPT !.input = hex(@)].input = hex(appendToNil(m.input))
    BY <2>1, Zenon DEF cloneTransaction, Transaction
  <2> HIDE DEF c
  <2>6. hex(appendToNil(m.input)) = hex(t.data)
    BY <2>1, <2>3, BytesKept, Zenon
  <2>7. r \in a.transactions[k]
    BY <2>1, <2>2, <2>4, Zenon DEF newTransactionResponse
  <2>8. /\ r.transaction.hash = t.hash /\ r.transaction.value = {t.value}
        /\ r.transaction.input = hex(t.data)
    BY <2>1, <2>5, <2>6, Zenon
  <2> QED
    BY <2>7, <2>8, Zenon DEF t
<1> HIDE DEF a
<1>7. FromTheNode(a, b)
  BY <1>5, <1>6, Zenon DEF FromTheNode
<1> QED
  BY <1>7, Zenon DEF a, u

-----------------------------------------------------------------------------
(* The inductive invariant: where each stage's data come from *)

Traced ==
    /\ stage \notin {"panic", "constraint violated"}
    /\ stage = "block" => block \in BlockAnswers /\ consistentBlock(block)
    /\ stage \in {"fetched", "stored", "answered"} =>
          \E logs \in LogAnswers : /\ Consistent(block, logs)
                                   /\ bundle = newBundle(block, logs)
    /\ stage \in {"stored", "answered"} =>
          /\ validatePostgresUpdate(bundle)
          /\ tables = queueBundle(bundle)
    /\ stage = "answered" =>
          \E scale \in Scales : answers = postgresAnswers(tables, scale)

LEMMA TracedInit == Init => Traced
  BY Zenon DEF Init, Traced

LEMMA TracedNext == Traced /\ [Next]_vars => Traced'
<1> SUFFICES ASSUME Traced, [Next]_vars PROVE Traced'
  OBVIOUS
<1>1. ASSUME NEW b \in BlockAnswers, receiveBlock(b) PROVE Traced'
  <2>1. CASE stage' = "inconsistent"
    BY <2>1, Zenon DEF Traced
  <2>2. CASE stage' = "block" /\ consistentBlock(b) /\ block' = b
    <3>1. consistentBlock(block')
      BY <2>2, Zenon
    <3>2. consistentBlock(block)'
      BY <3>1, Zenon DEF consistentBlock, validateBlockNumber, consistentTransactions
    <3> QED
      BY <2>2, <3>2, Zenon DEF Traced
  <2> QED
    BY <1>1, <2>1, <2>2, Zenon DEF receiveBlock
<1>2. ASSUME NEW logs \in LogAnswers, receiveLogs(logs) PROVE Traced'
  <2>1. CASE stage' = "inconsistent"
    BY <2>1, Zenon DEF Traced
  <2>2. CASE /\ consistentLogs(block, logs) /\ stage' = "fetched"
             /\ bundle' = newBundle(block, logs)
    <3>1. block \in BlockAnswers /\ consistentBlock(block) /\ block' = block
      BY <1>2, Zenon DEF receiveLogs, Traced
    <3>2. block \in NodeBlock /\ logs \in Seq(NodeLog)
      BY <3>1, BundlesAssumption, Zenon DEF consistentBlock
    <3>3. Consistent(block, logs)
      BY <2>2, <3>1, <3>2, Zenon DEF Consistent
    <3>4. Consistent(block', logs) /\ bundle' = newBundle(block', logs)
      BY <2>2, <3>1, <3>3, Zenon
    <3> QED
      BY <2>2, <3>4, Zenon DEF Traced
  <2> QED
    BY <1>2, <2>1, <2>2, Zenon DEF receiveLogs
<1>3. CASE callFails
  BY <1>3, Zenon DEF callFails, Traced
<1>4. CASE applyUpdate
  <2>1. PICK logs \in LogAnswers : /\ Consistent(block, logs)
                                   /\ bundle = newBundle(block, logs)
    BY <1>4, Zenon DEF applyUpdate, Traced
  <2>2. CASE stage' = "invalid"
    BY <2>2, Zenon DEF Traced
  <2>3. CASE validatePostgresUpdate(bundle)
    <3>1. argumentsFit(bundle) /\ constraintsHold(queueBundle(bundle))
      BY <2>1, <2>3, BundleType, Writable, Zenon
    <3>2. /\ stage' = "stored" /\ tables' = queueBundle(bundle)
          /\ block' = block /\ bundle' = bundle
      BY <1>4, <2>3, <3>1, Zenon DEF applyUpdate
    <3>3. /\ Consistent(block', logs) /\ bundle' = newBundle(block', logs)
          /\ validatePostgresUpdate(bundle') /\ tables' = queueBundle(bundle')
      BY <2>1, <2>3, <3>2, Zenon
    <3> QED
      BY <3>2, <3>3, Zenon DEF Traced
  <2> QED
    BY <1>4, <2>2, <2>3, Zenon DEF applyUpdate
<1>5. ASSUME NEW scale \in Scales, query(scale) PROVE Traced'
  <2>1. PICK logs \in LogAnswers : /\ Consistent(block, logs)
                                   /\ bundle = newBundle(block, logs)
    BY <1>5, Zenon DEF query, Traced
  <2>2. validatePostgresUpdate(bundle) /\ tables = queueBundle(bundle)
    BY <1>5, Zenon DEF query, Traced
  <2>3. /\ stage' = "answered" /\ answers' = postgresAnswers(tables, scale)
        /\ block' = block /\ bundle' = bundle /\ tables' = tables
    BY <1>5, Zenon DEF query
  <2>4. /\ Consistent(block', logs) /\ bundle' = newBundle(block', logs)
        /\ validatePostgresUpdate(bundle') /\ tables' = queueBundle(bundle')
        /\ answers' = postgresAnswers(tables', scale)
    BY <2>1, <2>2, <2>3, Zenon
  <2> QED
    BY <2>3, <2>4, Zenon DEF Traced
<1>6. CASE UNCHANGED vars
  <2>1. /\ stage' = stage /\ block' = block /\ bundle' = bundle
        /\ tables' = tables /\ answers' = answers
    BY <1>6, Zenon DEF vars
  <2> QED
    BY <2>1, Zenon DEF Traced
<1> QED
  BY <1>1, <1>2, <1>3, <1>4, <1>5, <1>6, Zenon DEF Next

LEMMA TracedAlways == Spec => []Traced
  BY TracedInit, TracedNext, PTL DEF Spec

\* The fetcher and the store agree on what a consistent block is: whatever the
\* node answers, validateCanonicalBundles accepts what FetchBlock returns.
THEOREM FetchedCorrect == Spec => []FetchedIsConsistent
<1>1. Traced => FetchedIsConsistent
  BY Canonical, Zenon DEF Traced, FetchedIsConsistent
<1> QED
  BY <1>1, TracedAlways, PTL

\* What validatePostgresUpdate accepts never panics in a conversion and never
\* violates the schema, for every width and every precision.
THEOREM AcceptedCorrect == Spec => []AcceptedIsWritable
<1>1. Traced => AcceptedIsWritable
  BY Zenon DEF Traced, AcceptedIsWritable
<1> QED
  BY <1>1, TracedAlways, PTL

\* The API answers from PostgreSQL with what the node returned and with what it
\* would answer from Memory, whatever the exponent a numeric is read with.
THEOREM AnswersCorrect == Spec => []AnswersAreTheBlock
<1>1. Traced => AnswersAreTheBlock
  <2> SUFFICES ASSUME Traced, stage = "answered"
               PROVE  /\ answers = memoryAnswers(bundle)
                      /\ \A r \in answers.block :
                            /\ r.block.hash = block.hash
                            /\ r.block.baseFeePerGas = block.baseFee
                      /\ \A k \in DOMAIN block.transactions :
                            \E r \in answers.transactions[k] :
                               /\ r.transaction.hash = block.transactions[k].hash
                               /\ r.transaction.value
                                     = {block.transactions[k].value}
                               /\ r.transaction.input
                                     = hex(block.transactions[k].data)
    BY Zenon DEF AnswersAreTheBlock
  <2>1. PICK logs \in LogAnswers : /\ Consistent(block, logs)
                                   /\ bundle = newBundle(block, logs)
    BY Zenon DEF Traced
  <2>2. PICK scale \in Scales : answers = postgresAnswers(tables, scale)
    BY Zenon DEF Traced
  <2>3. validatePostgresUpdate(bundle) /\ tables = queueBundle(bundle)
    BY Zenon DEF Traced
  <2>4. answers = memoryAnswers(bundle)
    BY <2>1, <2>2, <2>3, BundleType, ReadBack, Zenon
  <2>5. FromTheNode(answers, block)
    BY <2>1, <2>4, AnswersFromTheNode, Zenon
  <2> QED
    BY <2>4, <2>5, Zenon DEF FromTheNode
<1> QED
  BY <1>1, TracedAlways, PTL
=============================================================================

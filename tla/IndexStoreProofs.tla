-------------------------- MODULE IndexStoreProofs --------------------------
(***************************************************************************)
(* Facts about the queries and updates of the index store.                 *)
(***************************************************************************)
EXTENDS IndexStore, PowersProofs

\* Every nonempty set of blocks has a highest one: numbers are bounded by
\* MaxUint64, so the distances from it have a least element.
LEMMA HighestExists ==
    ASSUME NEW rows \in SUBSET Block, rows # {}
    PROVE  \E b \in rows : \A c \in rows : Number[c] <= Number[b]
<1> DEFINE Gap(b) == MaxUint64 - Number[b]
           Gaps == {Gap(b) : b \in rows}
<1>1. Gaps \in SUBSET Nat /\ Gaps # {}
  BY BlockTreeAssumption
<1> HIDE DEF Gaps
<1>2. PICK m \in Gaps : \A g \in Gaps : m <= g
  BY <1>1, LeastNat
<1>3. PICK b \in rows : m = Gap(b)
  BY <1>2 DEF Gaps
<1>4. ASSUME NEW c \in rows PROVE Number[c] <= Number[b]
  <2>1. Gap(c) \in Gaps
    BY DEF Gaps
  <2> QED
    BY <2>1, <1>2, <1>3, BlockTreeAssumption
<1> QED
  BY <1>4

\* CanonicalTip returns the highest stored block, and nil only when nothing
\* is stored.
LEMMA CanonicalTipHighest ==
    ASSUME NEW rows \in SUBSET Block
    PROVE  /\ rows = {} => CanonicalTip(rows) = NoBlock
           /\ rows # {} => /\ CanonicalTip(rows) \in rows
                           /\ \A c \in rows :
                                 Number[c] <= Number[CanonicalTip(rows)]
           /\ CanonicalTip(rows) \in Block \cup {NoBlock}
  BY HighestExists DEF CanonicalTip

\* validateReplacement, which compares neighbours only, pins the number of
\* every replacement block: position k holds block replaceFrom + k - 1.
LEMMA ReplacementNumbers ==
    ASSUME NEW u \in Update, validateReplacement(u)
    PROVE  \A k \in 1..Len(u.blocks) :
              Number[u.blocks[k]] = u.replaceFrom + k - 1
<1> DEFINE Bad == {k \in 1..Len(u.blocks) :
                      Number[u.blocks[k]] # u.replaceFrom + k - 1}
<1>1. u.blocks \in Seq(Block) /\ u.replaceFrom \in Nat
  BY BlockTreeAssumption DEF Update
<1>2. Bad \in SUBSET Nat
  BY <1>1
<1>3. ASSUME Bad # {} PROVE FALSE
  <2>1. PICK k \in Bad : \A j \in Bad : k <= j
    BY <1>2, <1>3, LeastNat
  <2>2. k # 1
    BY <1>1, <2>1 DEF validateReplacement
  <2>3. k \in 2..Len(u.blocks) /\ k - 1 \in 1..Len(u.blocks)
    BY <1>1, <2>1, <2>2
  <2>4. k - 1 \notin Bad
    BY <2>1, <2>3
  <2>5. Number[u.blocks[k-1]] = u.replaceFrom + (k - 1) - 1
    BY <2>3, <2>4
  <2>6. Number[u.blocks[k]] = Number[u.blocks[k-1]] + 1
    BY <1>1, <2>3 DEF validateReplacement
  <2>7. u.replaceFrom + (k - 1) - 1 + 1 = u.replaceFrom + k - 1
    BY <1>1, <2>3
  <2> QED
    BY <2>1, <2>5, <2>6, <2>7
<1> QED
  BY <1>3

\* An accepted update keeps the store one chain, whatever plan it was made
\* from and whatever was stored in the meantime.
LEMMA UpdateKeepsOneChain ==
    ASSUME NEW rows \in SUBSET Block, NEW states, NEW u \in Update,
           OneChain(rows), Acceptable(rows, states, u)
    PROVE  /\ UpdatedBlocks(rows, u) \subseteq Block
           /\ OneChain(UpdatedBlocks(rows, u))
<1> DEFINE kept == deleteCanonicalRange(rows, u)
           new  == {u.blocks[k] : k \in 1..Len(u.blocks)}
           n    == Len(u.blocks)
<1> USE BlockTreeAssumption
<1>1. /\ u.blocks \in Seq(Block) /\ n \in Nat
      /\ u.replaceFrom \in Nat /\ u.retainFrom \in Nat
  BY DEF Update
<1>2. \A b \in kept : /\ b \in rows
                      /\ u.retainFrom <= Number[b]
                      /\ Number[b] < u.replaceFrom
  BY <1>1 DEF deleteCanonicalRange
<1>3. \A b \in rows : u.retainFrom <= Number[b] /\ Number[b] < u.replaceFrom
                        => b \in kept
  BY <1>1 DEF deleteCanonicalRange
<1>4. UpdatedBlocks(rows, u) = kept \cup new
  BY <1>1 DEF UpdatedBlocks, insertCanonicalBundles, Range
<1>5. \A k \in 1..n : /\ u.blocks[k] \in Block
                      /\ Number[u.blocks[k]] = u.replaceFrom + k - 1
  BY <1>1, ReplacementNumbers DEF Acceptable, validatePostgresUpdate
<1>6. \A k \in 2..n : Parent[u.blocks[k]] = u.blocks[k-1]
  BY DEF Acceptable, validatePostgresUpdate, validateCanonicalBundles
<1>7. n > 0 /\ u.replaceFrom # u.retainFrom => Parent[u.blocks[1]] \in kept
  BY <1>1 DEF Acceptable, validateRetainedParent
<1>8. /\ \A c \in new : \E k \in 1..n : c = u.blocks[k]
      /\ \A k \in 1..n : u.blocks[k] \in new
  OBVIOUS
<1> HIDE DEF kept, new, n
<1>9. \A c \in new : c \in Block /\ u.replaceFrom <= Number[c]
  <2> SUFFICES ASSUME NEW c \in new
               PROVE  c \in Block /\ u.replaceFrom <= Number[c]
    OBVIOUS
  <2>1. PICK k \in 1..n : c = u.blocks[k]
    BY <1>8
  <2>2. /\ c \in Block
        /\ Number[c] = u.replaceFrom + k - 1
    BY <2>1, <1>5
  <2>3. k \in Nat /\ k >= 1
    BY <1>1
  <2> QED
    BY <2>2, <2>3, <1>1
<1>10. ASSUME NEW b \in kept \cup new, NEW c \in kept \cup new,
             Number[b] = Number[c]
      PROVE  b = c
  <2>1. CASE b \in kept /\ c \in kept
    BY <2>1, <1>2, <1>10 DEF OneChain
  <2>2. CASE b \in new /\ c \in new
    <3>1. PICK j \in 1..n, k \in 1..n : b = u.blocks[j] /\ c = u.blocks[k]
      BY <2>2, <1>8
    <3>2. j = k
      BY <3>1, <1>1, <1>5, <1>10, SMTT(30)
    <3> QED
      BY <3>1, <3>2
  <2>3. CASE b \in kept /\ c \in new
    BY <2>3, <1>1, <1>2, <1>9, <1>10
  <2>4. CASE b \in new /\ c \in kept
    BY <2>4, <1>1, <1>2, <1>9, <1>10
  <2> QED
    BY <2>1, <2>2, <2>3, <2>4
<1>11. ASSUME NEW b \in kept \cup new, NEW c \in kept \cup new,
             Number[b] < Number[c]
      PROVE  Parent[c] \in kept \cup new
  <2>1. CASE c \in kept
    <3>1. b \in kept
      BY <2>1, <1>1, <1>2, <1>9, <1>11
    <3>2. Parent[c] \in rows
      BY <2>1, <3>1, <1>2, <1>11 DEF OneChain
    <3>3. Number[c] = Number[Parent[c]] + 1
      BY <2>1, <3>2, <1>2
    <3> QED
      BY <2>1, <3>1, <3>2, <3>3, <1>1, <1>2, <1>3, <1>11
  <2>2. CASE c \in new
    <3>1. PICK k \in 1..n : c = u.blocks[k]
      BY <2>2, <1>8
    <3>2. CASE k > 1
      <4>1. k \in 2..n /\ k - 1 \in 1..n
        BY <3>1, <3>2, <1>1
      <4> QED
        BY <4>1, <3>1, <1>6, <1>8
    <3>3. CASE k = 1
      <4>1. b \in kept
        BY <3>1, <3>3, <1>1, <1>5, <1>9, <1>11
      <4> QED
        BY <4>1, <3>1, <3>3, <1>1, <1>2, <1>7
    <3> QED
      BY <3>1, <3>2, <3>3, <1>1
  <2> QED
    BY <2>1, <2>2
<1>12. kept \cup new \subseteq Block
  BY <1>2, <1>9
<1> QED
  BY <1>4, <1>10, <1>11, <1>12 DEF OneChain

\* In a table that is one chain, what lies at or below a stored block is an
\* ancestor of it.
LEMMA BelowInChain ==
    ASSUME NEW rows \in SUBSET Block, OneChain(rows),
           NEW b \in rows, NEW c \in rows, Number[b] <= Number[c]
    PROVE  b \in ChainOf[c]
<1> USE BlockTreeAssumption
<1>1. ASSUME NEW S \in SUBSET Block, c \in S, ParentClosed(S)
      PROVE  b \in S
  <2> DEFINE Reached == {d \in rows \cap S : Number[b] <= Number[d]}
             Heights == {Number[d] : d \in Reached}
  <2>1. Heights \in SUBSET Nat /\ Heights # {}
    BY <1>1
  <2>2. PICK n \in Heights : \A m \in Heights : n <= m
    BY <2>1, LeastNat
  <2>3. PICK d \in Reached : n = Number[d]
    BY <2>2
  <2>4. ASSUME Number[b] < Number[d] PROVE FALSE
    <3>1. Parent[d] \in rows /\ d \in Block
      BY <2>3, <2>4 DEF OneChain
    <3>2. Parent[d] \in S /\ Number[d] = Number[Parent[d]] + 1
      BY <3>1, <2>3, <1>1 DEF ParentClosed
    <3>3. /\ Number[d] \in Nat /\ Number[Parent[d]] \in Nat
          /\ Number[b] \in Nat
      BY <3>1
    <3>4. Parent[d] \in Reached
      BY <3>1, <3>2, <3>3, <2>4
    <3>5. n <= Number[Parent[d]]
      BY <3>4, <2>2
    <3> QED
      BY <3>2, <3>3, <3>5, <2>3
  <2>5. Number[b] = Number[d] /\ d \in rows /\ d \in S
    <3>1. Number[b] \in Nat /\ Number[d] \in Nat /\ Number[b] <= Number[d]
      BY <2>3
    <3> QED
      BY <3>1, <2>3, <2>4
  <2> QED
    BY <2>5 DEF OneChain
<1> QED
  BY <1>1 DEF ChainOf
-----------------------------------------------------------------------------
(* Chains *)

\* An ancestor's ancestor is an ancestor, and a chain is closed under parents.
LEMMA ChainTransitive ==
    ASSUME NEW h \in Block, NEW c \in ChainOf[h], NEW b \in ChainOf[c]
    PROVE  b \in ChainOf[h]
  BY DEF ChainOf

LEMMA ChainClosed ==
    ASSUME NEW h \in Block
    PROVE  /\ h \in ChainOf[h]
           /\ ChainOf[h] \in SUBSET Block
           /\ ParentClosed(ChainOf[h])
<1>1. h \in ChainOf[h] /\ ChainOf[h] \in SUBSET Block
  BY DEF ChainOf
<1>2. ASSUME NEW b \in ChainOf[h], Parent[b] # NoBlock
      PROVE  Parent[b] \in ChainOf[h]
  <2>1. Parent[b] \in Block
    BY <1>1, <1>2, BlockTreeAssumption
  <2> QED
    BY <2>1, <1>2 DEF ChainOf, ParentClosed
<1> QED
  BY <1>1, <1>2 DEF ParentClosed

\* Every block of a chain but its head has a child in it.
LEMMA ChainChild ==
    ASSUME NEW h \in Block, NEW b \in ChainOf[h], b # h
    PROVE  \E x \in ChainOf[h] : Parent[x] = b
<1> SUFFICES ASSUME \A x \in ChainOf[h] : Parent[x] # b
             PROVE  FALSE
  OBVIOUS
<1> DEFINE S == ChainOf[h] \ {b}
<1>1. S \in SUBSET Block /\ h \in S
  BY ChainClosed
<1>2. ParentClosed(S)
  BY ChainClosed DEF ParentClosed
<1>3. b \in S
  BY <1>1, <1>2 DEF ChainOf
<1> QED
  BY <1>3

\* Below its head a chain has lower numbers only.
LEMMA ChainLower ==
    ASSUME NEW h \in Block, NEW b \in ChainOf[h]
    PROVE  b = h \/ Number[b] < Number[h]
<1> DEFINE S == {x \in Block : x = h \/ Number[x] < Number[h]}
<1>1. S \in SUBSET Block /\ h \in S
  OBVIOUS
<1>2. ASSUME NEW x \in S, Parent[x] # NoBlock PROVE Parent[x] \in S
  <2>1. Parent[x] \in Block /\ Number[x] = Number[Parent[x]] + 1
    BY <1>2, BlockTreeAssumption
  <2>2. Number[x] \in Nat /\ Number[Parent[x]] \in Nat /\ Number[h] \in Nat
    BY <2>1, BlockTreeAssumption
  <2>3. Number[x] <= Number[h]
    BY <2>2
  <2> QED
    BY <2>1, <2>2, <2>3
<1>3. ParentClosed(S)
  BY <1>2 DEF ParentClosed
<1> HIDE DEF S
<1>4. b \in S
  BY <1>1, <1>3 DEF ChainOf
<1> QED
  BY <1>4 DEF S

\* A chain has at most one block per number: the highest pair of blocks that
\* share a number would have children that share one.
LEMMA ChainUnique ==
    ASSUME NEW h \in Block, NEW b \in ChainOf[h], NEW c \in ChainOf[h],
           Number[b] = Number[c]
    PROVE  b = c
<1> DEFINE Twins == {x \in ChainOf[h] : \E y \in ChainOf[h] :
                        x # y /\ Number[x] = Number[y]}
<1>1. ASSUME Twins # {} PROVE FALSE
  <2>1. Twins \in SUBSET Block
    BY ChainClosed
  <2>2. PICK x \in Twins : \A z \in Twins : Number[z] <= Number[x]
    BY <1>1, <2>1, HighestExists
  <2>3. PICK y \in ChainOf[h] : x # y /\ Number[x] = Number[y]
    BY <2>2
  <2>4. x \in ChainOf[h] /\ x \in Block /\ y \in Block
    BY <2>2, <2>3, ChainClosed
  <2>5. Number[x] \in Nat /\ Number[y] \in Nat /\ Number[h] \in Nat
    BY <2>4, BlockTreeAssumption
  <2>6. x # h /\ y # h
    BY <2>3, <2>4, <2>5, ChainLower
  <2>7. PICK v \in ChainOf[h] : Parent[v] = x
    BY <2>4, <2>6, ChainChild
  <2>8. PICK w \in ChainOf[h] : Parent[w] = y
    BY <2>3, <2>6, ChainChild
  <2>9. /\ v \in Block /\ w \in Block
        /\ Number[v] = Number[x] + 1 /\ Number[w] = Number[y] + 1
    BY <2>4, <2>7, <2>8, ChainClosed, BlockTreeAssumption
  <2>10. v # w
    BY <2>3, <2>7, <2>8
  <2>11. v \in Twins
    BY <2>3, <2>7, <2>8, <2>9, <2>10
  <2> QED
    BY <2>2, <2>5, <2>9, <2>11
<1> QED
  BY <1>1

\* A stored table lies on the chain of its tip.
LEMMA StoredInTipChain ==
    ASSUME NEW rows \in SUBSET Block, OneChain(rows), NEW b \in rows
    PROVE  /\ CanonicalTip(rows) \in Block
           /\ b \in ChainOf[CanonicalTip(rows)]
<1>1. /\ CanonicalTip(rows) \in rows
      /\ Number[b] <= Number[CanonicalTip(rows)]
  BY CanonicalTipHighest
<1> QED
  BY <1>1, BelowInChain

\* Between two stored blocks there is a stored block for every number.
LEMMA NoGap ==
    ASSUME NEW rows \in SUBSET Block, OneChain(rows),
           NEW lo \in rows, NEW hi \in rows, NEW n \in Nat,
           Number[lo] <= n, n <= Number[hi]
    PROVE  \E g \in rows : Number[g] = n
<1> USE BlockTreeAssumption
<1> DEFINE Above == {d \in rows : n <= Number[d]}
           Heights == {Number[d] : d \in Above}
<1>1. Heights \in SUBSET Nat /\ Heights # {}
  OBVIOUS
<1>2. PICK m \in Heights : \A k \in Heights : m <= k
  BY <1>1, LeastNat
<1>3. PICK d \in Above : m = Number[d]
  BY <1>2
<1>4. ASSUME n < Number[d] PROVE FALSE
  <2>1. Number[d] \in Nat /\ Number[lo] \in Nat /\ d \in Block
    BY <1>3
  <2>2. Parent[d] \in rows
    BY <2>1, <1>3, <1>4 DEF OneChain
  <2>3. Number[Parent[d]] \in Nat /\ Number[d] = Number[Parent[d]] + 1
    BY <2>1, <2>2
  <2>4. Parent[d] \in Above
    BY <2>1, <2>2, <2>3, <1>4
  <2>5. m <= Number[Parent[d]]
    BY <2>4, <1>2
  <2> QED
    BY <2>1, <2>3, <2>5, <1>3
<1>5. Number[d] = n
  <2>1. Number[d] \in Nat /\ n <= Number[d]
    BY <1>3
  <2> QED
    BY <2>1, <1>4
<1> QED
  BY <1>3, <1>5
=============================================================================

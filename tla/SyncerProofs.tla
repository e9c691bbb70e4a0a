---------------------------- MODULE SyncerProofs ----------------------------
(***************************************************************************)
(* Proofs about Syncer for every block tree, every set of indexers and     *)
(* every set of windows.                                                   *)
(***************************************************************************)
EXTENDS Syncer, IndexStoreProofs, FiniteSetTheorems

\* windowStart neither underflows nor retains more than the window.
LEMMA WindowStartBounds ==
    ASSUME NEW h \in 0..MaxUint64, NEW w \in 1..MaxUint64
    PROVE  windowStart(h, w) \in 0..h /\ h - windowStart(h, w) < w
  BY BlockTreeAssumption DEF windowStart

\* Filling the positions of a range of blocks, or none.
LEMMA EmptyPositions ==
    ASSUME NEW n \in Nat
    PROVE  /\ [k \in 1..n |-> NoBlock] \in Seq(Block \cup {NoBlock})
           /\ Len([k \in 1..n |-> NoBlock]) = n
  OBVIOUS

\* A call that returns leaves its own locals reset and those of the others
\* alone.
LEMMA ReturnOK ==
    ASSUME NEW i \in Indexer, NEW r \in {"none", "synced", "retryable", "permanent"},
           TypeOK, LocalsConsistent, Return(i, r),
           view' \in Block, blocks' \subseteq Block,
           syncState' \subseteq SyncStateRow,
           window' \in [Indexer -> Windows],
           \A j \in Indexer \ {i} : window'[j] = window[j]
    PROVE  TypeOK' /\ LocalsConsistent'
<1>1. TypeOK'
  <2>1. NoPlan \in Plan
    BY BlockTreeAssumption DEF NoPlan, Plan, Mode
  <2>2. << >> \in Seq(Block \cup {NoBlock})
    OBVIOUS
  <2>3. bundles' \in [Indexer -> Seq(Block \cup {NoBlock})]
    BY <2>2, Zenon DEF TypeOK, Return
  <2>4. plan' \in [Indexer -> Plan]
    BY <2>1, Zenon DEF TypeOK, Return
  <2>5. number' \in [Indexer -> 0..MaxUint64]
    BY BlockTreeAssumption DEF TypeOK, Return
  <2>6. /\ head' \in [Indexer -> Block \cup {NoBlock}]
        /\ storedTip' \in [Indexer -> Block \cup {NoBlock}]
        /\ storedHash' \in [Indexer -> Block \cup {NoBlock}]
    BY Zenon DEF TypeOK, Return
  <2>7. /\ pc' \in [Indexer -> {"idle", "head", "tip", "stored", "chain",
                                "fetch", "apply"}]
        /\ result' \in [Indexer -> {"none", "synced", "retryable",
                                    "permanent"}]
    BY Zenon DEF TypeOK, Return
  <2> QED
    BY <2>3, <2>4, <2>5, <2>6, <2>7, Zenon DEF TypeOK
<1>2. ASSUME NEW j \in Indexer PROVE LocalsOK(j)'
  <2>1. CASE j = i
    BY <2>1, Zenon DEF TypeOK, Return, LocalsOK
  <2>2. CASE j # i
    <3>1. LocalsOK(j)
      BY Zenon DEF LocalsConsistent
    <3> QED
      BY <2>2, <3>1, Zenon DEF TypeOK, Return, LocalsOK, RetainFrom, HeadNumber
  <2> QED
    BY <2>1, <2>2, Zenon
<1> QED
  BY <1>1, <1>2, Zenon DEF LocalsConsistent

\* The head of a running call is a block, and its window starts at or below.
LEMMA HeadOK ==
    ASSUME NEW i \in Indexer, TypeOK, LocalsConsistent,
           pc[i] \notin {"idle", "head"}
    PROVE  /\ head[i] \in Block
           /\ HeadNumber(i) \in 0..MaxUint64
           /\ RetainFrom(i) \in 0..HeadNumber(i)
           /\ HeadNumber(i) - RetainFrom(i) < window[i]
<1>1. head[i] \in Block
  BY Zenon DEF LocalsConsistent, LocalsOK
<1>2. HeadNumber(i) \in 0..MaxUint64
  BY <1>1, BlockTreeAssumption, Zenon DEF HeadNumber
<1>3. window[i] \in 1..MaxUint64
  BY SyncerAssumption, Zenon DEF TypeOK
<1> QED
  BY <1>1, <1>2, <1>3, WindowStartBounds, Zenon DEF RetainFrom

\* A plan that starts inside the window, or right above the head, leaves a
\* consistent call.
LEMMA ReplaceOK ==
    ASSUME NEW i \in Indexer, NEW from \in 0..MaxUint64, NEW mode \in Mode,
           TypeOK, LocalsConsistent, pc[i] \notin {"idle", "head"},
           from \in RetainFrom(i)..(HeadNumber(i) + 1),
           Replace(i, from, mode),
           storedTip' \in [Indexer -> Block \cup {NoBlock}],
           \A j \in Indexer \ {i} : storedTip'[j] = storedTip[j],
           UNCHANGED <<view, blocks, syncState, window, head, result>>
    PROVE  TypeOK' /\ LocalsConsistent'
<1> DEFINE n == HeadNumber(i) - from + 1
           empty == [k \in 1..n |-> NoBlock]
<1>1. /\ head[i] \in Block
      /\ HeadNumber(i) \in 0..MaxUint64
      /\ RetainFrom(i) \in 0..HeadNumber(i)
  BY HeadOK, Zenon
<1>2. n \in Nat
  BY <1>1
<1>3. empty \in Seq(Block \cup {NoBlock}) /\ Len(empty) = n
  BY <1>2, EmptyPositions, Zenon
<1>4. bundles' = [bundles EXCEPT ![i] = empty]
  BY Zenon DEF Replace
<1> HIDE DEF empty
<1>5. TypeOK'
  <2>1. bundles' \in [Indexer -> Seq(Block \cup {NoBlock})]
    BY <1>3, <1>4, Zenon DEF TypeOK
  <2>2. [from |-> from, mode |-> mode] \in Plan
    BY Zenon DEF Plan
  <2>3. plan' \in [Indexer -> Plan]
    BY <2>2, Zenon DEF TypeOK, Replace
  <2>4. number' \in [Indexer -> 0..MaxUint64]
    BY BlockTreeAssumption DEF TypeOK, Replace
  <2>5. storedHash' \in [Indexer -> Block \cup {NoBlock}]
    BY Zenon DEF TypeOK, Replace
  <2>6. pc' \in [Indexer -> {"idle", "head", "tip", "stored", "chain",
                            "fetch", "apply"}]
    BY Zenon DEF TypeOK, Replace
  <2> QED
    BY <2>1, <2>3, <2>4, <2>5, <2>6, Zenon DEF TypeOK
<1>6. ASSUME NEW j \in Indexer PROVE LocalsOK(j)'
  <2>1. CASE j = i
    <3>1. /\ bundles'[i] = empty /\ plan'[i].from = from
          /\ head'[i] = head[i] /\ HeadNumber(i)' = HeadNumber(i)
          /\ RetainFrom(i)' = RetainFrom(i)
      BY <1>4, Zenon DEF TypeOK, Replace, HeadNumber, RetainFrom
    <3>2. CASE from <= HeadNumber(i)
      <4>1. pc'[i] = "fetch"
        BY <3>2, Zenon DEF TypeOK, Replace
      <4> QED
        BY <2>1, <3>1, <4>1, <1>1, <1>3, Zenon DEF LocalsOK
    <3>3. CASE ~ (from <= HeadNumber(i))
      <4>1. pc'[i] = "apply"
        BY <3>3, Zenon DEF TypeOK, Replace
      <4>2. n = 0
        BY <3>3, <1>1
      <4>3. empty = << >>
        BY <4>2, <1>3
      <4> QED
        BY <2>1, <3>1, <4>1, <4>2, <4>3, <1>1, <1>3
           DEF LocalsOK, validateFetchedBundles
    <3> QED
      BY <3>2, <3>3, Zenon
  <2>2. CASE j # i
    <3>1. LocalsOK(j)
      BY Zenon DEF LocalsConsistent
    <3> QED
      BY <2>2, <3>1, Zenon DEF TypeOK, Replace, LocalsOK, RetainFrom, HeadNumber
  <2> QED
    BY <2>1, <2>2, Zenon
<1> QED
  BY <1>5, <1>6, Zenon DEF LocalsConsistent

\* An update that reaches the store is well formed, and its blocks lie
\* between ReplaceFrom and the selected head.
LEMMA UpdateOK ==
    ASSUME NEW i \in Indexer, TypeOK, LocalsConsistent, pc[i] = "apply"
    PROVE  /\ UpdateOf(i) \in Update
           /\ \A b \in Range(UpdateOf(i).blocks) :
                 /\ b \in Block
                 /\ Number[b] \in RetainFrom(i)..HeadNumber(i)
<1>1. /\ HeadNumber(i) \in 0..MaxUint64
      /\ RetainFrom(i) \in 0..HeadNumber(i)
  BY HeadOK, Zenon
<1>2. /\ bundles[i] \in Seq(Block)
      /\ Len(bundles[i]) = HeadNumber(i) - plan[i].from + 1
      /\ plan[i].from \in RetainFrom(i)..(HeadNumber(i) + 1)
      /\ validateFetchedBundles(bundles[i], plan[i].from)
  BY Zenon DEF LocalsConsistent, LocalsOK
<1>3. plan[i].from \in 0..MaxUint64
  BY Zenon DEF TypeOK, Plan
<1>4. UpdateOf(i) \in Update
  BY <1>1, <1>2, <1>3, SyncerAssumption, IndexStoreAssumption,
     BlockTreeAssumption DEF Update, UpdateOf
<1>5. ASSUME NEW b \in Range(bundles[i])
      PROVE  b \in Block /\ Number[b] \in RetainFrom(i)..HeadNumber(i)
  <2>1. PICK k \in 1..Len(bundles[i]) : b = bundles[i][k]
    BY <1>2 DEF Range
  <2>2. b \in Block /\ Number[b] = plan[i].from + k - 1
    BY <2>1, <1>2 DEF validateFetchedBundles
  <2> QED
    BY <2>2, <1>1, <1>2, <1>3
<1> QED
  BY <1>4, <1>5, Zenon DEF UpdateOf

\* One step of the system keeps the locals of every indexer consistent.
LEMMA LocalStep ==
    ASSUME TypeOK, LocalsConsistent, [Next]_vars
    PROVE  TypeOK' /\ LocalsConsistent'
<1>1. CASE moveHead
  BY <1>1, Zenon DEF moveHead, tables, locals, TypeOK, LocalsConsistent, LocalsOK,
     RetainFrom, HeadNumber
<1>2. ASSUME NEW i \in Indexer, Poll(i) PROVE TypeOK' /\ LocalsConsistent'
  <2>1. TypeOK'
    BY <1>2, Zenon DEF Poll, tables, locals, TypeOK
  <2>2. ASSUME NEW j \in Indexer PROVE LocalsOK(j)'
    BY <1>2, Zenon DEF Poll, tables, locals, TypeOK, LocalsConsistent, LocalsOK,
       RetainFrom, HeadNumber
  <2> QED
    BY <2>1, <2>2, Zenon DEF LocalsConsistent
<1>3. ASSUME NEW i \in Indexer, selectedHead(i)
      PROVE  TypeOK' /\ LocalsConsistent'
  <2>1. PICK h \in Selectable(view) : head' = [head EXCEPT ![i] = h]
    BY <1>3, Zenon DEF selectedHead
  <2>2. h \in Block
    BY <2>1, Zenon DEF Selectable, ChainOf, TypeOK
  <2>3. TypeOK'
    BY <1>3, <2>1, <2>2, Zenon DEF selectedHead, tables, TypeOK
  <2>4. ASSUME NEW j \in Indexer PROVE LocalsOK(j)'
    <3>1. CASE j = i
      BY <1>3, <2>1, <2>2, <3>1, Zenon DEF selectedHead, TypeOK, LocalsOK
    <3>2. CASE j # i
      <4>1. LocalsOK(j)
        BY Zenon DEF LocalsConsistent
      <4> QED
        BY <1>3, <2>1, <3>2, <4>1, Zenon DEF selectedHead, TypeOK, LocalsOK,
           RetainFrom, HeadNumber
    <3> QED
      BY <3>1, <3>2, Zenon
  <2> QED
    BY <2>3, <2>4, Zenon DEF LocalsConsistent
<1>4. ASSUME NEW i \in Indexer, readStoredTip(i)
      PROVE  TypeOK' /\ LocalsConsistent'
  <2> DEFINE tip == CanonicalTip(blocks)
  <2>1. /\ pc[i] = "tip"
        /\ UNCHANGED <<view, blocks, syncState, window>>
    BY <1>4, Zenon DEF readStoredTip, tables
  <2>2. /\ head[i] \in Block
        /\ HeadNumber(i) \in 0..MaxUint64
        /\ RetainFrom(i) \in 0..HeadNumber(i)
    BY <2>1, HeadOK, Zenon
  <2>3. tip \in Block \cup {NoBlock}
    BY CanonicalTipHighest, Zenon DEF TypeOK
  <2>4. \/ \E from \in 0..MaxUint64, mode \in Mode :
              /\ from \in RetainFrom(i)..(HeadNumber(i) + 1)
              /\ Replace(i, from, mode)
              /\ storedTip' = [storedTip EXCEPT ![i] = tip]
              /\ UNCHANGED <<head, result>>
        \/ Return(i, "retryable")
        \/ /\ tip \notin {NoBlock, head[i]}
           /\ Number[tip] \in RetainFrom(i)..HeadNumber(i)
           /\ storedTip' = [storedTip EXCEPT ![i] = tip]
           /\ number' = [number EXCEPT ![i] = Number[tip]]
           /\ pc' = [pc EXCEPT ![i] = "stored"]
           /\ UNCHANGED <<head, storedHash, plan, bundles, result>>
    BY <1>4, <2>2, BlockTreeAssumption DEF readStoredTip, AtHead, Mode
  <2>5. CASE \E from \in 0..MaxUint64, mode \in Mode :
              /\ from \in RetainFrom(i)..(HeadNumber(i) + 1)
              /\ Replace(i, from, mode)
              /\ storedTip' = [storedTip EXCEPT ![i] = tip]
              /\ UNCHANGED <<head, result>>
    <3>1. PICK from \in 0..MaxUint64, mode \in Mode :
              /\ from \in RetainFrom(i)..(HeadNumber(i) + 1)
              /\ Replace(i, from, mode)
              /\ storedTip' = [storedTip EXCEPT ![i] = tip]
              /\ UNCHANGED <<head, result>>
      BY <2>5, Zenon
    <3>2. /\ storedTip' \in [Indexer -> Block \cup {NoBlock}]
          /\ \A j \in Indexer \ {i} : storedTip'[j] = storedTip[j]
      BY <2>3, <3>1, Zenon DEF TypeOK
    <3> QED
      BY <2>1, <3>1, <3>2, ReplaceOK, Zenon
  <2>6. CASE Return(i, "retryable")
    BY <2>1, <2>6, ReturnOK, Zenon DEF TypeOK
  <2>7. CASE /\ tip \notin {NoBlock, head[i]}
             /\ Number[tip] \in RetainFrom(i)..HeadNumber(i)
             /\ storedTip' = [storedTip EXCEPT ![i] = tip]
             /\ number' = [number EXCEPT ![i] = Number[tip]]
             /\ pc' = [pc EXCEPT ![i] = "stored"]
             /\ UNCHANGED <<head, storedHash, plan, bundles, result>>
    <3>1. tip \in Block /\ Number[tip] \in 0..MaxUint64
      BY <2>3, <2>7, BlockTreeAssumption, Zenon
    <3>2. TypeOK'
      BY <2>1, <2>7, <3>1, Zenon DEF TypeOK
    <3>3. ASSUME NEW j \in Indexer PROVE LocalsOK(j)'
      <4>1. CASE j = i
        BY <2>1, <2>2, <2>7, <3>1, <4>1, Zenon
           DEF TypeOK, LocalsOK, RetainFrom, HeadNumber
      <4>2. CASE j # i
        <5>1. LocalsOK(j)
          BY Zenon DEF LocalsConsistent
        <5> QED
          BY <2>1, <2>7, <4>2, <5>1, Zenon
             DEF TypeOK, LocalsOK, RetainFrom, HeadNumber
      <4> QED
        BY <4>1, <4>2, Zenon
    <3> QED
      BY <3>2, <3>3, Zenon DEF LocalsConsistent
  <2> QED
    BY <2>4, <2>5, <2>6, <2>7, Zenon
<1>5. ASSUME NEW i \in Indexer, readStoredHash(i)
      PROVE  TypeOK' /\ LocalsConsistent'
  <2> DEFINE found == IF number[i] = Number[storedTip[i]] THEN {storedTip[i]}
                      ELSE CanonicalHash(blocks, number[i])
  <2>1. /\ pc[i] = "stored"
        /\ UNCHANGED <<view, blocks, syncState, window, head, storedTip,
                       result>>
    BY <1>5, Zenon DEF readStoredHash, tables
  <2>2. /\ head[i] \in Block
        /\ HeadNumber(i) \in 0..MaxUint64
        /\ RetainFrom(i) \in 0..HeadNumber(i)
    BY <2>1, HeadOK, Zenon
  <2>3. found \subseteq Block
    BY <2>1, Zenon DEF CanonicalHash, TypeOK, LocalsConsistent, LocalsOK
  <2>4. CASE /\ \E b \in found : storedHash' = [storedHash EXCEPT ![i] = b]
             /\ pc' = [pc EXCEPT ![i] = "chain"]
             /\ UNCHANGED <<number, plan, bundles>>
    <3>1. TypeOK'
      BY <2>1, <2>3, <2>4, Zenon DEF TypeOK
    <3>2. ASSUME NEW j \in Indexer PROVE LocalsOK(j)'
      <4>1. LocalsOK(j)
        BY Zenon DEF LocalsConsistent
      <4> QED
        BY <2>1, <2>4, <4>1, Zenon DEF TypeOK, LocalsOK, RetainFrom, HeadNumber
    <3> QED
      BY <3>1, <3>2, Zenon DEF LocalsConsistent
  <2>5. CASE Replace(i, RetainFrom(i), "reorg")
    <3>1. /\ RetainFrom(i) \in 0..MaxUint64 /\ "reorg" \in Mode
          /\ RetainFrom(i) \in RetainFrom(i)..(HeadNumber(i) + 1)
      BY <2>2, BlockTreeAssumption DEF Mode
    <3> QED
      BY <2>1, <2>5, <3>1, ReplaceOK, Zenon DEF TypeOK
  <2> QED
    BY <1>5, <2>4, <2>5, Zenon DEF readStoredHash
<1>6. ASSUME NEW i \in Indexer, readChainHash(i)
      PROVE  TypeOK' /\ LocalsConsistent'
  <2>1. /\ pc[i] = "chain"
        /\ UNCHANGED <<view, blocks, syncState, window>>
    BY <1>6, Zenon DEF readChainHash, tables
  <2>2. /\ head[i] \in Block
        /\ HeadNumber(i) \in 0..MaxUint64
        /\ RetainFrom(i) \in 0..HeadNumber(i)
        /\ number[i] \in RetainFrom(i)..HeadNumber(i)
    BY <2>1, HeadOK, Zenon DEF LocalsConsistent, LocalsOK
  <2>3. \/ \E from \in 0..MaxUint64, mode \in Mode :
              /\ from \in RetainFrom(i)..(HeadNumber(i) + 1)
              /\ Replace(i, from, mode)
              /\ UNCHANGED <<head, storedTip, result>>
        \/ Return(i, "retryable")
        \/ /\ number[i] # RetainFrom(i)
           /\ number' = [number EXCEPT ![i] = number[i] - 1]
           /\ storedHash' = [storedHash EXCEPT ![i] = NoBlock]
           /\ pc' = [pc EXCEPT ![i] = "stored"]
           /\ UNCHANGED <<head, storedTip, plan, bundles, result>>
    BY <1>6, <2>2, BlockTreeAssumption, SMTT(30) DEF readChainHash, Mode
  <2>4. CASE \E from \in 0..MaxUint64, mode \in Mode :
              /\ from \in RetainFrom(i)..(HeadNumber(i) + 1)
              /\ Replace(i, from, mode)
              /\ UNCHANGED <<head, storedTip, result>>
    BY <2>1, <2>4, ReplaceOK, Zenon DEF TypeOK
  <2>5. CASE Return(i, "retryable")
    BY <2>1, <2>5, ReturnOK, Zenon DEF TypeOK
  <2>6. CASE /\ number[i] # RetainFrom(i)
             /\ number' = [number EXCEPT ![i] = number[i] - 1]
             /\ storedHash' = [storedHash EXCEPT ![i] = NoBlock]
             /\ pc' = [pc EXCEPT ![i] = "stored"]
             /\ UNCHANGED <<head, storedTip, plan, bundles, result>>
    <3>1. /\ number[i] - 1 \in 0..MaxUint64
          /\ number[i] - 1 \in RetainFrom(i)..HeadNumber(i)
      BY <2>2, <2>6, BlockTreeAssumption
    <3>2. TypeOK'
      BY <2>1, <2>6, <3>1, Zenon DEF TypeOK
    <3>3. ASSUME NEW j \in Indexer PROVE LocalsOK(j)'
      <4>1. LocalsOK(j)
        BY Zenon DEF LocalsConsistent
      <4> QED
        BY <2>1, <2>6, <3>1, <4>1, Zenon
           DEF TypeOK, LocalsOK, RetainFrom, HeadNumber
    <3> QED
      BY <3>2, <3>3, Zenon DEF LocalsConsistent
  <2> QED
    BY <2>3, <2>4, <2>5, <2>6, Zenon
<1>7. ASSUME NEW i \in Indexer, NEW k \in DOMAIN bundles[i], fetchBlock(i, k)
      PROVE  TypeOK' /\ LocalsConsistent'
  <2>1. PICK b \in Block : bundles' = [bundles EXCEPT ![i][k] = b]
    BY <1>7, Zenon DEF fetchBlock, HeaderByNumber, ChainOf, TypeOK
  <2>2. /\ pc[i] = "fetch"
        /\ UNCHANGED <<view, blocks, syncState, pc, window, head, storedTip,
                       number, storedHash, plan, result>>
    BY <1>7, Zenon DEF fetchBlock, tables
  <2>3. bundles[i] \in Seq(Block \cup {NoBlock})
    BY Zenon DEF TypeOK
  <2>4. /\ [bundles[i] EXCEPT ![k] = b] \in Seq(Block \cup {NoBlock})
        /\ Len([bundles[i] EXCEPT ![k] = b]) = Len(bundles[i])
    BY <2>3
  <2>5. bundles' = [bundles EXCEPT ![i] = [bundles[i] EXCEPT ![k] = b]]
    BY <2>1, Zenon
  <2>6. TypeOK'
    BY <2>2, <2>4, <2>5, Zenon DEF TypeOK
  <2>7. ASSUME NEW j \in Indexer PROVE LocalsOK(j)'
    <3>1. LocalsOK(j)
      BY Zenon DEF LocalsConsistent
    <3> QED
      BY <2>2, <2>4, <2>5, <3>1, Zenon DEF TypeOK, LocalsOK, RetainFrom, HeadNumber
  <2> QED
    BY <2>6, <2>7, Zenon DEF LocalsConsistent
<1>8. ASSUME NEW i \in Indexer, blockNotFound(i)
      PROVE  TypeOK' /\ LocalsConsistent'
  BY <1>8, ReturnOK, Zenon DEF blockNotFound, tables, TypeOK
<1>9. ASSUME NEW i \in Indexer, fetchedRange(i)
      PROVE  TypeOK' /\ LocalsConsistent'
  <2>1. /\ pc[i] = "fetch"
        /\ \A k \in DOMAIN bundles[i] : bundles[i][k] # NoBlock
        /\ UNCHANGED <<view, blocks, syncState, window>>
    BY <1>9, Zenon DEF fetchedRange, tables
  <2>2. CASE Return(i, "retryable")
    BY <2>1, <2>2, ReturnOK, Zenon DEF TypeOK
  <2>3. CASE /\ validateFetchedBundles(bundles[i], plan[i].from)
             /\ bundles[i][Len(bundles[i])] = head[i]
             /\ pc' = [pc EXCEPT ![i] = "apply"]
             /\ UNCHANGED <<locals, result>>
    <3>1. bundles[i] \in Seq(Block)
      BY <2>1, SMTT(30) DEF TypeOK
    <3>2. TypeOK'
      BY <2>1, <2>3, Zenon DEF TypeOK, locals
    <3>3. ASSUME NEW j \in Indexer PROVE LocalsOK(j)'
      <4>1. LocalsOK(j)
        BY Zenon DEF LocalsConsistent
      <4> QED
        BY <2>1, <2>3, <3>1, <4>1, Zenon
           DEF TypeOK, LocalsOK, locals, RetainFrom, HeadNumber
    <3> QED
      BY <3>2, <3>3, Zenon DEF LocalsConsistent
  <2> QED
    BY <1>9, <2>2, <2>3, Zenon DEF fetchedRange
<1>10. ASSUME NEW i \in Indexer, commitUpdate(i)
       PROVE  TypeOK' /\ LocalsConsistent'
  <2>1. /\ pc[i] = "apply"
        /\ blocks' = UpdatedBlocks(blocks, UpdateOf(i))
        /\ syncState' = UpdatedSyncState(blocks, syncState, UpdateOf(i))
        /\ UNCHANGED <<view, window>>
    BY <1>10, Zenon DEF commitUpdate
  <2>2. PICK r \in {"synced", "retryable"} : Return(i, r)
    BY <1>10, Zenon DEF commitUpdate
  <2>3. blocks' \subseteq Block
    BY <2>1, UpdateOK, Zenon DEF TypeOK, UpdatedBlocks, insertCanonicalBundles,
       deleteCanonicalRange
  <2>4. syncState' \subseteq SyncStateRow
    <3>1. CanonicalTip(UpdatedBlocks(blocks, UpdateOf(i))) \in
            Block \cup {NoBlock}
      BY <2>1, <2>3, CanonicalTipHighest, Zenon
    <3>2. UpdateOf(i).chainID \in 0..MaxUint64
      BY <2>1, UpdateOK, Zenon DEF Update
    <3> QED
      BY <2>1, <3>1, <3>2, SMTT(30)
         DEF TypeOK, UpdatedSyncState, writeSyncState, SyncStateRow
  <2> QED
    BY <2>1, <2>2, <2>3, <2>4, ReturnOK, Zenon DEF TypeOK
<1>11. ASSUME NEW i \in Indexer, rejectUpdate(i)
       PROVE  TypeOK' /\ LocalsConsistent'
  BY <1>11, ReturnOK, Zenon DEF rejectUpdate, tables, TypeOK
<1>12. ASSUME NEW i \in Indexer, callFails(i)
       PROVE  TypeOK' /\ LocalsConsistent'
  BY <1>12, ReturnOK, Zenon DEF callFails, tables, TypeOK
<1>13. ASSUME NEW i \in Indexer, restart(i)
       PROVE  TypeOK' /\ LocalsConsistent'
  <2>1. /\ window' \in [Indexer -> Windows]
        /\ \A j \in Indexer \ {i} : window'[j] = window[j]
        /\ view' \in Block /\ blocks' \subseteq Block
        /\ syncState' \subseteq SyncStateRow
    BY <1>13 DEF restart, tables, TypeOK
  <2> QED
    BY <1>13, <2>1, ReturnOK, Zenon DEF restart
<1>14. CASE UNCHANGED vars
  BY <1>14, Zenon DEF vars, TypeOK, LocalsConsistent, LocalsOK, RetainFrom,
     HeadNumber
<1> QED
  BY <1>1, <1>2, <1>3, <1>4, <1>5, <1>6, <1>7, <1>8, <1>9, <1>10, <1>11,
     <1>12, <1>13, <1>14, Zenon DEF Next, Step

\* Only commitUpdate writes the tables.
LEMMA OnlyCommitWrites ==
    ASSUME [Next]_vars
    PROVE  \/ UNCHANGED tables
           \/ \E i \in Indexer : commitUpdate(i)
  BY ZenonT(30) DEF Next, Step, vars, tables, moveHead, Poll, selectedHead,
     readStoredTip, readStoredHash, readChainHash, fetchBlock, blockNotFound,
     fetchedRange, rejectUpdate, callFails, restart

-----------------------------------------------------------------------------
\* Every reachable state is well typed, and the locals of a SyncOnce call
\* mean what the code assumes of them at each point.
THEOREM TypeCorrect == Spec => [](TypeOK /\ LocalsConsistent)
<1>1. Init => TypeOK /\ LocalsConsistent
  <2> SUFFICES ASSUME Init PROVE TypeOK /\ LocalsConsistent
    OBVIOUS
  <2>1. NoPlan \in Plan
    BY BlockTreeAssumption DEF NoPlan, Plan, Mode
  <2>2. << >> \in Seq(Block \cup {NoBlock})
    OBVIOUS
  <2>3. TypeOK
    BY <2>1, <2>2, BlockTreeAssumption DEF Init, TypeOK
  <2>4. LocalsConsistent
    BY Zenon DEF Init, LocalsConsistent, LocalsOK
  <2> QED
    BY <2>3, <2>4, Zenon
<1>2. TypeOK /\ LocalsConsistent /\ [Next]_vars
        => TypeOK' /\ LocalsConsistent'
  BY LocalStep, Zenon
<1> QED
  BY <1>1, <1>2, PTL DEF Spec

\* The stored blocks always form one parent-linked chain without gaps, for
\* any number of indexers and any behaviour of the endpoint.
THEOREM StoreIsOneChain == Spec => []StoredOneChain
<1>1. Init => StoredOneChain
  BY Zenon DEF Init, StoredOneChain, OneChain
<1>2. ASSUME TypeOK, LocalsConsistent, StoredOneChain, [Next]_vars
      PROVE  StoredOneChain'
  <2>1. CASE UNCHANGED tables
    BY <1>2, <2>1, Zenon DEF tables, StoredOneChain, OneChain
  <2>2. ASSUME NEW i \in Indexer, commitUpdate(i) PROVE StoredOneChain'
    <3>1. UpdateOf(i) \in Update
      BY <1>2, <2>2, UpdateOK, Zenon DEF commitUpdate
    <3>2. OneChain(UpdatedBlocks(blocks, UpdateOf(i)))
      BY <1>2, <2>2, <3>1, UpdateKeepsOneChain, Zenon
         DEF commitUpdate, StoredOneChain, TypeOK
    <3> QED
      BY <2>2, <3>2, Zenon DEF commitUpdate, StoredOneChain
  <2> QED
    BY <1>2, <2>1, <2>2, OnlyCommitWrites, Zenon
<1> QED
  BY <1>1, <1>2, TypeCorrect, PTL DEF Spec

\* sync_state always names the highest stored block.
THEOREM SyncStateCorrect == Spec => []SyncStateNamesTip
<1>1. Init => SyncStateNamesTip
  BY Zenon DEF Init, SyncStateNamesTip
<1>2. ASSUME SyncStateNamesTip, [Next]_vars
      PROVE  SyncStateNamesTip'
  <2>1. CASE UNCHANGED tables
    BY <1>2, <2>1, Zenon DEF tables, SyncStateNamesTip
  <2>2. ASSUME NEW i \in Indexer, commitUpdate(i) PROVE SyncStateNamesTip'
    BY <1>2, <2>2 DEF commitUpdate, SyncStateNamesTip, UpdatedSyncState,
       writeSyncState, UpdateOf
  <2> QED
    BY <1>2, <2>1, <2>2, OnlyCommitWrites, Zenon
<1> QED
  BY <1>1, <1>2, PTL DEF Spec

\* What commitUpdate leaves in the store lies between the window's lower bound
\* and the selected head.
LEMMA CommittedNumbers ==
    ASSUME TypeOK, LocalsConsistent, NEW i \in Indexer, commitUpdate(i)
    PROVE  /\ HeadNumber(i) \in 0..MaxUint64
           /\ RetainFrom(i) \in 0..HeadNumber(i)
           /\ HeadNumber(i) - RetainFrom(i) < window[i]
           /\ window[i] \in Windows /\ window[i] \in Nat
           /\ \A b \in blocks' : Number[b] \in RetainFrom(i)..HeadNumber(i)
<1>1. pc[i] = "apply"
  BY Zenon DEF commitUpdate
<1>2. window[i] \in Windows /\ window[i] \in Nat
  <2>1. window[i] \in Windows
    BY Zenon DEF TypeOK
  <2>2. window[i] \in 1..MaxUint64
    BY <2>1, SyncerAssumption, Zenon
  <2> QED
    BY <2>1, <2>2, BlockTreeAssumption
<1>3. plan[i].from \in RetainFrom(i)..(HeadNumber(i) + 1)
  BY <1>1, Zenon DEF LocalsConsistent, LocalsOK
<1>4. /\ HeadNumber(i) \in 0..MaxUint64
      /\ RetainFrom(i) \in 0..HeadNumber(i)
      /\ HeadNumber(i) - RetainFrom(i) < window[i]
  BY <1>1, HeadOK, Zenon
<1>5. ASSUME NEW b \in blocks'
      PROVE  Number[b] \in RetainFrom(i)..HeadNumber(i)
  <2>1. CASE b \in Range(UpdateOf(i).blocks)
    BY <2>1, UpdateOK, Zenon DEF commitUpdate
  <2>2. CASE b \in deleteCanonicalRange(blocks, UpdateOf(i))
    BY <1>3, <1>4, <2>2, BlockTreeAssumption
       DEF deleteCanonicalRange, UpdateOf, TypeOK
  <2> QED
    BY <2>1, <2>2, Zenon DEF commitUpdate, UpdatedBlocks, insertCanonicalBundles
<1> QED
  BY <1>2, <1>4, <1>5, Zenon

\* The stored blocks never span more than the largest configured window.
THEOREM RetentionCorrect == Spec => []RetentionBounded
<1>1. Init => RetentionBounded
  BY Zenon DEF Init, RetentionBounded
<1>2. ASSUME TypeOK, LocalsConsistent, RetentionBounded, [Next]_vars
      PROVE  RetentionBounded'
  <2>1. CASE UNCHANGED tables
    BY <1>2, <2>1, Zenon DEF tables, RetentionBounded
  <2>2. ASSUME NEW i \in Indexer, commitUpdate(i) PROVE RetentionBounded'
    <3>1. /\ HeadNumber(i) \in 0..MaxUint64
          /\ RetainFrom(i) \in 0..HeadNumber(i)
          /\ HeadNumber(i) - RetainFrom(i) < window[i]
          /\ window[i] \in Windows /\ window[i] \in Nat
          /\ \A b \in blocks' : Number[b] \in RetainFrom(i)..HeadNumber(i)
      BY <1>2, <2>2, CommittedNumbers, Zenon
    <3>3. ASSUME NEW b \in blocks', NEW c \in blocks'
          PROVE  Number[c] - Number[b] < window[i]
      BY <3>1
    <3> QED
      BY <3>1, <3>3, Zenon DEF RetentionBounded
  <2> QED
    BY <1>2, <2>1, <2>2, OnlyCommitWrites, Zenon
<1> QED
  BY <1>1, <1>2, TypeCorrect, PTL DEF Spec

-----------------------------------------------------------------------------
(* What a cycle fetches and leaves *)

\* Blocks that validateFetchedBundles accepts are one chain.
LEMMA FetchedOneChain ==
    ASSUME NEW bs \in Seq(Block), NEW from \in Nat,
           validateFetchedBundles(bs, from)
    PROVE  /\ Range(bs) \in SUBSET Block
           /\ OneChain(Range(bs))
<1>1. Range(bs) \in SUBSET Block
  BY DEF Range
<1>2. ASSUME NEW j \in 1..Len(bs), NEW k \in 1..Len(bs)
      PROVE  /\ Number[bs[j]] = Number[bs[k]] => bs[j] = bs[k]
             /\ Number[bs[j]] < Number[bs[k]] => Parent[bs[k]] \in Range(bs)
  <2>1. /\ Number[bs[j]] = from + j - 1
        /\ Number[bs[k]] = from + k - 1
        /\ k > 1 => Parent[bs[k]] = bs[k-1]
    BY Zenon DEF validateFetchedBundles
  <2>2. Number[bs[j]] = Number[bs[k]] => j = k
    BY <2>1
  <2>3. Number[bs[j]] < Number[bs[k]] => k > 1 /\ k - 1 \in 1..Len(bs)
    BY <2>1
  <2>4. k - 1 \in 1..Len(bs) => bs[k-1] \in Range(bs)
    BY DEF Range
  <2> QED
    BY <2>1, <2>2, <2>3, <2>4, Zenon
<1> QED
  BY <1>1, <1>2 DEF OneChain, Range

\* What SyncOnce is about to write are ancestors of the head it selected.
LEMMA FetchedAreAncestors ==
    ASSUME TypeOK, LocalsConsistent, NEW i \in Indexer, pc[i] = "apply",
           bundles[i] # << >>
    PROVE  /\ head[i] \in Range(bundles[i])
           /\ Range(bundles[i]) \subseteq ChainOf[head[i]]
<1> DEFINE bs == bundles[i]
           n  == Len(bs)
<1>1. /\ bs \in Seq(Block) /\ validateFetchedBundles(bs, plan[i].from)
      /\ bs[n] = head[i]
  BY Zenon DEF LocalsConsistent, LocalsOK
<1>2. plan[i].from \in Nat /\ n \in Nat /\ n >= 1
  <2>1. plan[i].from \in Nat
    BY BlockTreeAssumption DEF TypeOK, Plan
  <2> QED
    BY <1>1, <2>1
<1> HIDE DEF bs, n
<1>3. Range(bs) \in SUBSET Block /\ OneChain(Range(bs))
  BY <1>1, <1>2, FetchedOneChain, Zenon
<1>4. head[i] \in Range(bs)
  BY <1>1, <1>2 DEF Range, n
<1>5. ASSUME NEW k \in 1..n PROVE Number[bs[k]] <= Number[head[i]]
  <2>1. Number[bs[k]] = plan[i].from + k - 1
    BY <1>1, Zenon DEF validateFetchedBundles, n
  <2>2. Number[head[i]] = plan[i].from + n - 1
    <3>1. n \in 1..n
      BY <1>2
    <3>2. Number[bs[n]] = plan[i].from + n - 1
      BY <1>1, <3>1, Zenon DEF validateFetchedBundles, n
    <3> QED
      BY <1>1, <3>2, Zenon
  <2> QED
    BY <2>1, <2>2, <1>2
<1>6. ASSUME NEW b \in Range(bs) PROVE b \in ChainOf[head[i]]
  <2>1. Number[b] <= Number[head[i]]
    BY <1>5, <1>1 DEF Range, n
  <2> QED
    BY <2>1, <1>3, <1>4, BelowInChain, Zenon
<1> QED
  BY <1>4, <1>6, Zenon DEF bs

\* The blocks of a range, each read at its own moment, are all ancestors of
\* the head selected at the start of the cycle when they are written.
THEOREM FetchedRangeCorrect == Spec => []FetchedFromHead
<1>1. ASSUME TypeOK, LocalsConsistent PROVE FetchedFromHead
  <2>1. ASSUME NEW i \in Indexer, pc[i] = "apply"
        PROVE  Range(bundles[i]) \subseteq ChainOf[head[i]]
    <3>1. CASE bundles[i] = << >>
      BY <3>1 DEF Range
    <3>2. CASE bundles[i] # << >>
      BY <1>1, <2>1, <3>2, FetchedAreAncestors, Zenon
    <3> QED
      BY <3>1, <3>2, Zenon
  <2> QED
    BY <2>1, Zenon DEF FetchedFromHead
<1> QED
  BY <1>1, TypeCorrect, PTL

\* Only a commit makes SyncOnce succeed.
LEMMA SyncedByCommit ==
    ASSUME TypeOK, Next, NEW i \in Indexer, Synced(i)
    PROVE  commitUpdate(i)
<1> USE DEF Synced, TypeOK
<1>1. ~ moveHead
  BY Zenon DEF moveHead
<1>2. PICK j \in Indexer : Step(j) \/ callFails(j) \/ restart(j)
  BY <1>1, Zenon DEF Next
<1>3. ~ callFails(j) /\ ~ restart(j)
  BY Zenon DEF callFails, restart, Return
<1>4. ~ Poll(j) /\ ~ selectedHead(j) /\ ~ blockNotFound(j) /\ ~ rejectUpdate(j)
  BY Zenon DEF Poll, selectedHead, blockNotFound, rejectUpdate, Return
<1>m. ASSUME j # i
      PROVE  /\ \A r : Return(j, r) => pc'[i] = pc[i]
             /\ \A f, m : Replace(j, f, m) => pc'[i] = pc[i]
             /\ pc' = [pc EXCEPT ![j] = "stored"] => pc'[i] = pc[i]
  BY <1>m, Zenon DEF Return, Replace
<1>5. ~ readStoredTip(j)
  <2>1. ASSUME readStoredTip(j) PROVE pc[j] = "tip" /\ j # i
    BY <2>1, Zenon DEF readStoredTip
  <2>2. ASSUME readStoredTip(j), j # i PROVE pc'[i] = pc[i]
    BY <1>m, <2>2, Zenon DEF readStoredTip
  <2> QED
    BY <2>1, <2>2, Zenon
<1>6. ~ readStoredHash(j)
  BY Zenon DEF readStoredHash, Replace
<1>7. ~ readChainHash(j)
  <2>1. ASSUME readChainHash(j) PROVE pc[j] = "chain" /\ j # i
    BY <2>1, Zenon DEF readChainHash
  <2>2. ASSUME readChainHash(j), j # i PROVE pc'[i] = pc[i]
    BY <1>m, <2>2, Zenon DEF readChainHash
  <2> QED
    BY <2>1, <2>2, Zenon
<1>8. ~ (\E k \in DOMAIN bundles[j] : fetchBlock(j, k)) /\ ~ fetchedRange(j)
  BY DEF fetchBlock, fetchedRange, Return
<1>9. commitUpdate(j)
  BY <1>2, <1>3, <1>4, <1>5, <1>6, <1>7, <1>8, Zenon DEF Step
<1>10. j = i
  BY <1>9, Zenon DEF commitUpdate, Return
<1> QED
  BY <1>9, <1>10, Zenon

\* A commit after which the selected head is stored leaves it as the tip, and
\* nothing but ancestors of it.
LEMMA CommittedTip ==
    ASSUME TypeOK, LocalsConsistent, StoredOneChain, NEW i \in Indexer,
           commitUpdate(i), head[i] \in blocks'
    PROVE  /\ blocks' \in SUBSET Block /\ OneChain(blocks')
           /\ CanonicalTip(blocks') = head[i]
           /\ blocks' \subseteq ChainOf[head[i]]
<1>1. blocks' \in SUBSET Block /\ OneChain(blocks')
  BY UpdateOK, UpdateKeepsOneChain, Zenon DEF commitUpdate, StoredOneChain, TypeOK
<1>2. ASSUME NEW b \in blocks' PROVE Number[b] <= Number[head[i]]
  <2>1. Number[b] \in RetainFrom(i)..HeadNumber(i)
    BY CommittedNumbers, Zenon
  <2>2. HeadNumber(i) \in 0..MaxUint64 /\ RetainFrom(i) \in 0..HeadNumber(i)
    BY CommittedNumbers, Zenon
  <2> QED
    BY <2>1, <2>2, BlockTreeAssumption DEF HeadNumber
<1>3. blocks' \subseteq ChainOf[head[i]]
  BY <1>1, <1>2, BelowInChain, Zenon
<1>4. CanonicalTip(blocks') = head[i]
  <2> DEFINE tip == CanonicalTip(blocks')
  <2>1. tip \in blocks' /\ Number[head[i]] <= Number[tip]
    BY <1>1, CanonicalTipHighest, Zenon
  <2>2. Number[tip] \in Nat /\ Number[head[i]] \in Nat
    BY <2>1, <1>1, BlockTreeAssumption
  <2>3. Number[tip] = Number[head[i]]
    BY <2>1, <2>2, <1>2
  <2> QED
    BY <2>1, <2>3, <1>1, Zenon DEF OneChain
<1> QED
  BY <1>1, <1>3, <1>4, Zenon

\* A cycle that wrote blocks leaves its head as the stored tip and nothing but
\* ancestors of it, whatever other indexers committed since it planned.
THEOREM SyncedTipCorrect == Spec => SyncedTip
<1> DEFINE Left(i) == /\ CanonicalTip(blocks') = head[i]
                      /\ blocks' \subseteq ChainOf[head[i]]
<1>1. ASSUME TypeOK, LocalsConsistent, StoredOneChain, [Next]_vars,
             NEW i \in Indexer, Synced(i), bundles[i] # << >>
      PROVE  Left(i)
  <2>1. commitUpdate(i)
    <3>1. ~ UNCHANGED vars
      BY <1>1, Zenon DEF Synced, vars
    <3> QED
      BY <1>1, <3>1, SyncedByCommit, Zenon
  <2>2. pc[i] = "apply" /\ head[i] \in Range(bundles[i])
    BY <1>1, <2>1, FetchedAreAncestors, Zenon DEF commitUpdate
  <2>3. head[i] \in blocks'
    BY <2>1, <2>2, Zenon
       DEF commitUpdate, UpdatedBlocks, insertCanonicalBundles, UpdateOf
  <2> QED
    BY <1>1, <2>1, <2>3, CommittedTip, Zenon
<1>2. ASSUME TypeOK, LocalsConsistent, StoredOneChain, [Next]_vars
      PROVE  [\A i \in Indexer : Synced(i) /\ bundles[i] # << >> => Left(i)]_vars
  BY <1>1, <1>2, Zenon
<1> QED
  BY <1>2, TypeCorrect, StoreIsOneChain, PTL DEF Spec, SyncedTip

-----------------------------------------------------------------------------
(* One indexer.  Nothing but its own commit changes the store, so what it   *)
(* read before planning still holds when it writes.                         *)

OneIndexer == \A i, j \in Indexer : i = j

OneWindow == \A v, w \in Windows : v = w

\* A plan for the stored tip t: unless it replaces the whole window it starts
\* at or right above t, a reorganisation starts at or below t, and nothing is
\* fetched only when t is the selected head already.
PlanFits(i, from, mode, t) ==
    /\ from # RetainFrom(i) \/ mode = "reorg" =>
          /\ t # NoBlock
          /\ Number[t] <= HeadNumber(i)
          /\ from <= Number[t] + 1
    /\ mode = "reorg" => from <= Number[t]
    /\ from > HeadNumber(i) => t = head[i]

\* What the tip and the plan of a SyncOnce call mean when there is no other
\* indexer.  It is inductive together with TypeOK and LocalsConsistent.
PlanFresh(i) ==
    /\ pc[i] \in {"stored", "chain", "fetch", "apply"} =>
          storedTip[i] = CanonicalTip(blocks)
    /\ pc[i] \in {"stored", "chain"} =>
          /\ number[i] <= Number[storedTip[i]]
          /\ Number[storedTip[i]] <= HeadNumber(i)
    /\ pc[i] = "chain" /\ number[i] = Number[storedTip[i]] =>
          storedHash[i] = storedTip[i]
    /\ pc[i] \in {"fetch", "apply"} =>
          PlanFits(i, plan[i].from, plan[i].mode, storedTip[i])

PlansFresh == \A i \in Indexer : PlanFresh(i)

\* A call that has returned has no plan.
LEMMA IdleFresh ==
    ASSUME TypeOK', NEW i \in Indexer, pc'[i] \in {"idle", "head", "tip"}
    PROVE  PlanFresh(i)'
  BY Zenon DEF PlanFresh

\* A plan that fits the tip just read is fresh.
LEMMA ReplaceFresh ==
    ASSUME TypeOK, NEW i \in Indexer, NEW from, NEW mode,
           Replace(i, from, mode), UNCHANGED <<blocks, window, head>>,
           storedTip'[i] = CanonicalTip(blocks),
           PlanFits(i, from, mode, CanonicalTip(blocks))
    PROVE  PlanFresh(i)'
<1>1. /\ pc'[i] \in {"fetch", "apply"}
      /\ plan'[i] = [from |-> from, mode |-> mode]
  BY Zenon DEF Replace, TypeOK
<1>2. /\ HeadNumber(i)' = HeadNumber(i) /\ RetainFrom(i)' = RetainFrom(i)
      /\ head'[i] = head[i]
      /\ plan'[i].from = from /\ plan'[i].mode = mode
      /\ storedTip'[i] = CanonicalTip(blocks)'
  <2>1. /\ HeadNumber(i)' = HeadNumber(i) /\ RetainFrom(i)' = RetainFrom(i)
        /\ head'[i] = head[i]
    BY Zenon DEF RetainFrom, HeadNumber
  <2>2. plan'[i].from = from /\ plan'[i].mode = mode
    BY <1>1, SMTT(30)
  <2>3. storedTip'[i] = CanonicalTip(blocks)'
    OBVIOUS
  <2> QED
    BY <2>1, <2>2, <2>3, Zenon
<1>3. PlanFits(i, plan[i].from, plan[i].mode, storedTip[i])'
  BY <1>2, Zenon DEF PlanFits
<1> QED
  BY <1>1, <1>2, <1>3, Zenon DEF PlanFresh

\* The reads and decisions of one indexer keep its plan fresh.
LEMMA FreshStep ==
    ASSUME OneIndexer, TypeOK, LocalsConsistent, PlansFresh, [Next]_vars
    PROVE  PlansFresh'
<1> SUFFICES ASSUME NEW i \in Indexer PROVE PlanFresh(i)'
  BY Zenon DEF PlansFresh
<1>0. PlanFresh(i) /\ LocalsOK(i) /\ TypeOK'
  BY LocalStep, Zenon DEF PlansFresh, LocalsConsistent
<1>1. CASE moveHead \/ UNCHANGED vars
  BY <1>0, <1>1, Zenon DEF moveHead, vars, tables, locals, PlanFresh, PlanFits,
     RetainFrom, HeadNumber
<1>2. CASE \/ Poll(i) \/ selectedHead(i) \/ blockNotFound(i)
           \/ commitUpdate(i) \/ rejectUpdate(i) \/ callFails(i) \/ restart(i)
  <2>1. pc'[i] \in {"idle", "head", "tip"}
    BY <1>2, Zenon DEF Poll, selectedHead, blockNotFound, commitUpdate,
       rejectUpdate, callFails, restart, Return, TypeOK
  <2> QED
    BY <2>1, <1>0, IdleFresh, Zenon
<1>3. CASE readStoredTip(i)
  <2> DEFINE tip == CanonicalTip(blocks)
  <2>1. /\ pc[i] = "tip"
        /\ UNCHANGED <<blocks, window>>
    BY <1>3, Zenon DEF readStoredTip, tables
  <2>2. /\ head[i] \in Block
        /\ HeadNumber(i) \in 0..MaxUint64
        /\ RetainFrom(i) \in 0..HeadNumber(i)
    BY <2>1, HeadOK, Zenon
  <2>3. tip \in Block \cup {NoBlock}
    BY CanonicalTipHighest, Zenon DEF TypeOK
  <2>4. \A t \in Block : Number[t] \in Nat
    BY BlockTreeAssumption
  <2>5. CASE /\ Replace(i, RetainFrom(i), "initial_load")
             /\ storedTip' = [storedTip EXCEPT ![i] = tip]
             /\ head' = head
    <3>1. PlanFits(i, RetainFrom(i), "initial_load", tip)
      BY <2>2, SMTT(30) DEF PlanFits
    <3> QED
      BY <2>1, <2>5, <3>1, ReplaceFresh, Zenon DEF TypeOK
  <2>6. CASE /\ Replace(i, RetainFrom(i), "full_reload")
             /\ storedTip' = [storedTip EXCEPT ![i] = tip]
             /\ head' = head
    <3>1. PlanFits(i, RetainFrom(i), "full_reload", tip)
      BY <2>2 DEF PlanFits
    <3> QED
      BY <2>1, <2>6, <3>1, ReplaceFresh, Zenon DEF TypeOK
  <2>7. CASE /\ tip = head[i]
             /\ Replace(i, HeadNumber(i) + 1, "current")
             /\ storedTip' = [storedTip EXCEPT ![i] = tip]
             /\ head' = head
    <3>1. PlanFits(i, HeadNumber(i) + 1, "current", tip)
      BY <2>2, <2>7, BlockTreeAssumption DEF PlanFits, HeadNumber
    <3> QED
      BY <2>1, <2>7, <3>1, ReplaceFresh, Zenon DEF TypeOK
  <2>8. CASE Return(i, "retryable")
    BY <2>8, <1>0, IdleFresh, Zenon DEF Return, TypeOK
  <2>9. CASE /\ tip # NoBlock
             /\ Number[tip] \in RetainFrom(i)..HeadNumber(i)
             /\ storedTip' = [storedTip EXCEPT ![i] = tip]
             /\ number' = [number EXCEPT ![i] = Number[tip]]
             /\ pc' = [pc EXCEPT ![i] = "stored"]
             /\ head' = head
    <3>1. /\ storedTip'[i] = tip /\ number'[i] = Number[tip]
          /\ pc'[i] = "stored" /\ CanonicalTip(blocks)' = tip
          /\ HeadNumber(i)' = HeadNumber(i)
      BY <2>1, <2>9, Zenon DEF TypeOK, HeadNumber
    <3>2. Number[tip] <= Number[tip] /\ Number[tip] <= HeadNumber(i)
      BY <2>2, <2>3, <2>4, <2>9, SMTT(30)
    <3> QED
      BY <3>1, <3>2, Zenon DEF PlanFresh
  <2> QED
    BY <1>3, <2>5, <2>6, <2>7, <2>8, <2>9, Zenon DEF readStoredTip, AtHead
<1>4. CASE readStoredHash(i)
  <2>1. /\ pc[i] = "stored"
        /\ UNCHANGED <<blocks, window, head, storedTip>>
    BY <1>4, Zenon DEF readStoredHash, tables
  <2>2. /\ RetainFrom(i) \in Nat /\ HeadNumber(i) \in Nat
        /\ number[i] \in RetainFrom(i)..HeadNumber(i)
        /\ storedTip[i] \in Block /\ storedTip[i] # NoBlock
        /\ Number[storedTip[i]] \in Nat
    <3>1. /\ HeadNumber(i) \in 0..MaxUint64
          /\ RetainFrom(i) \in 0..HeadNumber(i)
      BY <2>1, HeadOK, Zenon
    <3>2. /\ storedTip[i] \in Block
          /\ number[i] \in RetainFrom(i)..HeadNumber(i)
      BY <2>1, <1>0, Zenon DEF LocalsOK
    <3> QED
      BY <3>1, <3>2, BlockTreeAssumption
  <2>3. /\ storedTip[i] = CanonicalTip(blocks)
        /\ number[i] <= Number[storedTip[i]]
        /\ Number[storedTip[i]] <= HeadNumber(i)
    BY <2>1, <1>0, Zenon DEF PlanFresh
  <2>4. CASE /\ number[i] = Number[storedTip[i]]
             /\ storedHash' = [storedHash EXCEPT ![i] = storedTip[i]]
             /\ pc' = [pc EXCEPT ![i] = "chain"]
             /\ UNCHANGED number
    BY <2>1, <2>3, <2>4, Zenon DEF PlanFresh, HeadNumber, TypeOK
  <2>5. CASE /\ number[i] # Number[storedTip[i]]
             /\ pc' = [pc EXCEPT ![i] = "chain"]
             /\ UNCHANGED number
    BY <2>1, <2>3, <2>5, Zenon DEF PlanFresh, HeadNumber, TypeOK
  <2>6. CASE Replace(i, RetainFrom(i), "reorg")
    <3>1. PlanFits(i, RetainFrom(i), "reorg", CanonicalTip(blocks))
      BY <2>2, <2>3 DEF PlanFits
    <3> QED
      BY <2>1, <2>3, <2>6, <3>1, ReplaceFresh, Zenon
  <2> QED
    BY <1>4, <2>4, <2>5, <2>6, Zenon DEF readStoredHash
<1>5. CASE readChainHash(i)
  <2>1. /\ pc[i] = "chain"
        /\ UNCHANGED <<blocks, window>>
    BY <1>5, Zenon DEF readChainHash, tables
  <2>2. /\ RetainFrom(i) \in Nat /\ HeadNumber(i) \in Nat
        /\ number[i] \in RetainFrom(i)..HeadNumber(i)
        /\ storedTip[i] \in Block /\ storedTip[i] # NoBlock
        /\ Number[storedTip[i]] \in Nat
    <3>1. /\ HeadNumber(i) \in 0..MaxUint64
          /\ RetainFrom(i) \in 0..HeadNumber(i)
      BY <2>1, HeadOK, Zenon
    <3>2. /\ storedTip[i] \in Block
          /\ number[i] \in RetainFrom(i)..HeadNumber(i)
      BY <2>1, <1>0, Zenon DEF LocalsOK
    <3> QED
      BY <3>1, <3>2, BlockTreeAssumption
  <2>3. /\ storedTip[i] = CanonicalTip(blocks)
        /\ number[i] <= Number[storedTip[i]]
        /\ Number[storedTip[i]] <= HeadNumber(i)
        /\ number[i] = Number[storedTip[i]] => storedHash[i] = storedTip[i]
    BY <2>1, <1>0, Zenon DEF PlanFresh
  <2>4. PICK b : /\ number[i] = HeadNumber(i) => b = head[i]
                 /\ \/ /\ b = storedHash[i]
                       /\ \/ Return(i, "retryable")
                          \/ /\ Replace(i, number[i] + 1,
                                        IF number[i] = Number[storedTip[i]]
                                        THEN "append" ELSE "reorg")
                             /\ UNCHANGED <<head, storedTip>>
                    \/ /\ Replace(i, RetainFrom(i), "reorg")
                       /\ UNCHANGED <<head, storedTip>>
                    \/ /\ number' = [number EXCEPT ![i] = @ - 1]
                       /\ pc' = [pc EXCEPT ![i] = "stored"]
                       /\ UNCHANGED <<head, storedTip>>
    BY <1>5, Zenon DEF readChainHash
  <2>5. CASE Return(i, "retryable")
    BY <2>5, <1>0, IdleFresh, Zenon DEF Return, TypeOK
  <2>6. CASE /\ b = storedHash[i]
             /\ Replace(i, number[i] + 1,
                        IF number[i] = Number[storedTip[i]]
                        THEN "append" ELSE "reorg")
             /\ UNCHANGED <<head, storedTip>>
    <3> DEFINE mode == IF number[i] = Number[storedTip[i]]
                       THEN "append" ELSE "reorg"
    <3>1. number[i] + 1 <= Number[storedTip[i]] + 1
      BY <2>2, <2>3, SMTT(30)
    <3>2. mode = "reorg" => number[i] + 1 <= Number[storedTip[i]]
      BY <2>2, <2>3, SMTT(30)
    <3>3. number[i] + 1 > HeadNumber(i) => storedTip[i] = head[i]
      <4>1. number[i] + 1 > HeadNumber(i) =>
              number[i] = HeadNumber(i) /\ number[i] = Number[storedTip[i]]
        BY <2>2, <2>3
      <4> QED
        BY <4>1, <2>3, <2>4, <2>6, Zenon
    <3>4. PlanFits(i, number[i] + 1, mode, CanonicalTip(blocks))
      BY <3>1, <3>2, <3>3, <2>2, <2>3, Zenon DEF PlanFits
    <3> QED
      BY <2>1, <2>3, <2>6, <3>4, ReplaceFresh, Zenon
  <2>7. CASE /\ Replace(i, RetainFrom(i), "reorg")
             /\ UNCHANGED <<head, storedTip>>
    <3>1. PlanFits(i, RetainFrom(i), "reorg", CanonicalTip(blocks))
      BY <2>2, <2>3, SMTT(30) DEF PlanFits
    <3> QED
      BY <2>1, <2>3, <2>7, <3>1, ReplaceFresh, Zenon
  <2>8. CASE /\ number' = [number EXCEPT ![i] = @ - 1]
             /\ pc' = [pc EXCEPT ![i] = "stored"]
             /\ UNCHANGED <<head, storedTip>>
    <3>1. /\ number'[i] = number[i] - 1 /\ pc'[i] = "stored"
          /\ storedTip'[i] = storedTip[i] /\ HeadNumber(i)' = HeadNumber(i)
          /\ CanonicalTip(blocks)' = CanonicalTip(blocks)
      BY <2>1, <2>8, Zenon DEF TypeOK, HeadNumber
    <3>2. number[i] - 1 <= Number[storedTip[i]]
      BY <2>2, <2>3, SMTT(30)
    <3> QED
      BY <3>1, <3>2, <2>3, Zenon DEF PlanFresh
  <2> QED
    BY <2>4, <2>5, <2>6, <2>7, <2>8, Zenon
<1>6. CASE (\E k \in DOMAIN bundles[i] : fetchBlock(i, k)) \/ fetchedRange(i)
  <2>1. CASE pc'[i] = "idle"
    BY <2>1, <1>0, IdleFresh, Zenon
  <2>2. CASE pc'[i] # "idle"
    <3>1. /\ pc[i] = "fetch" /\ pc'[i] \in {"fetch", "apply"}
          /\ UNCHANGED <<blocks, window, head, storedTip, plan>>
      BY <1>6, <2>2, SMTT(30) DEF fetchBlock, fetchedRange, Return, tables, locals,
         TypeOK
    <3> QED
      BY <3>1, <1>0, Zenon DEF PlanFresh, PlanFits, RetainFrom, HeadNumber
  <2> QED
    BY <2>1, <2>2, Zenon
<1> QED
  BY <1>1, <1>2, <1>3, <1>4, <1>5, <1>6, Zenon DEF Next, Step, OneIndexer

\* After its commit a lone indexer has its selected head in the store, also
\* when there was nothing to fetch.
LEMMA HeadStored ==
    ASSUME TypeOK, LocalsConsistent, PlansFresh, NEW i \in Indexer,
           commitUpdate(i)
    PROVE  head[i] \in blocks'
<1>1. /\ pc[i] = "apply"
      /\ blocks' = deleteCanonicalRange(blocks, UpdateOf(i))
                     \cup Range(bundles[i])
  BY Zenon DEF commitUpdate, UpdatedBlocks, insertCanonicalBundles, UpdateOf
<1>2. CASE bundles[i] # << >>
  BY <1>1, <1>2, FetchedAreAncestors, Zenon
<1>3. CASE bundles[i] = << >>
  <2>1. /\ head[i] \in Block
        /\ HeadNumber(i) \in Nat
        /\ RetainFrom(i) \in 0..HeadNumber(i)
    BY <1>1, HeadOK, BlockTreeAssumption, SMTT(30)
  <2>2. /\ Len(bundles[i]) = HeadNumber(i) - plan[i].from + 1
        /\ plan[i].from \in RetainFrom(i)..(HeadNumber(i) + 1)
    BY <1>1, Zenon DEF LocalsConsistent, LocalsOK
  <2>3. plan[i].from = HeadNumber(i) + 1
    BY <1>3, <2>1, <2>2
  <2>4. plan[i].from > HeadNumber(i)
    BY <2>1, <2>3
  <2>5. head[i] = CanonicalTip(blocks)
    BY <1>1, <2>4, Zenon DEF PlansFresh, PlanFresh, PlanFits
  <2>6. head[i] \in blocks
    BY <2>1, <2>5, CanonicalTipHighest, BlockTreeAssumption, Zenon DEF TypeOK
  <2>7. ~ (Number[head[i]] >= plan[i].from \/ Number[head[i]] < RetainFrom(i))
    BY <2>1, <2>3 DEF HeadNumber
  <2> QED
    BY <1>1, <2>6, <2>7, Zenon DEF deleteCanonicalRange, UpdateOf
<1> QED
  BY <1>2, <1>3, Zenon

\* The plans of a lone indexer are fresh in every reachable state.
LEMMA FreshPlans ==
    ASSUME OneIndexer
    PROVE  Spec => []PlansFresh
<1>1. Init => PlansFresh
  BY Zenon DEF Init, PlansFresh, PlanFresh
<1>2. TypeOK /\ LocalsConsistent /\ PlansFresh /\ [Next]_vars => PlansFresh'
  BY FreshStep, Zenon
<1> QED
  BY <1>1, <1>2, TypeCorrect, PTL DEF Spec

\* With one indexer, whatever windows it is restarted with, a store that has
\* a block never becomes empty again.
THEOREM NeverEmptiedCorrect ==
    ASSUME OneIndexer
    PROVE  Spec => NeverEmptied
<1>1. ASSUME TypeOK, LocalsConsistent, PlansFresh, [Next]_vars, blocks # {}
      PROVE  blocks' # {}
  <2>1. CASE UNCHANGED tables
    BY <1>1, <2>1, Zenon DEF tables
  <2>2. ASSUME NEW i \in Indexer, commitUpdate(i) PROVE blocks' # {}
    BY <1>1, <2>2, HeadStored, Zenon
  <2> QED
    BY <1>1, <2>1, <2>2, OnlyCommitWrites, Zenon
<1>2. TypeOK /\ LocalsConsistent /\ PlansFresh /\ [Next]_vars
        => [blocks # {} => blocks' # {}]_vars
  BY <1>1, Zenon
<1> QED
  BY <1>2, TypeCorrect, FreshPlans, PTL DEF Spec, NeverEmptied

-----------------------------------------------------------------------------
(* One indexer and one window size *)

\* A higher head does not lower the start of its window.
LEMMA WindowStartMonotone ==
    ASSUME NEW g \in Nat, NEW h \in Nat, g <= h, NEW w \in Nat
    PROVE  windowStart(g, w) <= windowStart(h, w)
  BY DEF windowStart

\* The store reaches down to the start of the window of its tip.
WindowFull ==
    blocks # {} =>
        \A i \in Indexer : \E b \in blocks :
            Number[b] = windowStart(Number[CanonicalTip(blocks)], window[i])

\* A store that was full down to its window is so again after a commit: the
\* block at the new start is fetched, or it was stored and is kept.
LEMMA LowestStored ==
    ASSUME TypeOK, LocalsConsistent, StoredOneChain, PlansFresh, WindowFull,
           NEW i \in Indexer, commitUpdate(i)
    PROVE  \E b \in blocks' : Number[b] = RetainFrom(i)
<1>1. /\ pc[i] = "apply"
      /\ blocks' = deleteCanonicalRange(blocks, UpdateOf(i))
                     \cup Range(bundles[i])
  BY Zenon DEF commitUpdate, UpdatedBlocks, insertCanonicalBundles, UpdateOf
<1>2. /\ HeadNumber(i) \in Nat
      /\ RetainFrom(i) \in 0..HeadNumber(i)
      /\ window[i] \in Nat
  BY CommittedNumbers, BlockTreeAssumption
<1>3. /\ Len(bundles[i]) = HeadNumber(i) - plan[i].from + 1
      /\ plan[i].from \in RetainFrom(i)..(HeadNumber(i) + 1)
      /\ bundles[i] \in Seq(Block)
      /\ validateFetchedBundles(bundles[i], plan[i].from)
  BY <1>1, Zenon DEF LocalsConsistent, LocalsOK
<1>4. CASE plan[i].from = RetainFrom(i)
  <2>1. 1 \in 1..Len(bundles[i])
    BY <1>2, <1>3, <1>4, SMTT(30)
  <2>2. Number[bundles[i][1]] = plan[i].from + 1 - 1
    BY <2>1, <1>3, Zenon DEF validateFetchedBundles
  <2>3. bundles[i][1] \in blocks'
    BY <1>1, <1>3, <2>1, SMTT(30) DEF Range
  <2> QED
    BY <1>2, <1>4, <2>2, <2>3
<1>5. CASE plan[i].from # RetainFrom(i)
  <2> DEFINE tip == CanonicalTip(blocks)
  <2>1. /\ tip # NoBlock
        /\ Number[tip] <= HeadNumber(i)
        /\ plan[i].from <= Number[tip] + 1
    BY <1>1, <1>5, Zenon DEF PlansFresh, PlanFresh, PlanFits
  <2>2. blocks # {} /\ blocks \in SUBSET Block /\ tip \in blocks
    BY <2>1, CanonicalTipHighest, Zenon DEF TypeOK
  <2>3. Number[tip] \in Nat
    BY <2>2, BlockTreeAssumption
  <2>4. PICK lo \in blocks : Number[lo] = windowStart(Number[tip], window[i])
    BY <2>2, Zenon DEF WindowFull
  <2>5. Number[lo] <= RetainFrom(i)
    BY <2>1, <2>3, <2>4, <1>2, WindowStartMonotone, Zenon DEF RetainFrom
  <2>6. RetainFrom(i) \in Nat /\ RetainFrom(i) <= Number[tip]
    BY <1>2, <1>3, <1>5, <2>1, <2>3, SMTT(30)
  <2> HIDE DEF tip
  <2>7. PICK g \in blocks : Number[g] = RetainFrom(i)
    BY <2>2, <2>4, <2>5, <2>6, NoGap, Zenon DEF StoredOneChain
  <2>8. ~ (Number[g] >= plan[i].from \/ Number[g] < RetainFrom(i))
    BY <1>2, <1>3, <1>5, <2>7
  <2>9. g \in blocks'
    BY <1>1, <2>7, <2>8, Zenon DEF deleteCanonicalRange, UpdateOf
  <2> QED
    BY <2>7, <2>9, Zenon
<1> QED
  BY <1>4, <1>5, Zenon

\* The store of a lone indexer with one window size is full in every
\* reachable state.
LEMMA FullWindow ==
    ASSUME OneIndexer, OneWindow
    PROVE  Spec => []WindowFull
<1>1. Init => WindowFull
  BY Zenon DEF Init, WindowFull
<1>2. ASSUME TypeOK, LocalsConsistent, StoredOneChain, PlansFresh, WindowFull,
             [Next]_vars
      PROVE  WindowFull'
  <2>1. TypeOK'
    BY <1>2, LocalStep, Zenon
  <2>2. window' = window
    <3>1. \A i \in Indexer : window'[i] = window[i]
      BY <1>2, <2>1 DEF OneWindow, TypeOK
    <3> QED
      BY <1>2, <2>1, <3>1, SMTT(30) DEF TypeOK
  <2>3. CASE UNCHANGED tables
    BY <1>2, <2>2, <2>3, Zenon DEF tables, WindowFull
  <2>4. ASSUME NEW i \in Indexer, commitUpdate(i) PROVE WindowFull'
    <3>1. head[i] \in blocks'
      BY <1>2, <2>4, HeadStored, Zenon
    <3>2. CanonicalTip(blocks') = head[i]
      BY <1>2, <2>4, <3>1, CommittedTip, Zenon
    <3>3. \E b \in blocks' : Number[b] = RetainFrom(i)
      BY <1>2, <2>4, LowestStored, Zenon
    <3> QED
      BY <2>2, <3>2, <3>3, Zenon DEF WindowFull, OneIndexer, RetainFrom, HeadNumber
  <2> QED
    BY <1>2, <2>3, <2>4, OnlyCommitWrites, Zenon
<1> QED
  BY <1>1, <1>2, TypeCorrect, StoreIsOneChain, FreshPlans, PTL DEF Spec

\* With one indexer and one window size a successful SyncOnce leaves exactly
\* the retained window of the head it selected.
THEOREM SyncedWindowCorrect ==
    ASSUME OneIndexer, OneWindow
    PROVE  Spec => SyncedWindow
<1> DEFINE Retained(i) == {b \in ChainOf[head[i]] : Number[b] >= RetainFrom(i)}
<1>1. ASSUME TypeOK, LocalsConsistent, StoredOneChain, PlansFresh, WindowFull,
             [Next]_vars, NEW i \in Indexer, Synced(i)
      PROVE  blocks' = Retained(i)
  <2>1. commitUpdate(i)
    <3>1. ~ UNCHANGED vars
      BY <1>1, Zenon DEF Synced, vars
    <3> QED
      BY <1>1, <3>1, SyncedByCommit, Zenon
  <2>2. /\ head[i] \in blocks'
        /\ blocks' \in SUBSET Block /\ OneChain(blocks')
        /\ blocks' \subseteq ChainOf[head[i]]
    BY <1>1, <2>1, HeadStored, CommittedTip, Zenon
  <2>3. PICK lo \in blocks' : Number[lo] = RetainFrom(i)
    BY <1>1, <2>1, LowestStored, Zenon
  <2>4. /\ HeadNumber(i) \in Nat /\ RetainFrom(i) \in 0..HeadNumber(i)
        /\ \A b \in blocks' : Number[b] \in RetainFrom(i)..HeadNumber(i)
    BY <1>1, <2>1, CommittedNumbers, BlockTreeAssumption
  <2>5. ASSUME NEW b \in blocks' PROVE b \in Retained(i)
    BY <2>2, <2>4
  <2>6. ASSUME NEW b \in Retained(i) PROVE b \in blocks'
    <3>1. b \in ChainOf[head[i]] /\ head[i] \in Block /\ b \in Block
      BY <2>2, ChainClosed, Zenon
    <3>2. Number[b] \in Nat /\ Number[b] >= RetainFrom(i)
      BY <3>1, BlockTreeAssumption, SMTT(30)
    <3>3. Number[b] <= Number[head[i]]
      BY <3>1, <3>2, <2>4, ChainLower, SMTT(30) DEF HeadNumber
    <3>4. Number[lo] <= Number[b]
      BY <2>3, <2>4, <3>2, Zenon
    <3>5. PICK g \in blocks' : Number[g] = Number[b]
      BY <2>2, <3>2, <3>3, <3>4, NoGap, Zenon
    <3>6. g = b
      BY <2>2, <3>1, <3>5, ChainUnique, Zenon
    <3> QED
      BY <3>5, <3>6, Zenon
  <2> QED
    BY <2>5, <2>6, Zenon
<1>2. TypeOK /\ LocalsConsistent /\ StoredOneChain /\ PlansFresh /\ WindowFull
        /\ [Next]_vars
        => [\A i \in Indexer : Synced(i) => blocks' = Retained(i)]_vars
  BY <1>1, Zenon
<1> QED
  BY <1>2, TypeCorrect, StoreIsOneChain, FreshPlans, FullWindow, PTL
     DEF Spec, SyncedWindow

\* With one indexer and one window size the FromBlock that a successful
\* SyncOnce reports is the number of a stored block.
THEOREM FromBlockCorrect ==
    ASSUME OneIndexer, OneWindow
    PROVE  Spec => FromBlockIsLowest
<1>1. ASSUME TypeOK, LocalsConsistent, StoredOneChain, PlansFresh, WindowFull,
             [Next]_vars, NEW i \in Indexer, Synced(i)
      PROVE  \E b \in blocks' : Number[b] = RetainFrom(i)
  <2>1. ~ UNCHANGED vars
    BY <1>1, Zenon DEF Synced, vars
  <2> QED
    BY <1>1, <2>1, SyncedByCommit, LowestStored, Zenon
<1>2. TypeOK /\ LocalsConsistent /\ StoredOneChain /\ PlansFresh /\ WindowFull
        /\ [Next]_vars
        => [\A i \in Indexer : Synced(i) =>
              \E b \in blocks' : Number[b] = RetainFrom(i)]_vars
  BY <1>1, Zenon
<1> QED
  BY <1>2, TypeCorrect, StoreIsOneChain, FreshPlans, FullWindow, PTL
     DEF Spec, FromBlockIsLowest

\* A table that is one chain has one block for each number between two of
\* its blocks, so the numbers count the blocks.
LEMMA SpanCount ==
    ASSUME NEW rows \in SUBSET Block, OneChain(rows),
           NEW lo \in rows, NEW hi \in rows,
           \A c \in rows : Number[c] <= Number[hi],
           NEW n \in Nat, Number[lo] <= n, n <= Number[hi]
    PROVE  Cardinality({b \in rows : Number[b] >= n}) = Number[hi] - n + 1
<1> DEFINE T == {b \in rows : Number[b] >= n}
           N == n..Number[hi]
           f == [k \in N |-> CHOOSE b \in T : Number[b] = k]
<1>1. \A b \in rows : Number[b] \in Nat
  BY BlockTreeAssumption
<1>2. ASSUME NEW k \in N PROVE \E b \in T : Number[b] = k
  <2>1. k \in Nat /\ Number[lo] <= k /\ k <= Number[hi] /\ k >= n
    BY <1>1
  <2>2. PICK g \in rows : Number[g] = k
    BY <2>1, NoGap, Zenon
  <2> QED
    BY <2>1, <2>2, Zenon
<1>3. ASSUME NEW b \in T PROVE Number[b] \in N /\ f[Number[b]] = b
  <2>1. Number[b] \in N
    BY <1>1
  <2>2. \A c \in T : Number[c] = Number[b] => c = b
    BY Zenon DEF OneChain
  <2> QED
    BY <2>1, <2>2, Zenon
<1>4. \A k \in N : f[k] \in T /\ Number[f[k]] = k
  BY <1>2, Zenon
<1>5. f \in [N -> T]
  BY <1>4, Zenon
<1> HIDE DEF T, N, f
<1>6. ExistsBijection(N, T)
  BY <1>3, <1>4, <1>5
     DEF ExistsBijection, Bijection, Injection, Surjection, IsInjective
<1>7. IsFiniteSet(N) /\ Cardinality(N) = Number[hi] - n + 1
  BY <1>1, FS_Interval DEF N
<1>8. Cardinality(T) = Number[hi] - n + 1
  BY <1>6, <1>7, FS_Bijection, Zenon
<1> QED
  BY <1>8, Zenon DEF T

\* With one indexer and one window size ReplacedBlockCount is the number of
\* stored blocks that a reorganisation replaces.
THEOREM ReorgCountCorrect ==
    ASSUME OneIndexer, OneWindow
    PROVE  Spec => ReorgCountExact
<1> DEFINE Exact(i) ==
             Number[storedTip[i]] - plan[i].from + 1
               = Cardinality({b \in blocks : Number[b] >= plan[i].from})
<1>1. ASSUME TypeOK, LocalsConsistent, StoredOneChain, PlansFresh, WindowFull,
             NEW i \in Indexer, pc[i] = "apply", plan[i].mode = "reorg"
      PROVE  Exact(i)
  <2> DEFINE tip == CanonicalTip(blocks)
  <2>1. /\ storedTip[i] = tip /\ tip # NoBlock
        /\ Number[tip] <= HeadNumber(i)
        /\ plan[i].from <= Number[tip]
    BY <1>1, Zenon DEF PlansFresh, PlanFresh, PlanFits
  <2>2. /\ HeadNumber(i) \in Nat /\ RetainFrom(i) \in Nat
        /\ plan[i].from \in Nat /\ RetainFrom(i) <= plan[i].from
        /\ window[i] \in Nat
    <3>1. /\ HeadNumber(i) \in 0..MaxUint64
          /\ RetainFrom(i) \in 0..HeadNumber(i)
      BY <1>1, HeadOK, Zenon
    <3>2. plan[i].from \in RetainFrom(i)..(HeadNumber(i) + 1)
      BY <1>1, Zenon DEF LocalsConsistent, LocalsOK
    <3>3. window[i] \in 1..MaxUint64
      BY <1>1, SyncerAssumption, Zenon DEF TypeOK
    <3> QED
      BY <3>1, <3>2, <3>3
  <2>3. /\ blocks \in SUBSET Block /\ tip \in blocks
        /\ \A c \in blocks : Number[c] <= Number[tip]
    BY <1>1, <2>1, CanonicalTipHighest, Zenon DEF TypeOK
  <2>4. Number[tip] \in Nat
    BY <2>3, BlockTreeAssumption
  <2>5. PICK lo \in blocks : Number[lo] = windowStart(Number[tip], window[i])
    BY <1>1, <2>3, Zenon DEF WindowFull
  <2>6. Number[lo] <= RetainFrom(i)
    BY <2>1, <2>2, <2>4, <2>5, WindowStartMonotone, Zenon DEF RetainFrom
  <2>7. Number[lo] <= plan[i].from
    BY <2>2, <2>3, <2>6, BlockTreeAssumption
  <2> HIDE DEF tip
  <2>8. Cardinality({b \in blocks : Number[b] >= plan[i].from})
          = Number[tip] - plan[i].from + 1
    BY <1>1, <2>1, <2>2, <2>3, <2>5, <2>7, SpanCount, Zenon DEF StoredOneChain
  <2> QED
    BY <2>1, <2>8, Zenon
<1>2. TypeOK /\ LocalsConsistent /\ StoredOneChain /\ PlansFresh /\ WindowFull
        /\ [Next]_vars
        => [\A i \in Indexer : Synced(i) /\ plan[i].mode = "reorg" =>
              Exact(i)]_vars
  BY <1>1, Zenon DEF Synced
<1> QED
  BY <1>2, TypeCorrect, StoreIsOneChain, FreshPlans, FullWindow, PTL
     DEF Spec, ReorgCountExact
=============================================================================

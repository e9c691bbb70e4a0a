-------------------------- MODULE PostgresStoreProofs --------------------------
(***************************************************************************)
(* The statements of ApplyCanonicalUpdate, interleaved with those of other *)
(* writers, implement the atomic update of AtomicStore.  TxConsistent says *)
(* what a transaction knows at each statement; it is preserved because a   *)
(* commit needs the lock, so nobody else's commit can intervene.           *)
(***************************************************************************)
EXTENDS PostgresStore, IndexStoreProofs

\* The state a writer's transaction depends on, apart from the tables.
\* What TxOK says of a writer survives the steps of others that commit
\* nothing and do not take its lock away.
LEMMA TxFrame ==
    ASSUME NEW w \in Writer, TxOK(w),
           blocks' = blocks, syncState' = syncState,
           update'[w] = update[w], outcome'[w] = outcome[w],
           pc'[w] = pc[w], deleted'[w] = deleted[w],
           inserted'[w] = inserted[w], tip'[w] = tip[w],
           holder = w => holder' = w
    PROVE  TxOK(w)'
  BY Zenon DEF TxOK, Visible

\* The delete statement leaves what deleteCanonicalRange leaves.
LEMMA DeletedRange ==
    ASSUME NEW rows, NEW u
    PROVE  rows \ (rows \ deleteCanonicalRange(rows, u))
             = deleteCanonicalRange(rows, u)
  BY Zenon DEF deleteCanonicalRange

\* Ranges of sequences by position.
LEMMA RangeOfSeq ==
    ASSUME NEW S, NEW s \in Seq(S)
    PROVE  Range(s) = {s[k] : k \in 1..Len(s)}
  BY DEF Range

\* At the commit the transaction sees exactly the updated table.
LEMMA CommitSeesUpdate ==
    ASSUME TypeOK, NEW w \in Writer, TxOK(w), pc[w] = "commit"
    PROVE  /\ Visible(w) = UpdatedBlocks(blocks, update[w])
           /\ Acceptable(blocks, syncState, update[w])
           /\ writeSyncState(syncState, update[w], tip[w])
                = UpdatedSyncState(blocks, syncState, update[w])
  <1> DEFINE u == update[w]
  <1>1. u \in Update /\ u.blocks \in Seq(Block)
    BY PostgresStoreAssumption DEF TypeOK, Update
  <1>2. blocks \ deleted[w] = deleteCanonicalRange(blocks, u)
    BY DeletedRange, Zenon DEF TxOK
  <1>3. Range(u.blocks) = {u.blocks[k] : k \in 1..inserted[w]}
    <2>1. Range(u.blocks) = {u.blocks[k] : k \in 1..Len(u.blocks)}
      BY <1>1, RangeOfSeq, Zenon
    <2> QED BY <2>1, Zenon DEF TxOK
  <1>4. Visible(w) = UpdatedBlocks(blocks, u)
    BY <1>2, <1>3, Zenon DEF Visible, UpdatedBlocks, insertCanonicalBundles
  <1>5. Acceptable(blocks, syncState, u)
    BY Zenon DEF TxOK, Acceptable
  <1>6. tip[w] = CanonicalTip(UpdatedBlocks(blocks, u))
    BY <1>4, Zenon DEF TxOK
  <1> QED BY <1>4, <1>5, <1>6, Zenon DEF UpdatedSyncState

Inv == TypeOK /\ TxConsistent

\* The rows a transaction sees are blocks.
LEMMA VisibleBlocks ==
    ASSUME TypeOK, NEW w \in Writer, inserted[w] <= Len(update[w].blocks)
    PROVE  /\ Visible(w) \subseteq Block
           /\ CanonicalTip(Visible(w)) \in Block \cup {NoBlock}
  <1>1. update[w].blocks \in Seq(Block)
    BY PostgresStoreAssumption DEF TypeOK, Update
  <1>2. inserted[w] \in Nat /\ blocks \subseteq Block
    BY Zenon DEF TypeOK
  <1>3. \A k \in 1..inserted[w] : update[w].blocks[k] \in Block
    BY <1>1, <1>2
  <1>4. Visible(w) \subseteq Block
    BY <1>2, <1>3, Zenon DEF Visible
  <1> QED BY <1>4, CanonicalTipHighest, Zenon DEF CanonicalTip

\* A call that returns without committing keeps the invariant.
LEMMA ReturnKeeps ==
    ASSUME Inv, NEW w \in Writer,
           NEW o \in {"applied", "rejected", "failed"}, Return(w, o),
           UNCHANGED <<blocks, syncState>>
    PROVE  Inv'
  <1>1. TypeOK'
    BY Zenon DEF Inv, TypeOK, Return
  <1>2. ASSUME NEW v \in Writer PROVE TxOK(v)'
    <2>1. CASE v = w
      BY <2>1, Zenon DEF Inv, TypeOK, Return, TxOK
    <2>2. CASE v # w
      <3>1. TxOK(v)
        BY Zenon DEF Inv, TxConsistent
      <3>2. holder = v => holder' = v
        BY <2>2, Zenon DEF Return
      <3> QED BY <2>2, <3>1, <3>2, TxFrame, Zenon DEF Inv, TypeOK, Return
    <2> QED BY <2>1, <2>2, Zenon
  <1> QED BY <1>1, <1>2, Zenon DEF Inv, TxConsistent

\* A statement of w that changes only w's transaction keeps what the others
\* know, so that the invariant is left to show for w alone.
LEMMA StatementKeeps ==
    ASSUME Inv, NEW w \in Writer, TypeOK', TxOK(w)',
           UNCHANGED <<blocks, syncState>>,
           holder' \in {holder, w}, holder \in {w, NoWriter} \/ holder' = holder,
           \A v \in Writer \ {w} :
               /\ update'[v] = update[v] /\ outcome'[v] = outcome[v]
               /\ pc'[v] = pc[v] /\ deleted'[v] = deleted[v]
               /\ inserted'[v] = inserted[v] /\ tip'[v] = tip[v]
    PROVE  Inv'
  <1>1. ASSUME NEW v \in Writer, v # w PROVE TxOK(v)'
    <2>1. TxOK(v)
      BY Zenon DEF Inv, TxConsistent
    <2>2. holder = v => holder' = v
      BY <1>1, PostgresStoreAssumption, Zenon
    <2> QED BY <1>1, <2>1, <2>2, TxFrame, Zenon
  <1> QED BY <1>1, Zenon DEF Inv, TxConsistent

\* Every step keeps the invariant; only the commit changes the tables, and
\* then no other writer is past the lock.
LEMMA InvStep == Inv /\ [Next]_vars => Inv'
  <1> SUFFICES ASSUME Inv, [Next]_vars PROVE Inv'
    OBVIOUS
  <1> USE PostgresStoreAssumption
  <1>0. CASE UNCHANGED vars
    <2>1. TypeOK'
      BY <1>0, Zenon DEF vars, Inv, TypeOK
    <2>2. ASSUME NEW v \in Writer PROVE TxOK(v)'
      BY <1>0, TxFrame, Zenon DEF vars, Inv, TxConsistent
    <2> QED BY <2>1, <2>2, Zenon DEF Inv, TxConsistent
  <1> SUFFICES ASSUME NEW w \in Writer, call(w) \/ TxStep(w) \/ fail(w)
               PROVE  Inv'
    BY <1>0, Zenon DEF Next
  <1>t. TypeOK /\ TxOK(w)
    BY Zenon DEF Inv, TxConsistent
  <1>1. CASE call(w)
    <2>1. PICK u \in Updates : update' = [update EXCEPT ![w] = u]
      BY <1>1, Zenon DEF call
    <2>2. TypeOK'
      BY <1>1, <1>t, <2>1, Zenon DEF call, TypeOK
    <2>3. TxOK(w)'
      BY <1>1, <1>t, <2>1, Zenon DEF call, TypeOK, TxOK
    <2> QED BY <1>1, <1>t, <2>1, <2>2, <2>3, StatementKeeps, Zenon DEF call, TypeOK
  <1>2. CASE begin(w)
    <2>1. CASE Return(w, "rejected") /\ UNCHANGED <<blocks, syncState>>
      BY <2>1, ReturnKeeps, Zenon
    <2>2. CASE /\ validatePostgresUpdate(update[w]) /\ Goto(w, "lock")
               /\ UNCHANGED <<holder, deleted, inserted, tip>>
      <3>1. TypeOK'
        BY <1>t, <2>2, Zenon DEF TypeOK, Goto, storeVars
      <3>2. TxOK(w)'
        BY <1>2, <1>t, <2>2, Zenon DEF begin, TypeOK, TxOK, Goto, storeVars
      <3> QED BY <1>t, <2>2, <3>1, <3>2, StatementKeeps, Zenon
              DEF TypeOK, Goto, storeVars
    <2> QED BY <1>2, <2>1, <2>2, Zenon DEF begin
  <1>3. CASE lock(w)
    <2>1. TypeOK'
      BY <1>3, <1>t, Zenon DEF lock, TypeOK, Goto, storeVars
    <2>2. TxOK(w)'
      BY <1>3, <1>t, Zenon DEF lock, TypeOK, TxOK, Goto, storeVars
    <2> QED BY <1>3, <1>t, <2>1, <2>2, StatementKeeps, Zenon
            DEF lock, TypeOK, Goto, storeVars
  <1>4. CASE checkChain(w)
    <2>1. CASE Return(w, "rejected") /\ UNCHANGED <<blocks, syncState>>
      BY <2>1, ReturnKeeps, Zenon
    <2>2. CASE /\ ~ rejectDifferentChain(syncState, update[w])
               /\ Goto(w, "delete")
               /\ UNCHANGED <<holder, deleted, inserted, tip>>
      <3>1. TypeOK'
        BY <1>t, <2>2, Zenon DEF TypeOK, Goto, storeVars
      <3>2. TxOK(w)'
        BY <1>4, <1>t, <2>2, Zenon DEF checkChain, TypeOK, TxOK, Goto, storeVars
      <3> QED BY <1>t, <2>2, <3>1, <3>2, StatementKeeps, Zenon
              DEF TypeOK, Goto, storeVars
    <2> QED BY <1>4, <2>1, <2>2, Zenon DEF checkChain
  <1>5. CASE deleteRange(w)
    <2>1. Visible(w) = blocks
      BY <1>5, <1>t, SMTT(30) DEF deleteRange, Visible, TxOK
    <2>2. deleted' = [deleted EXCEPT
              ![w] = blocks \ deleteCanonicalRange(blocks, update[w])]
      BY <1>5, <2>1, Zenon DEF deleteRange
    <2>3. TypeOK'
      BY <1>5, <1>t, <2>2 DEF deleteRange, TypeOK, Goto, storeVars
    <2>4. TxOK(w)'
      BY <1>5, <1>t, <2>2, Zenon DEF deleteRange, TypeOK, TxOK, Goto, storeVars
    <2> QED BY <1>5, <1>t, <2>2, <2>3, <2>4, StatementKeeps, Zenon
            DEF deleteRange, TypeOK, Goto, storeVars
  <1>6. CASE checkParent(w)
    <2>1. CASE Return(w, "rejected") /\ UNCHANGED <<blocks, syncState>>
      BY <2>1, ReturnKeeps, Zenon
    <2>2. CASE /\ validateRetainedParent(Visible(w), update[w])
               /\ Goto(w, "insert")
               /\ UNCHANGED <<holder, deleted, inserted, tip>>
      <3>1. Visible(w) = deleteCanonicalRange(blocks, update[w])
        BY <1>6, <1>t, DeletedRange, SMTT(30) DEF checkParent, Visible, TxOK
      <3>2. TypeOK'
        BY <1>t, <2>2, Zenon DEF TypeOK, Goto, storeVars
      <3>3. update[w].blocks \in Seq(Block)
        BY <1>t DEF TypeOK, Update
      <3>4. TxOK(w)'
        BY <1>6, <1>t, <2>2, <3>1, <3>3
        DEF checkParent, TypeOK, TxOK, Goto, storeVars
      <3> QED BY <1>t, <2>2, <3>2, <3>4, StatementKeeps, Zenon
              DEF TypeOK, Goto, storeVars
    <2> QED BY <1>6, <2>1, <2>2, Zenon DEF checkParent
  <1>7. CASE insertBatch(w)
    <2>1. update[w].blocks \in Seq(Block)
      BY <1>t DEF TypeOK, Update
    <2>2. TypeOK'
      BY <1>7, <1>t DEF insertBatch, TypeOK, storeVars
    <2>3. TxOK(w)'
      BY <1>7, <1>t, <2>1 DEF insertBatch, TypeOK, TxOK, storeVars
    <2> QED BY <1>7, <1>t, <2>2, <2>3, StatementKeeps, Zenon
            DEF insertBatch, TypeOK, storeVars
  <1>8. CASE readTip(w)
    <2>1. update[w].blocks \in Seq(Block)
      BY <1>t DEF TypeOK, Update
    <2>2. CanonicalTip(Visible(w)) \in Block \cup {NoBlock}
      BY <1>8, <1>t, <2>1, VisibleBlocks, SMTT(30) DEF readTip
    <2>3. TypeOK'
      BY <1>8, <1>t, <2>2, Zenon DEF readTip, TypeOK, Goto, storeVars
    <2>4. Visible(w)' = Visible(w)
      BY <1>8, Zenon DEF readTip, Goto, storeVars, Visible
    <2>5. TxOK(w)'
      BY <1>8, <1>t, <2>4, Zenon DEF readTip, TypeOK, TxOK, Goto, storeVars
    <2> QED BY <1>8, <1>t, <2>3, <2>5, StatementKeeps, Zenon
            DEF readTip, TypeOK, Goto, storeVars
  <1>9. CASE commit(w)
    <2>1. PICK o \in {"applied", "failed"} : Return(w, o)
      BY <1>9, Zenon DEF commit
    <2>2. update[w] \in Update /\ inserted[w] = Len(update[w].blocks)
      BY <1>9, <1>t, Zenon DEF commit, TypeOK, TxOK
    <2>3. Visible(w) \subseteq Block
      <3>1. update[w].blocks \in Seq(Block)
        BY <2>2, Zenon DEF Update
      <3> QED BY <1>t, <2>2, <3>1, VisibleBlocks
    <2>4. syncState' \subseteq SyncStateRow
      <3>1. [chainID |-> update[w].chainID, tip |-> tip[w]] \in SyncStateRow
        BY <1>t, <2>2, Zenon DEF TypeOK, Update, SyncStateRow
      <3> QED BY <1>9, <1>t, <3>1, Zenon DEF commit, writeSyncState, TypeOK
    <2>5. TypeOK'
      BY <1>9, <1>t, <2>1, <2>3, <2>4, Zenon DEF commit, Return, TypeOK
    <2>6. TxOK(w)'
      BY <1>9, <1>t, <2>1, Zenon DEF commit, Return, TypeOK, TxOK
    <2>7. ASSUME NEW v \in Writer, v # w PROVE TxOK(v)'
      <3>1. TxOK(v) /\ holder = w
        BY <1>9, <1>t, Zenon DEF commit, TxOK, Inv, TxConsistent
      <3>2. pc[v] \in {"idle", "begin", "lock"}
        BY <2>7, <3>1, Zenon DEF TxOK
      <3>3. /\ update'[v] = update[v] /\ outcome'[v] = outcome[v]
            /\ pc'[v] = pc[v] /\ deleted'[v] = deleted[v]
            /\ inserted'[v] = inserted[v]
        BY <1>t, <2>1, <2>7, Zenon DEF Return, TypeOK
      <3> QED BY <3>1, <3>2, <3>3, Zenon DEF TxOK
    <2> QED BY <2>5, <2>6, <2>7, Zenon DEF Inv, TxConsistent
  <1>10. CASE fail(w)
    BY <1>10, ReturnKeeps, Zenon DEF fail
  <1> QED BY <1>1, <1>2, <1>3, <1>4, <1>5, <1>6, <1>7, <1>8, <1>9, <1>10, Zenon
          DEF TxStep

LEMMA InvInit == Init => Inv
  BY PostgresStoreAssumption
  DEF Init, Inv, TypeOK, TxConsistent, TxOK

\* What each statement of ApplyCanonicalUpdate relies on, the lock and the
\* results of the statements before it, holds when it runs, for any number of
\* writers and any updates.
THEOREM TransactionsConsistent == Spec => [](TypeOK /\ TxConsistent)
  <1>1. Init => Inv
    BY InvInit, Zenon
  <1>2. Inv /\ [Next]_vars => Inv'
    BY InvStep, Zenon
  <1> QED BY <1>1, <1>2, PTL DEF Spec, Inv

\* The operators of IndexStore mean the same inside the instance.
LEMMA SameAcceptable ==
    ASSUME NEW rows, NEW states, NEW u
    PROVE  Store!Acceptable(rows, states, u) <=> Acceptable(rows, states, u)
  BY Zenon DEF Acceptable, validatePostgresUpdate, validateReplacement,
         validateCanonicalBundles, rejectDifferentChain, deleteCanonicalRange,
         validateRetainedParent,
         Store!Acceptable, Store!validatePostgresUpdate,
         Store!validateReplacement, Store!validateCanonicalBundles,
         Store!rejectDifferentChain, Store!deleteCanonicalRange,
         Store!validateRetainedParent

LEMMA SameUpdate ==
    ASSUME NEW rows, NEW states, NEW u
    PROVE  /\ Store!UpdatedBlocks(rows, u) = UpdatedBlocks(rows, u)
           /\ Store!UpdatedSyncState(rows, states, u)
                = UpdatedSyncState(rows, states, u)
  BY Zenon DEF UpdatedBlocks, UpdatedSyncState, insertCanonicalBundles,
         deleteCanonicalRange, writeSyncState, CanonicalTip, Range,
         Store!UpdatedBlocks, Store!UpdatedSyncState,
         Store!insertCanonicalBundles, Store!deleteCanonicalRange,
         Store!writeSyncState, Store!CanonicalTip, Store!Range

\* A rejected call was not acceptable when it was rejected; a commit is the
\* atomic update; all other steps change nothing a caller or reader sees.
LEMMA StepRefines == Inv /\ [Next]_vars => [Store!Next]_(Store!vars)
  <1> SUFFICES ASSUME Inv, [Next]_vars PROVE [Store!Next]_(Store!vars)
    OBVIOUS
  <1>0. CASE UNCHANGED vars
    BY <1>0, Zenon DEF vars, Store!vars
  <1> SUFFICES ASSUME NEW w \in Writer, call(w) \/ TxStep(w) \/ fail(w)
               PROVE  [Store!Next]_(Store!vars)
    BY <1>0, Zenon DEF Next
  <1>t. TypeOK /\ TxOK(w)
    BY Zenon DEF Inv, TxConsistent
  <1>p. pc[w] # "idle" => outcome[w] = "pending"
    BY <1>t, Zenon DEF TxOK
  <1>r. ASSUME Return(w, "rejected"), UNCHANGED <<blocks, syncState>>,
               pc[w] # "idle", ~ Acceptable(blocks, syncState, update[w])
        PROVE  Store!Reject(w)
    BY <1>r, <1>p, SameAcceptable, Zenon DEF Store!Reject, Return
  <1>1. CASE call(w)
    <2>1. outcome[w] # "pending"
      BY <1>1, <1>t, Zenon DEF call, TxOK
    <2>2. Store!Call(w)
      BY <1>1, <2>1, Zenon DEF call, Store!Call
    <2> QED BY <2>2, Zenon DEF Store!Next
  <1>2. CASE begin(w)
    <2>1. CASE ~ validatePostgresUpdate(update[w])
      <3>1. ~ Acceptable(blocks, syncState, update[w])
        BY <2>1, Zenon DEF Acceptable
      <3>2. Store!Reject(w)
        BY <1>2, <1>r, <2>1, <3>1, Zenon DEF begin
      <3> QED BY <3>2, Zenon DEF Store!Next
    <2>2. CASE validatePostgresUpdate(update[w])
      BY <1>2, <2>2, Zenon DEF begin, Goto, storeVars, Store!vars
    <2> QED BY <2>1, <2>2, Zenon
  <1>3. CASE lock(w)
    BY <1>3, Zenon DEF lock, Goto, storeVars, Store!vars
  <1>4. CASE checkChain(w)
    <2>1. CASE rejectDifferentChain(syncState, update[w])
      <3>1. ~ Acceptable(blocks, syncState, update[w])
        BY <2>1, Zenon DEF Acceptable
      <3>2. Store!Reject(w)
        BY <1>4, <1>r, <2>1, <3>1, Zenon DEF checkChain
      <3> QED BY <3>2, Zenon DEF Store!Next
    <2>2. CASE ~ rejectDifferentChain(syncState, update[w])
      BY <1>4, <2>2, Zenon DEF checkChain, Goto, storeVars, Store!vars
    <2> QED BY <2>1, <2>2, Zenon
  <1>5. CASE deleteRange(w)
    BY <1>5, Zenon DEF deleteRange, Goto, storeVars, Store!vars
  <1>6. CASE checkParent(w)
    <2>1. Visible(w) = deleteCanonicalRange(blocks, update[w])
      BY <1>6, <1>t, DeletedRange, SMTT(30) DEF checkParent, Visible, TxOK
    <2>2. CASE ~ validateRetainedParent(Visible(w), update[w])
      <3>1. ~ Acceptable(blocks, syncState, update[w])
        BY <2>1, <2>2, Zenon DEF Acceptable
      <3>2. Store!Reject(w)
        BY <1>6, <1>r, <2>2, <3>1, Zenon DEF checkParent
      <3> QED BY <3>2, Zenon DEF Store!Next
    <2>3. CASE validateRetainedParent(Visible(w), update[w])
      BY <1>6, <2>3, Zenon DEF checkParent, Goto, storeVars, Store!vars
    <2> QED BY <2>2, <2>3, Zenon
  <1>7. CASE insertBatch(w)
    BY <1>7, Zenon DEF insertBatch, storeVars, Store!vars
  <1>8. CASE readTip(w)
    BY <1>8, Zenon DEF readTip, Goto, storeVars, Store!vars
  <1>9. CASE commit(w)
    <2>1. PICK o \in {"applied", "failed"} : Return(w, o)
      BY <1>9, Zenon DEF commit
    <2>2. /\ blocks' = UpdatedBlocks(blocks, update[w])
          /\ Acceptable(blocks, syncState, update[w])
          /\ syncState' = UpdatedSyncState(blocks, syncState, update[w])
      BY <1>9, <1>t, CommitSeesUpdate, Zenon DEF commit
    <2>3. Store!Apply(w)
      <3>1. Store!Acceptable(blocks, syncState, update[w])
        BY <2>2, SameAcceptable, Zenon
      <3>2. /\ blocks' = Store!UpdatedBlocks(blocks, update[w])
            /\ syncState'
                 = Store!UpdatedSyncState(blocks, syncState, update[w])
        BY <2>2, SameUpdate, Zenon
      <3>3. outcome[w] = "pending"
        BY <1>9, <1>p, Zenon DEF commit
      <3>4. outcome' = [outcome EXCEPT ![w] = o] /\ UNCHANGED update
        BY <2>1, Zenon DEF Return
      <3> QED BY <3>1, <3>2, <3>3, <3>4, Zenon DEF Store!Apply
    <2> QED BY <2>3, Zenon DEF Store!Next
  <1>10. CASE fail(w)
    <2>1. Store!Fail(w)
      BY <1>10, <1>p, Zenon DEF fail, Return, Store!Fail
    <2> QED BY <2>1, Zenon DEF Store!Next
  <1> QED BY <1>1, <1>2, <1>3, <1>4, <1>5, <1>6, <1>7, <1>8, <1>9, <1>10, Zenon
          DEF TxStep

\* ApplyCanonicalUpdate is atomic for any number of concurrent writers and any
\* updates: its statements, with the lock, the rollbacks and the lost
\* acknowledgements, implement AtomicStore.
THEOREM ImplementsAtomicStore == Spec => Atomic
  <1>1. Init => Store!Init
    BY Zenon DEF Init, Store!Init
  <1>2. Inv /\ [Next]_vars => [Store!Next]_(Store!vars)
    BY StepRefines, Zenon
  <1>3. Spec => []Inv
    BY TransactionsConsistent, Zenon DEF Inv
  <1> QED BY <1>1, <1>2, <1>3, PTL DEF Spec, Atomic, Store!Spec

\* The insert statements never meet a row with the same number, whatever was
\* stored before and whatever the update holds.
THEOREM InsertsDoNotConflict == Spec => []NoKeyConflict
  <1>1. Inv => NoKeyConflict
    <2> SUFFICES ASSUME Inv, NEW w \in Writer,
                        NEW k \in 1..Len(update[w].blocks),
                        pc[w] = "insert", k > inserted[w],
                        NEW b \in Visible(w)
                 PROVE  Number[b] # Number[update[w].blocks[k]]
      BY Zenon DEF NoKeyConflict
    <2> DEFINE u == update[w]
    <2>1. TypeOK /\ TxOK(w)
      BY Zenon DEF Inv, TxConsistent
    <2>2. u \in Update /\ u.blocks \in Seq(Block) /\ u.replaceFrom \in Int
      BY <2>1, PostgresStoreAssumption, BlockTreeAssumption DEF TypeOK, Update
    <2>3. validateReplacement(u)
      BY <2>1, Zenon DEF TxOK, validatePostgresUpdate
    <2>4. \A j \in 1..Len(u.blocks) : Number[u.blocks[j]] = u.replaceFrom + j - 1
      BY <2>2, <2>3, ReplacementNumbers, Zenon
    <2>5. inserted[w] \in Nat /\ k \in Int /\ Len(u.blocks) \in Nat
      BY <2>1, <2>2 DEF TypeOK
    <2> DEFINE first == u.replaceFrom
               here == Number[u.blocks[k]]
               there == Number[b]
    <2>6. first \in Int /\ k \in Int /\ k >= 1 /\ here = first + k - 1
      <3>1. k \in 1..Len(u.blocks)
        OBVIOUS
      <3>2. here = first + k - 1
        BY <2>4, <3>1, Zenon
      <3> HIDE DEF first, here
      <3>3. first \in Int
        BY <2>2, Zenon DEF first
      <3> QED BY <2>5, <3>1, <3>2, <3>3
    <2>7. CASE b \in blocks \ deleted[w]
      <3>1. b \in deleteCanonicalRange(blocks, u)
        BY <2>1, <2>7, DeletedRange, Zenon DEF TxOK
      <3>2. there \in Int /\ ~ (there >= first)
        BY <2>1, <3>1, BlockTreeAssumption DEF TypeOK, deleteCanonicalRange
      <3> HIDE DEF first, here, there
      <3>3. there # here
        BY <2>6, <3>2
      <3> QED BY <3>3, Zenon DEF here, there
    <2>8. CASE b \in {u.blocks[j] : j \in 1..inserted[w]}
      <3>1. PICK j \in 1..inserted[w] : b = u.blocks[j]
        BY <2>8, Zenon
      <3>2. j \in 1..Len(u.blocks) /\ j \in Int /\ j < k
        BY <2>5, <3>1
      <3>3. there = first + j - 1
        BY <2>4, <3>1, <3>2, Zenon
      <3> HIDE DEF first, here, there
      <3>4. there # here
        BY <2>6, <3>2, <3>3
      <3> QED BY <3>4, Zenon DEF here, there
    <2> QED BY <2>7, <2>8, Zenon DEF Visible
  <1>2. Spec => []Inv
    BY TransactionsConsistent, Zenon DEF Inv
  <1> QED BY <1>1, <1>2, PTL
=============================================================================

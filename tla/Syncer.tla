------------------------------- MODULE Syncer -------------------------------
(***************************************************************************)
(* Indexer processes that run SyncOnce against one Ethereum endpoint and   *)
(* one index store.                                                        *)
(*                                                                         *)
(* SyncOnce reads the chain head, then the stored tip, then walks down     *)
(* until stored and chain hashes agree, then fetches blocks, and only then *)
(* writes.  Each read of the endpoint or the store is a step of its own:   *)
(* the chain may reorganise, another indexer may commit, and the process   *)
(* may be killed between any two of them.  The write is one step, because  *)
(* ApplyCanonicalUpdate is one transaction under an advisory lock.         *)
(***************************************************************************)
EXTENDS IndexStore

CONSTANTS
    Indexer,    \* the indexer processes that share the store
    ChainID,    \* the configured chain ID
    Windows,    \* the block_window values a process may be started with
    HeadMode    \* "latest", "safe" or "finalized"

ASSUME SyncerAssumption ==
    /\ ChainID \in 1..MaxInt64
    /\ Windows \subseteq 1..MaxUint64
    /\ HeadMode \in {"latest", "safe", "finalized"}

VARIABLES
    view,       \* the head of the chain the endpoint answers from
    blocks,     \* the rows of table blocks
    syncState,  \* the rows of table sync_state
    pc,         \* where each indexer is in SyncOnce
    window,     \* its configured block window
    head,       \* the selected head
    storedTip,  \* the tip read from the store
    number,     \* the loop variable of commonAncestor
    storedHash, \* the stored block at number
    plan,       \* the replacement plan
    bundles,    \* the blocks fetched so far, by position
    result      \* how the last SyncOnce call ended

locals == <<head, storedTip, number, storedHash, plan, bundles>>
tables == <<blocks, syncState>>
vars == <<view, blocks, syncState, pc, window, head, storedTip, number,
          storedHash, plan, bundles, result>>

-----------------------------------------------------------------------------
Mode == {"none", "initial_load", "current", "append", "full_reload", "reorg"}

Plan == [from : 0..MaxUint64, mode : Mode]

NoPlan == [from |-> 0, mode |-> "none"]

\* A mistake: no clamp at block 0.
windowStartUnclamped(headNumber, blockWindow) == headNumber - (blockWindow - 1)

windowStart(headNumber, blockWindow) ==
    IF blockWindow - 1 > headNumber THEN 0 ELSE headNumber - (blockWindow - 1)

HeadNumber(i) == Number[head[i]]

RetainFrom(i) == windowStart(HeadNumber(i), window[i])

\* The blocks a head selector can resolve to: the head of the chain for
\* latest, some block of the chain for the safe and finalized tags.
Selectable(h) == IF HeadMode = "latest" THEN {h} ELSE ChainOf[h]

\* A mistake: the parent links are not compared.
numbersOnly(bs, from) == \A k \in 1..Len(bs) : Number[bs[k]] = from + k - 1

\* The chain has one block per position, each extending the one before it.
validateFetchedBundles(bs, from) ==
    \A k \in 1..Len(bs) :
        /\ Number[bs[k]] = from + k - 1
        /\ k > 1 => Parent[bs[k]] = bs[k-1]

UpdateOf(i) ==
    [chainID     |-> ChainID,
     replaceFrom |-> plan[i].from,
     retainFrom  |-> RetainFrom(i),
     blocks      |-> bundles[i]]

-----------------------------------------------------------------------------
Init ==
    /\ view \in Block
    /\ blocks = {}
    /\ syncState = {}
    /\ pc = [i \in Indexer |-> "idle"]
    /\ window \in [Indexer -> Windows]
    /\ head = [i \in Indexer |-> NoBlock]
    /\ storedTip = [i \in Indexer |-> NoBlock]
    /\ number = [i \in Indexer |-> 0]
    /\ storedHash = [i \in Indexer |-> NoBlock]
    /\ plan = [i \in Indexer |-> NoPlan]
    /\ bundles = [i \in Indexer |-> << >>]
    /\ result = [i \in Indexer |-> "none"]

\* SyncOnce returns: its locals go out of scope.
Return(i, r) ==
    /\ pc' = [pc EXCEPT ![i] = "idle"]
    /\ result' = [result EXCEPT ![i] = r]
    /\ head' = [head EXCEPT ![i] = NoBlock]
    /\ storedTip' = [storedTip EXCEPT ![i] = NoBlock]
    /\ number' = [number EXCEPT ![i] = 0]
    /\ storedHash' = [storedHash EXCEPT ![i] = NoBlock]
    /\ plan' = [plan EXCEPT ![i] = NoPlan]
    /\ bundles' = [bundles EXCEPT ![i] = << >>]

\* The run loop calls SyncOnce again, as a retry or for the next poll.
Poll(i) ==
    /\ pc[i] = "idle"
    /\ pc' = [pc EXCEPT ![i] = "head"]
    /\ result' = [result EXCEPT ![i] = "none"]
    /\ UNCHANGED <<view, tables, window, locals>>

selectedHead(i) ==
    /\ pc[i] = "head"
    /\ \E h \in Selectable(view) : head' = [head EXCEPT ![i] = h]
    /\ pc' = [pc EXCEPT ![i] = "tip"]
    /\ UNCHANGED <<view, tables, window, storedTip, number, storedHash, plan,
                   bundles, result>>

\* A mistake: the numbers are compared and not the hashes.
sameNumber(i, tip) == tip # NoBlock /\ Number[tip] = HeadNumber(i)

\* The stored tip has the number and the hash of the selected head.
AtHead(i, tip) == tip = head[i]

\* A mistake: a full reload is reported like a reorganisation.
reloadIsReorg(i, from, mode) ==
    /\ plan' = [plan EXCEPT ![i] =
          [from |-> from,
           mode |-> IF mode = "full_reload" THEN "reorg" ELSE mode]]
    /\ number' = [number EXCEPT ![i] = 0]
    /\ storedHash' = [storedHash EXCEPT ![i] = NoBlock]
    /\ bundles' = [bundles EXCEPT
          ![i] = [k \in 1..(HeadNumber(i) - from + 1) |-> NoBlock]]
    /\ pc' = [pc EXCEPT
          ![i] = IF from <= HeadNumber(i) THEN "fetch" ELSE "apply"]

\* replacementStart has decided: fetch from..head, or write at once when
\* there is nothing to fetch.
Replace(i, from, mode) ==
    /\ plan' = [plan EXCEPT ![i] = [from |-> from, mode |-> mode]]
    /\ number' = [number EXCEPT ![i] = 0]
    /\ storedHash' = [storedHash EXCEPT ![i] = NoBlock]
    /\ bundles' = [bundles EXCEPT
          ![i] = [k \in 1..(HeadNumber(i) - from + 1) |-> NoBlock]]
    /\ pc' = [pc EXCEPT
          ![i] = IF from <= HeadNumber(i) THEN "fetch" ELSE "apply"]

\* Read the stored tip, then the cases of replacementStart that need no
\* further read; the others start commonAncestor.
readStoredTip(i) ==
    LET tip == CanonicalTip(blocks) IN
    /\ pc[i] = "tip"
    /\ \/ /\ tip = NoBlock
          /\ Replace(i, RetainFrom(i), "initial_load")
          /\ storedTip' = [storedTip EXCEPT ![i] = tip]
          /\ UNCHANGED <<head, result>>
       \/ /\ tip # NoBlock
          /\ \/ Number[tip] > HeadNumber(i)
             \/ Number[tip] < RetainFrom(i)
          /\ Replace(i, RetainFrom(i), "full_reload")
          /\ storedTip' = [storedTip EXCEPT ![i] = tip]
          /\ UNCHANGED <<head, result>>
       \/ /\ AtHead(i, tip)
          /\ IF HeadNumber(i) = MaxUint64 THEN Return(i, "retryable")
             ELSE /\ Replace(i, HeadNumber(i) + 1, "current")
                  /\ storedTip' = [storedTip EXCEPT ![i] = tip]
                  /\ UNCHANGED <<head, result>>
       \/ /\ tip # NoBlock /\ ~ AtHead(i, tip)
          /\ Number[tip] \in RetainFrom(i)..HeadNumber(i)
          /\ storedTip' = [storedTip EXCEPT ![i] = tip]
          /\ number' = [number EXCEPT ![i] = Number[tip]]
          /\ pc' = [pc EXCEPT ![i] = "stored"]
          /\ UNCHANGED <<head, storedHash, plan, bundles, result>>
    /\ UNCHANGED <<view, tables, window>>

\* storedHash in commonAncestor: the tip already read, or one more query.
readStoredHash(i) ==
    LET found == IF number[i] = Number[storedTip[i]] THEN {storedTip[i]}
                 ELSE CanonicalHash(blocks, number[i])
    IN
    /\ pc[i] = "stored"
    /\ \/ /\ \E b \in found : storedHash' = [storedHash EXCEPT ![i] = b]
          /\ pc' = [pc EXCEPT ![i] = "chain"]
          /\ UNCHANGED <<number, plan, bundles>>
       \/ /\ found = {}
          /\ Replace(i, RetainFrom(i), "reorg")
    /\ UNCHANGED <<view, tables, window, head, storedTip, result>>

\* chainHash in commonAncestor and the comparison after it.
readChainHash(i) ==
    /\ pc[i] = "chain"
    /\ \E b \in IF number[i] = HeadNumber(i) THEN {head[i]}
                ELSE HeaderByNumber(view, number[i]) :
         \/ /\ b = storedHash[i]
            /\ IF number[i] = MaxUint64 THEN Return(i, "retryable")
               ELSE /\ Replace(i, number[i] + 1,
                               IF number[i] = Number[storedTip[i]]
                               THEN "append" ELSE "reorg")
                    /\ UNCHANGED <<head, storedTip, result>>
         \/ /\ b # storedHash[i]
            /\ number[i] = RetainFrom(i)
            /\ Replace(i, RetainFrom(i), "reorg")
            /\ UNCHANGED <<head, storedTip, result>>
         \/ /\ b # storedHash[i]
            /\ number[i] # RetainFrom(i)
            /\ number' = [number EXCEPT ![i] = @ - 1]
            /\ storedHash' = [storedHash EXCEPT ![i] = NoBlock]
            /\ pc' = [pc EXCEPT ![i] = "stored"]
            /\ UNCHANGED <<head, storedTip, plan, bundles, result>>
    /\ UNCHANGED <<view, tables, window>>

\* A worker of FetchRange stores the block it read into its position.
fetchBlock(i, k) ==
    /\ pc[i] = "fetch"
    /\ bundles[i][k] = NoBlock
    /\ \E b \in HeaderByNumber(view, plan[i].from + k - 1) :
          bundles' = [bundles EXCEPT ![i][k] = b]
    /\ UNCHANGED <<view, tables, pc, window, head, storedTip, number,
                   storedHash, plan, result>>

\* The chain has become too short to have the block a read asks for, and
\* the endpoint answers that it is not found.
blockNotFound(i) ==
    /\ \/ /\ pc[i] = "chain"
          /\ number[i] # HeadNumber(i)
          /\ HeaderByNumber(view, number[i]) = {}
       \/ /\ pc[i] = "fetch"
          /\ \E k \in DOMAIN bundles[i] :
                /\ bundles[i][k] = NoBlock
                /\ HeaderByNumber(view, plan[i].from + k - 1) = {}
    /\ Return(i, "retryable")
    /\ UNCHANGED <<view, tables, window>>

\* FetchRange returns and SyncOnce compares the last block with the head.
fetchedRange(i) ==
    /\ pc[i] = "fetch"
    /\ \A k \in DOMAIN bundles[i] : bundles[i][k] # NoBlock
    /\ IF /\ validateFetchedBundles(bundles[i], plan[i].from)
          /\ bundles[i][Len(bundles[i])] = head[i]
       THEN /\ pc' = [pc EXCEPT ![i] = "apply"]
            /\ UNCHANGED <<locals, result>>
       ELSE Return(i, "retryable")
    /\ UNCHANGED <<view, tables, window>>

\* ApplyCanonicalUpdate commits.  The caller sees success, or an error when
\* the acknowledgement of the commit is lost.
commitUpdate(i) ==
    /\ pc[i] = "apply"
    /\ Acceptable(blocks, syncState, UpdateOf(i))
    /\ blocks' = UpdatedBlocks(blocks, UpdateOf(i))
    /\ syncState' = UpdatedSyncState(blocks, syncState, UpdateOf(i))
    /\ \E r \in {"synced", "retryable"} : Return(i, r)
    /\ UNCHANGED <<view, window>>

\* ErrInvalidCanonicalUpdate, which isPermanentSyncError does not retry.
rejectUpdate(i) ==
    /\ pc[i] = "apply"
    /\ ~ Acceptable(blocks, syncState, UpdateOf(i))
    /\ Return(i, "permanent")
    /\ UNCHANGED <<view, tables, window>>

\* A call to the endpoint or the store fails, times out, or is refused as
\* inconsistent; the transaction, if one is open, rolls back.
callFails(i) ==
    /\ pc[i] # "idle"
    /\ Return(i, "retryable")
    /\ UNCHANGED <<view, tables, window>>

\* The process is killed and started again, possibly reconfigured.
restart(i) ==
    /\ Return(i, "none")
    /\ \E w \in Windows : window' = [window EXCEPT ![i] = w]
    /\ UNCHANGED <<view, tables>>

\* The endpoint moves to another head: new blocks, a reorganisation, or an
\* answer from a node that lags behind.
moveHead ==
    /\ view' \in Block
    /\ UNCHANGED <<tables, pc, window, locals, result>>

Step(i) ==
    \/ Poll(i)
    \/ selectedHead(i)
    \/ readStoredTip(i)
    \/ readStoredHash(i)
    \/ readChainHash(i)
    \/ \E k \in DOMAIN bundles[i] : fetchBlock(i, k)
    \/ blockNotFound(i)
    \/ fetchedRange(i)
    \/ commitUpdate(i)
    \/ rejectUpdate(i)

Next ==
    \/ moveHead
    \/ \E i \in Indexer : Step(i) \/ callFails(i) \/ restart(i)

Spec == Init /\ [][Next]_vars

-----------------------------------------------------------------------------
TypeOK ==
    /\ view \in Block
    /\ blocks \subseteq Block
    /\ syncState \subseteq SyncStateRow
    /\ pc \in [Indexer -> {"idle", "head", "tip", "stored", "chain", "fetch",
                           "apply"}]
    /\ window \in [Indexer -> Windows]
    /\ head \in [Indexer -> Block \cup {NoBlock}]
    /\ storedTip \in [Indexer -> Block \cup {NoBlock}]
    /\ number \in [Indexer -> 0..MaxUint64]
    /\ storedHash \in [Indexer -> Block \cup {NoBlock}]
    /\ plan \in [Indexer -> Plan]
    /\ bundles \in [Indexer -> Seq(Block \cup {NoBlock})]
    /\ result \in [Indexer -> {"none", "synced", "retryable", "permanent"}]

\* What the locals of a SyncOnce call mean at each point of it.  Together with
\* TypeOK it is inductive.
LocalsOK(i) ==
    /\ pc[i] \notin {"idle", "head"} => head[i] \in Block
    /\ pc[i] \in {"stored", "chain"} =>
          /\ storedTip[i] \in Block
          /\ number[i] \in RetainFrom(i)..HeadNumber(i)
    /\ pc[i] \in {"fetch", "apply"} =>
          /\ plan[i].from \in RetainFrom(i)..(HeadNumber(i) + 1)
          /\ Len(bundles[i]) = HeadNumber(i) - plan[i].from + 1
    /\ pc[i] = "apply" =>
          /\ bundles[i] \in Seq(Block)
          /\ validateFetchedBundles(bundles[i], plan[i].from)
          /\ bundles[i] # << >> => bundles[i][Len(bundles[i])] = head[i]

LocalsConsistent == \A i \in Indexer : LocalsOK(i)

\* Whatever the interleaving of indexers, reorganisations, failures and
\* restarts, the stored blocks form one parent-linked chain without gaps.
\* The indexers plan outside the transaction that writes, so the checks in
\* ApplyCanonicalUpdate have to catch every plan that went stale.
StoredOneChain == OneChain(blocks)

\* sync_state never disagrees with the blocks it describes: it has one row,
\* and that row names the highest stored block.
SyncStateNamesTip ==
    \/ blocks = {} /\ syncState = {}
    \/ syncState = {[chainID |-> ChainID, tip |-> CanonicalTip(blocks)]}

\* Retention: the stored blocks never span more than the largest configured
\* window, even when a stale update lands on another indexer's blocks.
RetentionBounded ==
    \A b, c \in blocks : \E w \in Windows : Number[c] - Number[b] < w

\* The blocks about to be written are all ancestors of the head selected at
\* the start of the cycle, although each was read at a different moment and
\* the endpoint may have changed chains in between.
FetchedFromHead ==
    \A i \in Indexer : pc[i] = "apply" =>
        Range(bundles[i]) \subseteq ChainOf[head[i]]

Synced(i) == pc[i] = "apply" /\ pc'[i] = "idle" /\ result'[i] = "synced"

\* A successful SyncOnce that wrote blocks leaves its head as the stored tip
\* and nothing but ancestors of that head in the store, also when another
\* indexer committed after the plan was made.
SyncedTip ==
    [][\A i \in Indexer : Synced(i) /\ bundles[i] # << >> =>
          /\ CanonicalTip(blocks') = head[i]
          /\ blocks' \subseteq ChainOf[head[i]]]_vars

\* With one indexer and one window size, a successful SyncOnce leaves exactly
\* the retained window of the selected head: no block missing, none left over.
SyncedWindow ==
    [][\A i \in Indexer : Synced(i) =>
          blocks' = {b \in ChainOf[head[i]] : Number[b] >= RetainFrom(i)}]_vars

\* ReorgResult.ReplacedBlockCount, computed from numbers only, is the count
\* of stored blocks the update really replaces.
ReorgCountExact ==
    [][\A i \in Indexer : Synced(i) /\ plan[i].mode = "reorg" =>
          Number[storedTip[i]] - plan[i].from + 1
            = Cardinality({b \in blocks : Number[b] >= plan[i].from})]_vars

\* Once a block is stored the store never becomes empty again, which is what
\* keeps the readiness endpoint at 200.
NeverEmptied == [][blocks # {} => blocks' # {}]_vars

\* The store accepts every update SyncOnce hands it: CanonicalUpdate is
\* documented as "one pre-validated atomic chain update".
UpdatesPreValidated == \A i \in Indexer : result[i] # "permanent"

\* SyncResult.FromBlock, reported after a successful cycle, is the lowest
\* stored block.
FromBlockIsLowest ==
    [][\A i \in Indexer : Synced(i) =>
          \E b \in blocks' : Number[b] = RetainFrom(i)]_vars
=============================================================================

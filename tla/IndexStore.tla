----------------------------- MODULE IndexStore -----------------------------
(***************************************************************************)
(* The PostgreSQL index store: what one canonical update does to the       *)
(* tables, and what the two indexer queries return.                        *)
(*                                                                         *)
(* A row of "blocks" is its block; transactions and event_logs rows hang   *)
(* off it by ON DELETE CASCADE and are inserted with it, so they follow    *)
(* the block.  A row of "sync_state" is a chain ID with the tip recorded   *)
(* for it.                                                                 *)
(***************************************************************************)
EXTENDS BlockTree, Sequences, Functions

CONSTANT MaxInt64   \* the largest PostgreSQL bigint

ASSUME IndexStoreAssumption == MaxInt64 \in Nat /\ MaxInt64 < MaxUint64

\* domain.CanonicalUpdate; SyncedAt is left out.
Update == [chainID     : 0..MaxUint64,
           replaceFrom : 0..MaxUint64,
           retainFrom  : 0..MaxUint64,
           blocks      : Seq(Block)]

SyncStateRow == [chainID : 0..MaxUint64, tip : Block \cup {NoBlock}]

\* ORDER BY number DESC LIMIT 1
CanonicalTip(rows) ==
    IF rows = {} THEN NoBlock
    ELSE CHOOSE b \in rows : \A c \in rows : Number[c] <= Number[b]

\* The row with a number; none of them is ErrNotFound.
CanonicalHash(rows, n) == {b \in rows : Number[b] = n /\ n <= MaxInt64}

\* The replacement blocks ascend without a gap from ReplaceFrom.
validateReplacement(u) ==
    u.blocks # << >> =>
        /\ Number[u.blocks[1]] = u.replaceFrom
        /\ \A k \in 2..Len(u.blocks) :
              Number[u.blocks[k]] = Number[u.blocks[k-1]] + 1

\* Each replacement block extends the one before it.
validateCanonicalBundles(u) ==
    \A k \in 2..Len(u.blocks) :
        /\ Number[u.blocks[k]] = Number[u.blocks[k-1]] + 1
        /\ Parent[u.blocks[k]] = u.blocks[k-1]

validatePostgresUpdate(u) ==
    /\ u.chainID \in 1..MaxInt64
    /\ u.retainFrom <= u.replaceFrom
    /\ u.replaceFrom <= MaxInt64
    /\ validateReplacement(u)
    /\ validateCanonicalBundles(u)
    /\ \A k \in 1..Len(u.blocks) : Number[u.blocks[k]] <= MaxInt64

rejectDifferentChain(states, u) == \E s \in states : s.chainID # u.chainID

\* Mistakes in the DELETE: no pruning below the window, the window's lowest
\* block pruned too, blocks above the replacement left, an off-by-one.
deleteWithoutPruning(rows, u) == {b \in rows : Number[b] < u.replaceFrom}

deleteLowestToo(rows, u) ==
    {b \in rows : Number[b] < u.replaceFrom /\ Number[b] > u.retainFrom}

deleteOnlyReplaced(rows, u) ==
    {b \in rows : /\ Number[b] >= u.retainFrom
                  /\ ~ \E c \in Range(u.blocks) : Number[c] = Number[b]}

deleteOffByOne(rows, u) ==
    {b \in rows : Number[b] <= u.replaceFrom /\ Number[b] >= u.retainFrom}

\* DELETE FROM blocks WHERE number >= replaceFrom OR number < retainFrom
deleteCanonicalRange(rows, u) ==
    rows \ {b \in rows : \/ Number[b] >= u.replaceFrom
                         \/ Number[b] < u.retainFrom}

\* Mistakes in the parent check: left out, or made for a full window too.
retainedParentUnchecked(kept, u) == TRUE

retainedParentAlways(kept, u) ==
    u.blocks # << >> => \E p \in kept : Parent[u.blocks[1]] = p

\* The first replacement block extends the highest block that is kept,
\* unless the whole window is replaced or nothing is inserted.
validateRetainedParent(kept, u) ==
    u.blocks # << >> /\ u.replaceFrom # u.retainFrom =>
        \E p \in kept : /\ Number[p] = u.replaceFrom - 1
                       /\ Parent[u.blocks[1]] = p

insertCanonicalBundles(kept, u) == kept \cup Range(u.blocks)

\* ON CONFLICT (chain_id) DO UPDATE
writeSyncState(states, u, tip) ==
    {s \in states : s.chainID # u.chainID}
        \cup {[chainID |-> u.chainID, tip |-> tip]}

\* ApplyCanonicalUpdate returns ErrInvalidCanonicalUpdate unless this holds.
Acceptable(rows, states, u) ==
    /\ validatePostgresUpdate(u)
    /\ ~ rejectDifferentChain(states, u)
    /\ validateRetainedParent(deleteCanonicalRange(rows, u), u)

\* The tables after an accepted update has committed.
UpdatedBlocks(rows, u) ==
    insertCanonicalBundles(deleteCanonicalRange(rows, u), u)

\* A mistake: the tip is read before the blocks are inserted.
tipBeforeInsert(rows, states, u) ==
    writeSyncState(states, u, CanonicalTip(deleteCanonicalRange(rows, u)))

UpdatedSyncState(rows, states, u) ==
    writeSyncState(states, u, CanonicalTip(UpdatedBlocks(rows, u)))

-----------------------------------------------------------------------------
\* One canonical chain: at most one block per number, and every block above
\* the lowest one stands on its parent.
OneChain(rows) ==
    /\ \A b, c \in rows : Number[b] = Number[c] => b = c
    /\ \A b, c \in rows : Number[b] < Number[c] => Parent[c] \in rows
=============================================================================

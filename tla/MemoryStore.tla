----------------------------- MODULE MemoryStore -----------------------------
(***************************************************************************)
(* store.Memory, the in-memory Store the tests run against, beside the     *)
(* PostgreSQL store: both are given the updates PostgreSQL accepts, and    *)
(* answer the same requests.  A mutex makes each of its methods one step.  *)
(***************************************************************************)
EXTENDS Queries

VARIABLES
    bundles,    \* m.bundles: the blocks it holds, one per number
    chainID     \* m.chainID, 0 before the first update

memoryVars == <<bundles, chainID>>

-----------------------------------------------------------------------------
\* The candidate: the map without the replaced and the pruned numbers, and
\* with the replacement blocks under theirs.
candidateBundles(rows, u) ==
    {b \in rows : /\ ~ (Number[b] >= u.replaceFrom \/ Number[b] < u.retainFrom)
                  /\ \A c \in Range(u.blocks) : Number[c] # Number[b]}
        \cup Range(u.blocks)

\* A mistake: the lowest block must have its parent too.
parentsAllRetained(rows) == \A c \in rows : Parent[c] \in rows

\* Each block extends the one before it in the order of their numbers.
extendsPrevious(rows) ==
    \A c \in rows : (\E b \in rows : Number[b] < Number[c]) =>
        \E p \in rows : Number[c] = Number[p] + 1 /\ Parent[c] = p

\* validateCanonicalBundles over the whole candidate, which also refuses a
\* transaction that two of its blocks include.
memoryValid(rows) ==
    /\ extendsPrevious(rows)
    /\ \A b, c \in rows :
          b # c => TransactionsOf[b] \cap TransactionsOf[c] = {}

memoryAccepts(u) ==
    /\ u.chainID # 0
    /\ u.retainFrom <= u.replaceFrom
    /\ validateReplacement(u)
    /\ chainID \in {0, u.chainID}
    /\ memoryValid(candidateBundles(bundles, u))

\* Memory.EventsByAddress sorts every matching event and cuts the page.
memoryEventPage(rows, a, before, n) ==
    LET events == {e \in EventsIn(rows) :
                      e.address = a /\ BeforeCursor(e, before)}
        page   == Newest(n, events)
    IN  IF n = 0 \/ Cardinality(events) <= n
        THEN [events |-> IF n = 0 THEN {} ELSE events, next |-> {}]
        ELSE [events |-> page,
              next   |-> {CursorOf(e) : e \in page \ Newest(n - 1, page)}]

\* The map entry of the cursor's number has the cursor's hash.
memoryCursorExists(rows, c) ==
    \E b \in rows : Number[b] = c.number /\ b = c.hash

-----------------------------------------------------------------------------
MemoryInit ==
    /\ Init
    /\ bundles = {}
    /\ chainID = 0

\* A refused update changes nothing.
memoryApply(u) ==
    /\ bundles' = IF memoryAccepts(u) THEN candidateBundles(bundles, u)
                  ELSE bundles
    /\ chainID' = IF memoryAccepts(u) THEN u.chainID ELSE chainID

MemoryNext ==
    \/ \E u \in Updates : applyUpdate(u) /\ memoryApply(u)
    \/ Request /\ UNCHANGED memoryVars

MemorySpec == MemoryInit /\ [][MemoryNext]_<<vars, memoryVars>>

-----------------------------------------------------------------------------
\* What is tested against Memory holds for PostgreSQL where the two are meant
\* to be the same store: Memory accepts every update PostgreSQL accepts and
\* then holds the same blocks, finds the same cursors good, cuts the same
\* page, and never has two blocks to answer TransactionByHash from.
MemoryAgrees ==
    /\ bundles = blocks
    /\ pc = "page" => \A c \in parseEventCursor(cursor) :
          /\ memoryCursorExists(snapshot, c)
          /\ memoryEventPage(snapshot, address, {c}, limit)
               = queryAddressEventPage(snapshot, address, {c}, limit)
    /\ \A r \in lookup : pc = "events" =>
          {b \in snapshot : r.hash \in TransactionsOf[b]} = {r.block}
=============================================================================

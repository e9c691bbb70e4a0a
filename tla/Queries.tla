------------------------------- MODULE Queries -------------------------------
(***************************************************************************)
(* The API's multi-step reads against a store that is being updated: the   *)
(* pages of an address's events, and a transaction with its events.        *)
(*                                                                         *)
(* A client pages through the events newest first, sending back the cursor *)
(* of the previous response.  Between two pages, and between the           *)
(* statements of one request, the indexer may append, reorganise and       *)
(* prune.  Statements of one REPEATABLE READ transaction see one snapshot. *)
(***************************************************************************)
EXTENDS IndexStore

CONSTANTS
    Event,              \* the logs of all blocks
    Transaction,        \* the transaction hashes
    TransactionsOf,     \* block -> the transactions in it
    Address,            \* the emitter addresses
    Updates,            \* the updates the indexer may apply
    Limits,             \* the values of the limit parameter clients send
    MaxEventPageSize,   \* domain.MaxEventPageSize
    Byte                \* how many values one byte of a cursor has

\* A log index is unique in its block and a log belongs to a transaction of
\* its block (validateCanonicalBundles); a chain includes a transaction once
\* (the primary key of transactions).
ASSUME QueriesAssumption ==
    /\ Event \subseteq [block : Block, logIndex : 0..MaxUint64,
                        transaction : Transaction, address : Address]
    /\ IsFiniteSet(Event)
    /\ TransactionsOf \in [Block -> SUBSET Transaction]
    /\ \A e \in Event : e.transaction \in TransactionsOf[e.block]
    /\ \A e, f \in Event :
          e.block = f.block /\ e.logIndex = f.logIndex => e = f
    /\ \A h \in Block : \A b, c \in ChainOf[h] :
          b # c => TransactionsOf[b] \cap TransactionsOf[c] = {}
    /\ Updates \subseteq Update
    /\ Limits \subseteq Nat
    /\ MaxEventPageSize \in Nat \ {0}
    /\ Byte \in Nat /\ MaxUint64 < Byte * Byte

VARIABLES
    blocks, syncState,  \* the tables
    pc,         \* the statement the request in progress runs next
    snapshot,   \* the blocks the last request saw, where they matter
    address,    \* the address whose events are paged through
    limit,      \* the limit of the request in progress
    cursor,     \* the cursor parameter of the next request: absent or one
    first,      \* the blocks the first page was read from
    delivered,  \* the events of the pages received since then
    count,      \* how many events those pages had in all
    lookup,     \* the transaction lookup: hash, block and events; or none
    status      \* the last response

tables == <<blocks, syncState>>
pagination == <<address, limit, cursor, first, delivered, count>>
vars == <<tables, pc, snapshot, pagination, lookup, status>>

-----------------------------------------------------------------------------
\* event_logs joined with blocks
EventsIn(rows) == {e \in Event : e.block \in rows}

\* ORDER BY block_number DESC, log_index DESC
Newer(e, f) ==
    \/ Number[e.block] > Number[f.block]
    \/ Number[e.block] = Number[f.block] /\ e.logIndex > f.logIndex

\* LIMIT n
Newest(n, events) ==
    {e \in events : Cardinality({f \in events : Newer(f, e)}) < n}

\* domain.EventCursor; nil is the empty set.
CursorOf(e) ==
    [number |-> Number[e.block], hash |-> e.block, logIndex |-> e.logIndex]

\* A mistake: the cursor's own event is not excluded.
notAfterCursor(e, before) ==
    \A c \in before :
        \/ Number[e.block] < c.number
        \/ Number[e.block] = c.number /\ e.logIndex <= c.logIndex

\* A mistake: the rest of the cursor's block is left out.
lowerBlocksOnly(e, before) == \A c \in before : Number[e.block] < c.number

\* The WHERE clause of eventsByAddressBeforeQuery.
BeforeCursor(e, before) ==
    \A c \in before :
        \/ Number[e.block] < c.number
        \/ Number[e.block] = c.number /\ e.logIndex < c.logIndex

\* One row more than the limit is read to see whether there is a next page.
queryAddressEventPage(rows, a, before, n) ==
    LET events == Newest(n + 1, {e \in EventsIn(rows) :
                                    e.address = a /\ BeforeCursor(e, before)})
        page   == Newest(n, events)
    IN  [events |-> page,
         next   |-> IF n = 0 \/ Cardinality(events) <= n THEN {}
                    ELSE {CursorOf(e) : e \in page \ Newest(n - 1, page)}]

canonicalCursorExists(rows, c) ==
    /\ c.number <= MaxInt64
    /\ \E b \in rows : Number[b] = c.number /\ b = c.hash

\* A mistake: the low byte of the number first.
encodeLittleEndian(c) ==
    <<c.number % Byte, c.number \div Byte, c.hash,
      c.logIndex \div Byte, c.logIndex % Byte>>

\* Fixed-width big-endian fields: number, hash, log index.
encodeEventCursor(c) ==
    <<c.number \div Byte, c.number % Byte, c.hash,
      c.logIndex \div Byte, c.logIndex % Byte>>

eventCursorEncodedSize == 5

\* The values of the cursor parameter that are refused; an absent one is fine.
invalidEventCursor(values) ==
    values # << >> =>
        Len(values) # 1 \/ Len(values[1]) # eventCursorEncodedSize

parseEventCursor(values) ==
    {[number   |-> values[k][1] * Byte + values[k][2],
      hash     |-> values[k][3],
      logIndex |-> values[k][4] * Byte + values[k][5]] : k \in DOMAIN values}

\* EventsByAddress compares the limit with the maximum once more.
validEventLimit(n) == n # 0 /\ n <= MaxEventPageSize

-----------------------------------------------------------------------------
Init ==
    /\ blocks = {} /\ syncState = {}
    /\ pc = "idle"
    /\ snapshot = {}
    /\ address \in Address
    /\ limit = 1
    /\ cursor = << >>
    /\ first = {} /\ delivered = {} /\ count = 0
    /\ lookup = {}
    /\ status = "none"

\* The indexer commits an update (AtomicStore).
applyUpdate(u) ==
    /\ Acceptable(blocks, syncState, u)
    /\ blocks' = UpdatedBlocks(blocks, u)
    /\ syncState' = UpdatedSyncState(blocks, syncState, u)
    /\ UNCHANGED <<pc, snapshot, pagination, lookup, status>>

\* 400: the parameters do not parse.
badRequest(n, values) ==
    /\ pc = "idle"
    /\ validEventLimit(n) => invalidEventCursor(values)
    /\ status' = "bad request"
    /\ snapshot' = {} /\ lookup' = {}
    /\ UNCHANGED <<tables, pc, pagination>>

\* The client receives a page and keeps its cursor for the next request.
Deliver(page, rows, before, counted) ==
    /\ delivered' = before \cup page.events
    /\ count' = counted + Cardinality(page.events)
    /\ \/ /\ page.next = {}
          /\ cursor' = << >>
          /\ status' = "last page"
          /\ snapshot' = rows
       \/ /\ \E c \in page.next : cursor' = <<encodeEventCursor(c)>>
          /\ status' = "page"
          /\ snapshot' = {}
    /\ pc' = "idle"
    /\ limit' = 1
    /\ lookup' = {}

\* Without a cursor the page is one statement.
firstPage(a, n) ==
    /\ pc = "idle"
    /\ validEventLimit(n)
    /\ address' = a
    /\ first' = blocks
    /\ Deliver(queryAddressEventPage(blocks, a, {}, n), blocks, {}, 0)
    /\ UNCHANGED tables

\* With a cursor the transaction first looks for the cursor's block.
checkCursor(n) ==
    /\ pc = "idle"
    /\ validEventLimit(n)
    /\ cursor # << >> /\ ~ invalidEventCursor(cursor)
    /\ snapshot' = blocks
    /\ \E c \in parseEventCursor(cursor) :
          \/ /\ canonicalCursorExists(blocks, c)
             /\ pc' = "page"
             /\ limit' = n
             /\ status' = "pending"
          \/ /\ ~ canonicalCursorExists(blocks, c)
             /\ status' = "stale cursor"
             /\ UNCHANGED <<pc, limit>>
    /\ lookup' = {}
    /\ UNCHANGED <<tables, address, cursor, first, delivered, count>>

\* A mistake: READ COMMITTED, where each statement has its own snapshot.
readCommittedPage ==
    /\ pc = "page"
    /\ Deliver(queryAddressEventPage(blocks, address, parseEventCursor(cursor),
                                     limit),
               blocks, delivered, count)
    /\ UNCHANGED <<tables, address, first>>

nextPage ==
    /\ pc = "page"
    /\ Deliver(queryAddressEventPage(snapshot, address, parseEventCursor(cursor),
                                     limit),
               snapshot, delivered, count)
    /\ UNCHANGED <<tables, address, first>>

\* TransactionByHash: the row, joined with its block.
readTransaction(t) ==
    LET rows == {b \in blocks : t \in TransactionsOf[b]} IN
    /\ pc = "idle"
    /\ \/ /\ rows = {}
          /\ status' = "not found"
          /\ snapshot' = {} /\ lookup' = {}
          /\ UNCHANGED pc
       \/ /\ \E b \in rows :
                lookup' = {[hash |-> t, block |-> b, events |-> {}]}
          /\ pc' = "events"
          /\ status' = "pending"
          /\ snapshot' = blocks
    /\ UNCHANGED <<tables, pagination>>

\* A mistake: the events are read outside the transaction.
eventsOutsideTransaction ==
    /\ pc = "events"
    /\ pc' = "idle"
    /\ lookup' = {[r EXCEPT !.events =
                      {e \in EventsIn(blocks) : e.transaction = r.hash}]
                    : r \in lookup}
    /\ status' = "transaction"
    /\ snapshot' = {}
    /\ UNCHANGED <<tables, pagination>>

\* Then its events, from the same snapshot.
readTransactionEvents ==
    /\ pc = "events"
    /\ pc' = "idle"
    /\ lookup' = {[r EXCEPT !.events =
                      {e \in EventsIn(snapshot) : e.transaction = r.hash}]
                    : r \in lookup}
    /\ status' = "transaction"
    /\ snapshot' = {}
    /\ UNCHANGED <<tables, pagination>>

\* A statement fails or the response is lost; the client may ask again.
requestFails ==
    /\ pc # "idle"
    /\ pc' = "idle"
    /\ status' = "error"
    /\ limit' = 1
    /\ snapshot' = {} /\ lookup' = {}
    /\ UNCHANGED <<tables, address, cursor, first, delivered, count>>

Request ==
    \/ \E n \in Limits :
          \/ \E values \in {cursor, <<<< >>>>, cursor \o cursor} :
                badRequest(n, values)
          \/ \E a \in Address : firstPage(a, n)
          \/ checkCursor(n)
    \/ nextPage
    \/ \E t \in Transaction : readTransaction(t)
    \/ readTransactionEvents
    \/ requestFails

Next == (\E u \in Updates : applyUpdate(u)) \/ Request

Spec == Init /\ [][Next]_vars

-----------------------------------------------------------------------------
\* The pages of one pagination never mix branches: every event delivered lies
\* on the chain the first page was read from, whatever reorganisations
\* happened between the pages and between the statements of a request.
OneBranch ==
    \A e \in delivered : e.block \in ChainOf[CanonicalTip(first)]

\* Nothing is skipped: after the last page the client has every event of each
\* block that was stored both when it started and when it finished, although
\* blocks above may have been replaced and blocks below pruned meanwhile.
NoneSkipped ==
    status = "last page" =>
        {e \in EventsIn(first \cap snapshot) : e.address = address}
            \subseteq delivered

\* No event is delivered by two pages of one pagination, also when a request
\* is repeated with its old cursor after an error.
NoneRepeated == count = Cardinality(delivered)

\* 409 stale_cursor is returned only when the block of the last event
\* delivered has left the store: no cursor is refused that is still good.
StaleMeansGone ==
    status = "stale cursor" =>
        \E e \in delivered : /\ \A f \in delivered : f = e \/ Newer(f, e)
                             /\ e.block \notin snapshot

\* A transaction is returned with exactly the events it emitted in the block
\* it is returned with: none missing and none from another branch's inclusion
\* of the same transaction.
TransactionWhole ==
    status = "transaction" =>
        \A r \in lookup : r.events =
            {e \in Event : e.transaction = r.hash /\ e.block = r.block}
=============================================================================

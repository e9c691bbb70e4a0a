---------------------------- MODULE QueriesProofs ----------------------------
(***************************************************************************)
(* Proofs about the API's reads, for every block tree, every set of events *)
(* and every sequence of updates and requests.                             *)
(*                                                                         *)
(* Two ideas carry them.  A stored table is one chain, so a block at or    *)
(* below a stored block is that block's ancestor; and a page is an upper   *)
(* part of the events in the total order of number and log index.          *)
(***************************************************************************)
EXTENDS MemoryStore, IndexStoreProofs, FiniteSetTheorems

-----------------------------------------------------------------------------
(* The order of events, and pages *)

LEMMA EventType ==
    ASSUME NEW e \in Event
    PROVE  /\ e.block \in Block
           /\ Number[e.block] \in Nat /\ Number[e.block] <= MaxUint64
           /\ e.logIndex \in Nat /\ e.logIndex <= MaxUint64
<1>1. e.block \in Block /\ e.logIndex \in 0..MaxUint64
  BY QueriesAssumption, Zenon
<1> QED
  BY <1>1, BlockTreeAssumption

LEMMA NewerOrder ==
    ASSUME NEW e \in Event, NEW f \in Event
    PROVE  /\ ~ Newer(e, e)
           /\ ~ (Newer(e, f) /\ Newer(f, e))
           /\ \A g \in Event : Newer(e, f) /\ Newer(f, g) => Newer(e, g)
  BY EventType DEF Newer

\* Any two of the events are in order.
Ordered(E) == \A e, f \in E : e = f \/ Newer(e, f) \/ Newer(f, e)

\* Events of one chain are in order: a number has one block, and a log index
\* one event in it.
LEMMA ChainOrdered ==
    ASSUME NEW h \in Block, NEW E \in SUBSET Event,
           \A e \in E : e.block \in ChainOf[h]
    PROVE  Ordered(E)
<1> SUFFICES ASSUME NEW e \in E, NEW f \in E
             PROVE  e = f \/ Newer(e, f) \/ Newer(f, e)
  BY Zenon DEF Ordered
<1>1. CASE Number[e.block] = Number[f.block]
  <2>1. e.block = f.block
    BY <1>1, ChainUnique, Zenon
  <2>2. e.logIndex = f.logIndex => e = f
    BY <2>1, QueriesAssumption, Zenon
  <2> QED
    BY <1>1, <2>2, EventType DEF Newer
<1>2. CASE Number[e.block] # Number[f.block]
  BY <1>2, EventType DEF Newer
<1> QED
  BY <1>1, <1>2, Zenon

LEMMA StoredOrdered ==
    ASSUME NEW rows \in SUBSET Block, OneChain(rows),
           NEW E \in SUBSET EventsIn(rows)
    PROVE  E \in SUBSET Event /\ IsFiniteSet(E) /\ Ordered(E)
<1>1. E \in SUBSET Event /\ \A e \in E : e.block \in rows
  BY Zenon DEF EventsIn
<1>2. IsFiniteSet(E)
  BY <1>1, QueriesAssumption, FS_Subset, Zenon
<1>3. CASE E = {}
  BY <1>1, <1>2, <1>3, Zenon DEF Ordered
<1>4. CASE E # {}
  <2>1. /\ CanonicalTip(rows) \in Block
        /\ \A e \in E : e.block \in ChainOf[CanonicalTip(rows)]
    BY <1>1, <1>4, StoredInTipChain, Zenon
  <2> QED
    BY <2>1, <1>1, <1>2, ChainOrdered, Zenon
<1> QED
  BY <1>3, <1>4, Zenon

\* The events of E that are newer than e.
Above(e, E) == {g \in E : Newer(g, e)}

LEMMA AboveSize ==
    ASSUME NEW E \in SUBSET Event, NEW e \in Event
    PROVE  /\ IsFiniteSet(E) /\ Cardinality(E) \in Nat
           /\ IsFiniteSet(Above(e, E)) /\ Cardinality(Above(e, E)) \in Nat
           /\ \A f \in E : Newer(f, e) =>
                 Cardinality(Above(f, E)) < Cardinality(Above(e, E))
<1>1. IsFiniteSet(E) /\ Cardinality(E) \in Nat
  BY QueriesAssumption, FS_Subset, FS_CardinalityType, Zenon
<1>2. \A f \in Event : /\ Above(f, E) \in SUBSET E
                       /\ IsFiniteSet(Above(f, E))
                       /\ Cardinality(Above(f, E)) \in Nat
  BY <1>1, FS_Subset, FS_CardinalityType, Zenon DEF Above
<1>3. ASSUME NEW f \in E, Newer(f, e)
      PROVE  Cardinality(Above(f, E)) < Cardinality(Above(e, E))
  <2>1. Above(f, E) \in SUBSET Above(e, E)
    BY <1>3, NewerOrder, Zenon DEF Above
  <2>2. f \in Above(e, E) /\ f \notin Above(f, E)
    BY <1>3, NewerOrder, Zenon DEF Above
  <2>3. /\ Cardinality(Above(f, E)) <= Cardinality(Above(e, E))
        /\ Cardinality(Above(f, E)) # Cardinality(Above(e, E))
    BY <2>1, <2>2, <1>2, FS_Subset, Zenon
  <2> QED
    BY <2>3, <1>2
<1> QED
  BY <1>1, <1>2, <1>3, Zenon

\* Events in order have a newest one, with the fewest above it, and an oldest.
LEMMA NewestExists ==
    ASSUME NEW E \in SUBSET Event, Ordered(E), E # {}
    PROVE  \E m \in E : \A f \in E : f = m \/ Newer(m, f)
<1> DEFINE Sizes == {Cardinality(Above(e, E)) : e \in E}
<1>1. Sizes \in SUBSET Nat /\ Sizes # {}
  BY AboveSize, Zenon
<1>2. PICK n \in Sizes : \A k \in Sizes : n <= k
  BY <1>1, LeastNat, Zenon
<1>3. PICK m \in E : n = Cardinality(Above(m, E))
  BY <1>2, Zenon
<1>4. ASSUME NEW f \in E, Newer(f, m) PROVE FALSE
  <2>1. Cardinality(Above(f, E)) < n /\ n <= Cardinality(Above(f, E))
    BY <1>2, <1>3, <1>4, AboveSize, Zenon
  <2> QED
    BY <2>1, <1>1, <1>2, AboveSize
<1> QED
  BY <1>4, Zenon DEF Ordered

LEMMA OldestExists ==
    ASSUME NEW E \in SUBSET Event, Ordered(E), E # {}
    PROVE  \E m \in E : \A f \in E : f = m \/ Newer(f, m)
<1> DEFINE Gap(e) == Cardinality(E) - Cardinality(Above(e, E))
           Gaps == {Gap(e) : e \in E}
<1>1. \A e \in E : Gap(e) \in Nat
  <2> SUFFICES ASSUME NEW e \in E PROVE Gap(e) \in Nat
    OBVIOUS
  <2>1. /\ Cardinality(E) \in Nat /\ Cardinality(Above(e, E)) \in Nat
        /\ IsFiniteSet(E)
    BY AboveSize, Zenon
  <2>2. Cardinality(Above(e, E)) <= Cardinality(E)
    BY <2>1, FS_Subset, Zenon DEF Above
  <2> QED
    BY <2>1, <2>2
<1>2. Gaps \in SUBSET Nat /\ Gaps # {}
  BY <1>1, Zenon
<1> HIDE DEF Gap
<1>3. PICK n \in Gaps : \A k \in Gaps : n <= k
  BY <1>2, LeastNat, Zenon
<1>4. PICK m \in E : n = Gap(m)
  BY <1>3, Zenon
<1>5. ASSUME NEW f \in E, Newer(m, f) PROVE FALSE
  <2>1. Gap(m) <= Gap(f)
    BY <1>3, <1>4, Zenon
  <2>2. /\ Cardinality(E) \in Nat
        /\ Cardinality(Above(m, E)) \in Nat /\ Cardinality(Above(f, E)) \in Nat
        /\ Cardinality(Above(m, E)) < Cardinality(Above(f, E))
    BY <1>5, AboveSize, Zenon
  <2> QED
    BY <2>1, <2>2 DEF Gap
<1> QED
  BY <1>5, Zenon DEF Ordered

\* What is newer than a returned row is returned too.
LEMMA NewestUpward ==
    ASSUME NEW E \in SUBSET Event, NEW n \in Nat, NEW e \in Newest(n, E),
           NEW f \in E, Newer(f, e)
    PROVE  f \in Newest(n, E)
<1>1. e \in E /\ Cardinality(Above(e, E)) < n
  BY Zenon DEF Newest, Above
<1>2. /\ Cardinality(Above(f, E)) \in Nat /\ Cardinality(Above(e, E)) \in Nat
      /\ Cardinality(Above(f, E)) < Cardinality(Above(e, E))
  BY <1>1, AboveSize, Zenon
<1>3. Cardinality(Above(f, E)) < n
  BY <1>1, <1>2
<1> QED
  BY <1>3, Zenon DEF Newest, Above

\* LIMIT n returns at most n rows, and n of them unless it returns all.
LEMMA NewestSize ==
    ASSUME NEW E \in SUBSET Event, Ordered(E), NEW n \in Nat
    PROVE  /\ Newest(n, E) \in SUBSET E
           /\ Cardinality(Newest(n, E)) \in Nat
           /\ Cardinality(Newest(n, E)) <= n
           /\ Newest(n, E) # E => Cardinality(Newest(n, E)) = n
<1> DEFINE N == Newest(n, E)
<1>1. N \in SUBSET E
  BY Zenon DEF Newest
<1>2. IsFiniteSet(N) /\ Cardinality(N) \in Nat
  BY <1>1, QueriesAssumption, FS_Subset, FS_CardinalityType, Zenon
<1>3. Cardinality(N) <= n
  <2>1. CASE N = {}
    BY <2>1, FS_EmptySet
  <2>2. CASE N # {}
    <3>1. Ordered(N) /\ N \in SUBSET Event
      BY <1>1, Zenon DEF Ordered
    <3>2. PICK m \in N : \A f \in N : f = m \/ Newer(f, m)
      BY <3>1, <2>2, OldestExists, Zenon
    <3>3. N \ {m} \in SUBSET Above(m, E)
      BY <3>2, <1>1, Zenon DEF Above
    <3>4. IsFiniteSet(Above(m, E)) /\ Cardinality(Above(m, E)) \in Nat
      BY <3>1, <3>2, AboveSize, Zenon
    <3>5. Cardinality(N \ {m}) <= Cardinality(Above(m, E))
      BY <3>3, <3>4, FS_Subset, Zenon
    <3>6. Cardinality(N \ {m}) = Cardinality(N) - 1
      BY <1>2, <3>2, FS_RemoveElement, Zenon
    <3>7. Cardinality(Above(m, E)) < n
      BY <3>2, Zenon DEF Newest, Above
    <3> QED
      BY <1>2, <3>4, <3>5, <3>6, <3>7
  <2> QED
    BY <2>1, <2>2, Zenon
<1>4. ASSUME N # E PROVE n <= Cardinality(N)
  <2> DEFINE Rest == E \ N
  <2>1. Rest \in SUBSET Event /\ Ordered(Rest) /\ Rest # {}
    BY <1>1, <1>4, Zenon DEF Ordered
  <2>2. PICK m \in Rest : \A f \in Rest : f = m \/ Newer(m, f)
    BY <2>1, NewestExists, Zenon
  <2>3. Above(m, E) \in SUBSET N
    BY <2>1, <2>2, NewerOrder, Zenon DEF Above
  <2>4. Cardinality(Above(m, E)) \in Nat
    BY <2>1, <2>2, AboveSize, Zenon
  <2>5. Cardinality(Above(m, E)) <= Cardinality(N)
    BY <2>3, <1>2, FS_Subset, Zenon
  <2>6. ~ (Cardinality(Above(m, E)) < n)
    BY <2>2, Zenon DEF Newest, Above
  <2> QED
    BY <2>4, <2>5, <2>6, <1>2
<1>5. N # E => Cardinality(N) = n
  BY <1>2, <1>3, <1>4
<1> QED
  BY <1>1, <1>2, <1>3, <1>5, Zenon

\* Reading one row more and dropping it again is reading the first n.
LEMMA NewestOfNewest ==
    ASSUME NEW E \in SUBSET Event, NEW n \in Nat
    PROVE  Newest(n, Newest(n + 1, E)) = Newest(n, E)
<1> DEFINE M == Newest(n + 1, E)
<1>1. M \in SUBSET E
  BY Zenon DEF Newest
<1>2. \A e \in M : Above(e, M) = Above(e, E)
  BY <1>1, NewestUpward DEF Above
<1>3. \A e \in Newest(n, E) : e \in M
  <2> SUFFICES ASSUME NEW e \in Newest(n, E) PROVE e \in M
    OBVIOUS
  <2>1. e \in E /\ Cardinality(Above(e, E)) < n
    BY Zenon DEF Newest, Above
  <2>2. Cardinality(Above(e, E)) \in Nat
    BY <2>1, AboveSize, Zenon
  <2>3. Cardinality(Above(e, E)) < n + 1
    BY <2>1, <2>2
  <2> QED
    BY <2>1, <2>3, Zenon DEF Newest, Above
<1> HIDE DEF M
<1>4. \A e : e \in Newest(n, M) <=> e \in M /\ Cardinality(Above(e, M)) < n
  BY Zenon DEF Newest, Above
<1>5. \A e : e \in Newest(n, E) <=> e \in E /\ Cardinality(Above(e, E)) < n
  BY Zenon DEF Newest, Above
<1>6. Newest(n, M) = Newest(n, E)
  BY <1>1, <1>2, <1>3, <1>4, <1>5, Zenon
<1> QED
  BY <1>6, Zenon DEF M

\* The rows queryAddressEventPage selects from.
Matching(rows, a, before) ==
    {e \in EventsIn(rows) : e.address = a /\ BeforeCursor(e, before)}

\* A page is the newest of the matching events; it is all of them when there
\* is no cursor, and ends with the cursor's event when there is one.
LEMMA PageShape ==
    ASSUME NEW rows \in SUBSET Block, OneChain(rows), NEW a, NEW before,
           NEW n \in Nat \ {0}
    PROVE  LET E == Matching(rows, a, before)
               p == queryAddressEventPage(rows, a, before, n)
           IN  /\ p.events \in SUBSET E
               /\ \A e \in p.events, f \in E : Newer(f, e) => f \in p.events
               /\ p.next = {} => p.events = E
               /\ \A c \in p.next : \E e \in p.events :
                     /\ c = CursorOf(e)
                     /\ \A f \in p.events : f = e \/ Newer(f, e)
               /\ memoryEventPage(rows, a, before, n) = p
<1> DEFINE E      == Matching(rows, a, before)
           events == Newest(n + 1, E)
           page   == Newest(n, events)
           last   == page \ Newest(n - 1, page)
           p      == queryAddressEventPage(rows, a, before, n)
<1>1. E \in SUBSET Event /\ IsFiniteSet(E) /\ Ordered(E)
  BY StoredOrdered, Zenon DEF Matching
<1>2. p = [events |-> page,
           next   |-> IF Cardinality(events) <= n THEN {}
                      ELSE {CursorOf(e) : e \in last}]
  BY Zenon DEF queryAddressEventPage, Matching
<1>3. memoryEventPage(rows, a, before, n) =
         IF Cardinality(E) <= n THEN [events |-> E, next |-> {}]
         ELSE [events |-> Newest(n, E),
               next   |-> {CursorOf(e) : e \in Newest(n, E) \ Newest(n - 1, Newest(n, E))}]
  BY Zenon DEF memoryEventPage, Matching
<1>4. page = Newest(n, E)
  BY <1>1, NewestOfNewest, Zenon
<1>5. n \in Nat /\ n + 1 \in Nat /\ n - 1 \in Nat
  OBVIOUS
<1>6. Cardinality(E) \in Nat
  BY <1>1, FS_CardinalityType, Zenon
<1> HIDE DEF E
<1>7. /\ events \in SUBSET E /\ Cardinality(events) \in Nat
      /\ Cardinality(events) <= n + 1
      /\ events # E => Cardinality(events) = n + 1
  BY <1>1, <1>5, NewestSize, Zenon
<1>8. /\ page \in SUBSET E /\ Cardinality(page) \in Nat
      /\ Cardinality(page) <= n
      /\ page # E => Cardinality(page) = n
  BY <1>1, <1>4, <1>5, NewestSize, Zenon
<1>9. Cardinality(events) <= n <=> Cardinality(E) <= n
  <2>1. CASE events = E
    BY <2>1, Zenon
  <2>2. CASE events # E
    <3>1. Cardinality(events) <= Cardinality(E)
      BY <1>1, <1>7, FS_Subset, Zenon
    <3> QED
      BY <2>2, <3>1, <1>5, <1>6, <1>7
  <2> QED
    BY <2>1, <2>2, Zenon
<1>10. Cardinality(E) <= n <=> page = E
  <2>1. ASSUME Cardinality(E) <= n, page # E PROVE FALSE
    <3>1. Cardinality(page) <= Cardinality(E) /\ Cardinality(page) # Cardinality(E)
      BY <1>1, <1>8, <2>1, FS_Subset, Zenon
    <3> QED
      BY <3>1, <2>1, <1>5, <1>6, <1>8
  <2> QED
    BY <2>1, <1>8, Zenon
<1>11. \A e \in page, f \in E : Newer(f, e) => f \in page
  BY <1>1, <1>4, <1>5, NewestUpward, Zenon
<1>12. Ordered(page) /\ page \in SUBSET Event /\ IsFiniteSet(page)
  BY <1>1, <1>8, FS_Subset, Zenon DEF Ordered
<1> HIDE DEF events, page
<1>13. ASSUME Cardinality(page) = n
       PROVE  /\ last # {}
              /\ \A e \in last : \A f \in page : f = e \/ Newer(f, e)
  <2>1. page # {}
    BY <1>13, FS_EmptySet, Zenon
  <2>2. PICK m \in page : \A f \in page : f = m \/ Newer(f, m)
    BY <2>1, <1>12, OldestExists, Zenon
  <2>3. Above(m, page) = page \ {m}
    BY <2>2, <1>12, NewerOrder, Zenon DEF Above
  <2>4. Cardinality(Above(m, page)) = n - 1
    BY <2>2, <2>3, <1>12, <1>13, FS_RemoveElement, Zenon
  <2>5. m \notin Newest(n - 1, page)
    BY <2>4, <1>5 DEF Newest, Above
  <2>6. ASSUME NEW e \in last PROVE e = m
    <3>1. e \in page /\ ~ (Cardinality(Above(e, page)) < n - 1)
      BY <2>6, Zenon DEF Newest, Above
    <3>2. ASSUME Newer(e, m) PROVE FALSE
      <4>1. /\ Cardinality(Above(e, page)) \in Nat
            /\ Cardinality(Above(e, page)) < Cardinality(Above(m, page))
        BY <3>1, <3>2, <2>2, <1>12, AboveSize, Zenon
      <4> QED
        BY <4>1, <3>1, <2>4, Zenon
    <3> QED
      BY <3>1, <3>2, <2>2, Zenon
  <2> QED
    BY <2>2, <2>5, <2>6, Zenon
<1> HIDE DEF last
<1>14. p.events = page
  BY <1>2
<1>15. p.next = IF Cardinality(events) <= n THEN {} ELSE {CursorOf(e) : e \in last}
  BY <1>2
<1>16. memoryEventPage(rows, a, before, n) = p
  <2>1. CASE Cardinality(E) <= n
    BY <2>1, <1>2, <1>3, <1>9, <1>10, Zenon
  <2>2. CASE ~ (Cardinality(E) <= n)
    BY <2>2, <1>2, <1>3, <1>4, <1>9, Zenon DEF last
  <2> QED
    BY <2>1, <2>2, Zenon
<1> HIDE DEF p
<1>17. p.next = {} => p.events = E
  BY <1>8, <1>9, <1>10, <1>13, <1>14, <1>15, Zenon
<1>18. ASSUME NEW c \in p.next
       PROVE  \E e \in p.events : /\ c = CursorOf(e)
                                  /\ \A f \in p.events : f = e \/ Newer(f, e)
  <2>1. ~ (Cardinality(events) <= n) /\ c \in {CursorOf(e) : e \in last}
    BY <1>15, <1>18, Zenon
  <2>2. PICK e \in last : c = CursorOf(e)
    BY <2>1, Zenon
  <2>3. Cardinality(page) = n
    BY <2>1, <1>8, <1>9, <1>10, Zenon
  <2>4. e \in page
    BY <2>2, Zenon DEF last
  <2> QED
    BY <2>2, <2>3, <2>4, <1>13, <1>14, Zenon
<1>19. /\ p.events \in SUBSET E
       /\ \A e \in p.events, f \in E : Newer(f, e) => f \in p.events
  BY <1>8, <1>11, <1>14, Zenon
<1> QED
  BY <1>16, <1>17, <1>18, <1>19, Zenon DEF p, E

\* A cursor survives its encoding: two base-Byte digits hold any uint64.
LEMMA TwoDigits ==
    ASSUME NEW n \in Nat, n <= MaxUint64
    PROVE  (n \div Byte) * Byte + (n % Byte) = n
<1>1. Byte \in Nat \ {0}
  BY QueriesAssumption, BlockTreeAssumption, SMT
<1> QED
  BY <1>1

LEMMA CursorRoundTrip ==
    ASSUME NEW e \in Event
    PROVE  LET values == <<encodeEventCursor(CursorOf(e))>>
           IN  /\ parseEventCursor(values) = {CursorOf(e)}
               /\ values # << >>
<1> DEFINE c == CursorOf(e)
           values == <<encodeEventCursor(c)>>
<1>1. c = [number |-> Number[e.block], hash |-> e.block,
           logIndex |-> e.logIndex]
  BY Zenon DEF CursorOf
<1>2. encodeEventCursor(c) = <<c.number \div Byte, c.number % Byte, c.hash,
                               c.logIndex \div Byte, c.logIndex % Byte>>
  BY Zenon DEF encodeEventCursor
<1>3. /\ (c.number \div Byte) * Byte + (c.number % Byte) = c.number
      /\ (c.logIndex \div Byte) * Byte + (c.logIndex % Byte) = c.logIndex
  BY <1>1, EventType, TwoDigits
<1> HIDE DEF c
<1>4. DOMAIN values = {1} /\ values[1] = encodeEventCursor(c)
  OBVIOUS
<1>5. parseEventCursor(values) =
         {[number   |-> values[1][1] * Byte + values[1][2],
           hash     |-> values[1][3],
           logIndex |-> values[1][4] * Byte + values[1][5]]}
  BY <1>4, Zenon DEF parseEventCursor
<1>6. parseEventCursor(values) = {[number |-> c.number, hash |-> c.hash,
                                   logIndex |-> c.logIndex]}
  BY <1>2, <1>3, <1>4, <1>5
<1>7. [number |-> c.number, hash |-> c.hash, logIndex |-> c.logIndex] = c
  BY <1>1, Zenon
<1>8. values # << >>
  OBVIOUS
<1> QED
  BY <1>6, <1>7, <1>8, Zenon DEF c

-----------------------------------------------------------------------------
(* The inductive invariant *)

GoodTable(rows) ==
    /\ rows \in SUBSET Block
    /\ OneChain(rows)
    /\ \A b \in rows : Number[b] <= MaxInt64

\* e is the oldest event delivered, and of the blocks the pagination started
\* with nothing is missing down to it.
Reached(e) ==
    /\ \A f \in delivered : f = e \/ Newer(f, e)
    /\ \A f \in Event :
          /\ f.address = address /\ f.block \in first
          /\ f = e \/ Newer(f, e)
          => f \in delivered

\* What the client holds between requests.
Paging ==
    /\ GoodTable(first)
    /\ delivered \in SUBSET Event
    /\ delivered # {} => first # {}
    /\ \A e \in delivered : Number[e.block] <= MaxInt64
    /\ OneBranch
    /\ NoneRepeated
    /\ cursor # << >> =>
          \E e \in delivered : /\ cursor = <<encodeEventCursor(CursorOf(e))>>
                               /\ Reached(e)

\* What the request in progress, or the last one, has seen.
Requesting ==
    /\ limit \in Nat \ {0}
    /\ GoodTable(snapshot)
    /\ lookup \in SUBSET [hash : Transaction, block : Block, events : SUBSET Event]
    /\ pc = "page" => /\ cursor # << >>
                      /\ \A c \in parseEventCursor(cursor) :
                            canonicalCursorExists(snapshot, c)
    /\ pc = "events" => \A r \in lookup : /\ r.block \in snapshot
                                          /\ r.hash \in TransactionsOf[r.block]
    /\ NoneSkipped
    /\ StaleMeansGone
    /\ TransactionWhole

IInv == GoodTable(blocks) /\ Paging /\ Requesting

LEMMA EmptyGood == GoodTable({})
  BY Zenon DEF GoodTable, OneChain

LEMMA UpdateGood ==
    ASSUME NEW rows, GoodTable(rows), NEW states, NEW u \in Update,
           Acceptable(rows, states, u)
    PROVE  GoodTable(UpdatedBlocks(rows, u))
<1>1. UpdatedBlocks(rows, u) \in SUBSET Block /\ OneChain(UpdatedBlocks(rows, u))
  BY UpdateKeepsOneChain, Zenon DEF GoodTable
<1>2. u.blocks \in Seq(Block)
  BY Zenon DEF Update
<1>3. \A b \in UpdatedBlocks(rows, u) :
         b \in rows \/ \E k \in 1..Len(u.blocks) : b = u.blocks[k]
  BY <1>2 DEF UpdatedBlocks, insertCanonicalBundles, deleteCanonicalRange, Range
<1>4. \A k \in 1..Len(u.blocks) : Number[u.blocks[k]] <= MaxInt64
  BY Zenon DEF Acceptable, validatePostgresUpdate
<1> QED
  BY <1>1, <1>3, <1>4, Zenon DEF GoodTable

LEMMA InitInv == Init => IInv
<1> SUFFICES ASSUME Init PROVE IInv
  OBVIOUS
<1>1. Paging
  <2>1. OneBranch /\ NoneRepeated
    BY FS_EmptySet, Zenon DEF Init, OneBranch, NoneRepeated
  <2> QED
    BY <2>1, EmptyGood, Zenon DEF Init, Paging
<1>2. Requesting
  BY EmptyGood DEF Init, Requesting, NoneSkipped, StaleMeansGone, TransactionWhole
<1> QED
  BY <1>1, <1>2, EmptyGood, Zenon DEF Init, IInv

\* The events of a transaction stored in one block lie in that block.
LEMMA OneInclusion ==
    ASSUME NEW rows, GoodTable(rows), NEW b \in rows, NEW c \in rows,
           NEW t \in TransactionsOf[b], t \in TransactionsOf[c]
    PROVE  b = c
<1>1. /\ CanonicalTip(rows) \in Block
      /\ b \in ChainOf[CanonicalTip(rows)]
      /\ c \in ChainOf[CanonicalTip(rows)]
  BY StoredInTipChain, Zenon DEF GoodTable
<1> QED
  BY <1>1, QueriesAssumption, Zenon

LEMMA PagingFrame ==
    ASSUME Paging, UNCHANGED <<address, cursor, first, delivered, count>>
    PROVE  Paging'
  BY Zenon DEF Paging, OneBranch, NoneRepeated, Reached

LEMMA RequestingFrame ==
    ASSUME Requesting, UNCHANGED <<pc, snapshot, pagination, lookup, status>>
    PROVE  Requesting'
  BY Zenon DEF Requesting, pagination, NoneSkipped, StaleMeansGone, TransactionWhole

\* A response that leaves the pagination alone and is not a page, a stale
\* cursor or a transaction.
LEMMA AnsweredFrame ==
    ASSUME limit' \in Nat \ {0}, snapshot' = {}, lookup' = {}, pc' = "idle",
           status' \in {"bad request", "not found", "error"}
    PROVE  Requesting'
<1>1. NoneSkipped' /\ StaleMeansGone' /\ TransactionWhole'
  BY Zenon DEF NoneSkipped, StaleMeansGone, TransactionWhole
<1> QED
  BY <1>1, EmptyGood, Zenon DEF Requesting

LEMMA ApplyUpdateInv ==
    ASSUME IInv, NEW u \in Updates, applyUpdate(u)
    PROVE  IInv'
<1>1. GoodTable(blocks')
  BY UpdateGood, QueriesAssumption, Zenon DEF IInv, applyUpdate
<1>2. Paging'
  BY PagingFrame, Zenon DEF IInv, applyUpdate, pagination
<1>3. Requesting'
  BY RequestingFrame, Zenon DEF IInv, applyUpdate
<1> QED
  BY <1>1, <1>2, <1>3, Zenon DEF IInv

LEMMA FirstPageInv ==
    ASSUME IInv, NEW a \in Address, NEW n \in Limits, firstPage(a, n)
    PROVE  IInv'
<1> DEFINE E == Matching(blocks, a, {})
           p == queryAddressEventPage(blocks, a, {}, n)
<1>1. GoodTable(blocks) /\ n \in Nat \ {0}
  BY QueriesAssumption, Zenon DEF IInv, firstPage, validEventLimit
<1>2. blocks' = blocks /\ first' = blocks /\ address' = a
  BY Zenon DEF firstPage, tables
<1>3. \A e : e \in E <=> e \in Event /\ e.block \in blocks /\ e.address = a
  BY Zenon DEF Matching, EventsIn, BeforeCursor
<1>4. /\ p.events \in SUBSET E
      /\ \A e \in p.events, f \in E : Newer(f, e) => f \in p.events
      /\ p.next = {} => p.events = E
      /\ \A c \in p.next : \E e \in p.events :
            /\ c = CursorOf(e)
            /\ \A f \in p.events : f = e \/ Newer(f, e)
  BY <1>1, PageShape, Zenon DEF GoodTable
<1>5. /\ delivered' = p.events
      /\ count' = 0 + Cardinality(p.events)
      /\ pc' = "idle" /\ limit' = 1 /\ lookup' = {}
  BY Zenon DEF firstPage, Deliver
<1>6. \/ /\ p.next = {} /\ cursor' = << >>
         /\ status' = "last page" /\ snapshot' = blocks
      \/ /\ \E c \in p.next : cursor' = <<encodeEventCursor(c)>>
         /\ status' = "page" /\ snapshot' = {}
  BY Zenon DEF firstPage, Deliver
<1> HIDE DEF E, p
<1>7. /\ delivered' \in SUBSET Event
      /\ \A e \in delivered' : e.block \in blocks
  BY <1>3, <1>4, <1>5, Zenon
<1>8. Paging'
  <2>1. OneBranch'
    BY <1>1, <1>2, <1>7, StoredInTipChain, Zenon DEF OneBranch, GoodTable
  <2>2. NoneRepeated'
    <3>1. Cardinality(p.events) \in Nat
      BY <1>5, <1>7, QueriesAssumption, FS_Subset, FS_CardinalityType, Zenon
    <3>2. count' = Cardinality(p.events) /\ delivered' = p.events
      BY <3>1, <1>5
    <3> QED
      BY <3>2, Zenon DEF NoneRepeated
  <2>3. ASSUME cursor' # << >>
        PROVE  \E e \in delivered' :
                  /\ cursor' = <<encodeEventCursor(CursorOf(e))>>
                  /\ Reached(e)'
    <3>1. PICK c \in p.next : cursor' = <<encodeEventCursor(c)>>
      BY <1>6, <2>3, Zenon
    <3>2. PICK e \in p.events : /\ c = CursorOf(e)
                                /\ \A f \in p.events : f = e \/ Newer(f, e)
      BY <3>1, <1>4, Zenon
    <3>3. Reached(e)'
      BY <3>2, <1>2, <1>3, <1>4, <1>5, Zenon DEF Reached
    <3> QED
      BY <3>1, <3>2, <3>3, <1>5, Zenon
  <2>4. \A e \in delivered' : Number[e.block] <= MaxInt64
    BY <1>1, <1>7, Zenon DEF GoodTable
  <2> QED
    BY <2>1, <2>2, <2>3, <2>4, <1>1, <1>2, <1>7, Zenon DEF Paging
<1>9. Requesting'
  <2>1. NoneSkipped'
    BY <1>2, <1>3, <1>4, <1>5, <1>6, Zenon DEF NoneSkipped, EventsIn
  <2>2. StaleMeansGone' /\ TransactionWhole'
    BY <1>6, Zenon DEF StaleMeansGone, TransactionWhole
  <2>3. GoodTable(snapshot')
    BY <1>1, <1>6, EmptyGood, Zenon
  <2>4. /\ limit' \in Nat \ {0}
        /\ pc' # "page" /\ pc' # "events" /\ lookup' = {}
    BY <1>5
  <2> QED
    BY <2>1, <2>2, <2>3, <2>4, Zenon DEF Requesting
<1> QED
  BY <1>1, <1>2, <1>8, <1>9, Zenon DEF IInv

LEMMA CheckCursorInv ==
    ASSUME IInv, NEW n \in Limits, checkCursor(n)
    PROVE  IInv'
<1>1. Paging' /\ GoodTable(blocks')
  BY PagingFrame, Zenon DEF IInv, checkCursor, tables
<1>2. PICK e \in delivered : /\ cursor = <<encodeEventCursor(CursorOf(e))>>
                             /\ Reached(e)
  BY Zenon DEF IInv, Paging, checkCursor
<1>3. e \in Event /\ Number[e.block] <= MaxInt64
  BY <1>2, Zenon DEF IInv, Paging
<1>4. parseEventCursor(cursor) = {CursorOf(e)}
  BY <1>2, <1>3, CursorRoundTrip, Zenon
<1>5. canonicalCursorExists(blocks, CursorOf(e)) <=> e.block \in blocks
  BY <1>3, Zenon DEF canonicalCursorExists, CursorOf
<1>6. /\ snapshot' = blocks /\ lookup' = {} /\ GoodTable(blocks)
      /\ cursor' = cursor /\ delivered' = delivered /\ cursor # << >>
      /\ limit \in Nat \ {0} /\ n \in Nat \ {0} /\ pc = "idle"
  BY QueriesAssumption, Zenon DEF IInv, Requesting, checkCursor, validEventLimit
<1>7. \/ /\ canonicalCursorExists(blocks, CursorOf(e))
         /\ pc' = "page" /\ limit' = n /\ status' = "pending"
      \/ /\ e.block \notin blocks
         /\ status' = "stale cursor" /\ pc' = pc /\ limit' = limit
  BY <1>4, <1>5, Zenon DEF checkCursor
<1>8. StaleMeansGone'
  BY <1>2, <1>6, <1>7, Zenon DEF StaleMeansGone, Reached
<1>9. NoneSkipped' /\ TransactionWhole'
  BY <1>7, Zenon DEF NoneSkipped, TransactionWhole
<1>10. \A c \in parseEventCursor(cursor') :
          pc' = "page" => canonicalCursorExists(snapshot', c)
  BY <1>4, <1>6, <1>7, Zenon
<1>11. Requesting'
  BY <1>6, <1>7, <1>8, <1>9, <1>10, Zenon DEF Requesting
<1> QED
  BY <1>1, <1>11, Zenon DEF IInv

\* An event below the last one delivered, in a block the pagination started
\* with, is either at or above it or comes after the cursor.
LEMMA AboveOrBelow ==
    ASSUME Paging, NEW e \in delivered, NEW f \in Event, f.block \in first
    PROVE  /\ CanonicalTip(first) \in Block
           /\ f.block \in ChainOf[CanonicalTip(first)]
           /\ \/ f = e \/ Newer(f, e)
              \/ BeforeCursor(f, {CursorOf(e)})
<1> DEFINE h == CanonicalTip(first)
<1>1. h \in Block /\ f.block \in ChainOf[h]
  BY StoredInTipChain, Zenon DEF Paging, GoodTable
<1>2. e \in Event /\ e.block \in ChainOf[h]
  BY Zenon DEF Paging, OneBranch
<1>3. Ordered({e, f})
  BY <1>1, <1>2, ChainOrdered, Zenon
<1>4. f = e \/ Newer(f, e) \/ Newer(e, f)
  BY <1>3, Zenon DEF Ordered
<1>5. Newer(e, f) => BeforeCursor(f, {CursorOf(e)})
  BY <1>2, EventType DEF Newer, BeforeCursor, CursorOf
<1> QED
  BY <1>1, <1>4, <1>5, Zenon

LEMMA NextPageInv ==
    ASSUME IInv, nextPage
    PROVE  IInv'
<1>1. /\ GoodTable(snapshot) /\ limit \in Nat \ {0}
      /\ Paging /\ GoodTable(blocks') /\ cursor # << >>
      /\ first' = first /\ address' = address
  BY Zenon DEF IInv, Requesting, nextPage, tables
<1>2. PICK e \in delivered : /\ cursor = <<encodeEventCursor(CursorOf(e))>>
                             /\ Reached(e)
  BY <1>1, Zenon DEF Paging
<1>3. /\ e \in Event /\ delivered \in SUBSET Event
      /\ e.block \in ChainOf[CanonicalTip(first)]
  BY <1>1, <1>2, Zenon DEF Paging, OneBranch
<1>4. parseEventCursor(cursor) = {CursorOf(e)}
  BY <1>2, <1>3, CursorRoundTrip, Zenon
<1>5. e.block \in snapshot
  BY <1>4, Zenon DEF IInv, Requesting, nextPage, canonicalCursorExists, CursorOf
<1>6. CanonicalTip(first) \in Block
  BY <1>1, <1>2, CanonicalTipHighest, Zenon DEF Paging, GoodTable
<1> DEFINE E == Matching(snapshot, address, {CursorOf(e)})
           p == queryAddressEventPage(snapshot, address, {CursorOf(e)}, limit)
<1>7. \A f : f \in E <=> /\ f \in Event /\ f.block \in snapshot
                         /\ f.address = address
                         /\ BeforeCursor(f, {CursorOf(e)})
  BY Zenon DEF Matching, EventsIn
<1>8. /\ p.events \in SUBSET E
      /\ \A g \in p.events, f \in E : Newer(f, g) => f \in p.events
      /\ p.next = {} => p.events = E
      /\ \A c \in p.next : \E g \in p.events :
            /\ c = CursorOf(g)
            /\ \A f \in p.events : f = g \/ Newer(f, g)
  <2>1. snapshot \in SUBSET Block /\ OneChain(snapshot) /\ limit \in Nat \ {0}
    BY <1>1, Zenon DEF GoodTable
  <2> QED
    BY <2>1, PageShape, Zenon
<1>9. /\ delivered' = delivered \cup p.events
      /\ count' = count + Cardinality(p.events)
      /\ pc' = "idle" /\ limit' = 1 /\ lookup' = {}
  BY <1>4, Zenon DEF nextPage, Deliver
<1>10. \/ /\ p.next = {} /\ cursor' = << >>
          /\ status' = "last page" /\ snapshot' = snapshot
       \/ /\ \E c \in p.next : cursor' = <<encodeEventCursor(c)>>
          /\ status' = "page" /\ snapshot' = {}
  BY <1>4, Zenon DEF nextPage, Deliver
<1>11. \A f \in Event : BeforeCursor(f, {CursorOf(e)}) <=> Newer(e, f)
  BY <1>3, EventType DEF Newer, BeforeCursor, CursorOf
<1> HIDE DEF E, p
<1>12. \A f \in E : /\ f \in Event /\ Newer(e, f)
                    /\ Number[f.block] <= Number[e.block]
  <2> SUFFICES ASSUME NEW f \in E
               PROVE  /\ f \in Event /\ Newer(e, f)
                      /\ Number[f.block] <= Number[e.block]
    OBVIOUS
  <2>1. f \in Event /\ Newer(e, f)
    BY <1>7, <1>11, Zenon
  <2>2. Number[f.block] \in Nat /\ Number[e.block] \in Nat
    BY <2>1, <1>3, EventType, Zenon
  <2> QED
    BY <2>1, <2>2 DEF Newer
<1>13. \A f \in E : f.block \in ChainOf[CanonicalTip(first)]
  <2> SUFFICES ASSUME NEW f \in E
               PROVE  f.block \in ChainOf[CanonicalTip(first)]
    OBVIOUS
  <2>1. f.block \in ChainOf[e.block]
    BY <1>1, <1>5, <1>7, <1>12, BelowInChain, Zenon DEF GoodTable
  <2> QED
    BY <2>1, <1>3, <1>6, ChainTransitive, Zenon
<1>14. delivered' \in SUBSET Event /\ p.events \in SUBSET Event
  BY <1>3, <1>8, <1>9, <1>12, Zenon
<1>15. NoneRepeated'
  <2>1. delivered \cap p.events = {}
    BY <1>2, <1>3, <1>8, <1>12, NewerOrder, SMTT(30) DEF Reached
  <2>2. /\ IsFiniteSet(delivered) /\ IsFiniteSet(p.events)
        /\ Cardinality(delivered) \in Nat /\ Cardinality(p.events) \in Nat
    BY <1>3, <1>14, QueriesAssumption, FS_Subset, FS_CardinalityType, Zenon
  <2>3. Cardinality(delivered \cup p.events)
           = Cardinality(delivered) + Cardinality(p.events)
    <3>1. Cardinality(delivered \cap p.events) = 0
      BY <2>1, FS_EmptySet, Zenon
    <3>2. Cardinality(delivered \cup p.events)
             = Cardinality(delivered) + Cardinality(p.events)
                 - Cardinality(delivered \cap p.events)
      BY <2>2, FS_Union, Zenon
    <3> QED
      BY <3>1, <3>2, <2>2
  <2>4. count = Cardinality(delivered)
    BY <1>1, Zenon DEF Paging, NoneRepeated
  <2> QED
    BY <2>3, <2>4, <1>9, Zenon DEF NoneRepeated
<1>16. ASSUME cursor' # << >>
       PROVE  \E g \in delivered' :
                 /\ cursor' = <<encodeEventCursor(CursorOf(g))>>
                 /\ Reached(g)'
  <2>1. PICK c \in p.next : cursor' = <<encodeEventCursor(c)>>
    BY <1>10, <1>16, Zenon
  <2>2. PICK g \in p.events : /\ c = CursorOf(g)
                              /\ \A f \in p.events : f = g \/ Newer(f, g)
    BY <2>1, <1>8, Zenon
  <2>3. g \in E /\ g \in Event /\ Newer(e, g) /\ g.block \in snapshot
    BY <2>2, <1>7, <1>8, <1>12, Zenon
  <2>4. \A f \in delivered' : f = g \/ Newer(f, g)
    BY <2>2, <2>3, <1>2, <1>3, <1>9, NewerOrder, Zenon DEF Reached
  <2>5. ASSUME NEW f \in Event, f.address = address, f.block \in first,
               f = g \/ Newer(f, g)
        PROVE  f \in delivered'
    <3>1. CASE f = e \/ Newer(f, e)
      BY <3>1, <2>5, <1>2, <1>9, Zenon DEF Reached
    <3>2. CASE BeforeCursor(f, {CursorOf(e)})
      <4>1. /\ f.block \in Block /\ Number[f.block] \in Nat
            /\ Number[g.block] <= Number[f.block]
            /\ Number[f.block] <= Number[e.block]
        <5>1. /\ f.block \in Block /\ Number[f.block] \in Nat
              /\ Number[g.block] \in Nat /\ Number[e.block] \in Nat
          BY <2>3, <1>3, EventType, Zenon
        <5>2. Newer(e, f) /\ (f = g \/ Newer(f, g))
          BY <3>2, <2>5, <1>11, Zenon
        <5> QED
          BY <5>1, <5>2 DEF Newer
      <4>2. PICK b \in snapshot : Number[b] = Number[f.block]
        BY <4>1, <2>3, <1>1, <1>5, NoGap DEF GoodTable
      <4>3. b \in ChainOf[e.block]
        BY <4>1, <4>2, <1>1, <1>5, BelowInChain, Zenon DEF GoodTable
      <4>4. b \in ChainOf[CanonicalTip(first)]
        BY <4>3, <1>3, <1>6, ChainTransitive, Zenon
      <4>5. f.block \in ChainOf[CanonicalTip(first)]
        BY <2>5, <1>1, <1>2, AboveOrBelow, Zenon
      <4>6. f.block \in snapshot
        BY <4>2, <4>4, <4>5, <1>6, ChainUnique, Zenon
      <4>7. f \in E
        BY <4>6, <3>2, <2>5, <1>7, Zenon
      <4> QED
        BY <4>7, <2>2, <2>5, <1>8, <1>9, Zenon
    <3> QED
      BY <3>1, <3>2, <2>5, <1>1, <1>2, AboveOrBelow, Zenon
  <2>6. Reached(g)'
    BY <2>4, <2>5, <1>1, Zenon DEF Reached
  <2> QED
    BY <2>1, <2>2, <2>6, <1>9, Zenon
<1>17. Paging'
  <2>1. OneBranch'
    BY <1>1, <1>8, <1>9, <1>13, Zenon DEF OneBranch, Paging
  <2>2. \A f \in delivered' : Number[f.block] <= MaxInt64
    BY <1>1, <1>7, <1>8, <1>9, Zenon DEF Paging, GoodTable
  <2>3. first' # {} /\ GoodTable(first')
    BY <1>1, <1>2, Zenon DEF Paging
  <2> QED
    BY <2>1, <2>2, <2>3, <1>14, <1>15, <1>16, Zenon DEF Paging
<1>18. Requesting'
  <2>1. NoneSkipped'
    <3> SUFFICES ASSUME p.next = {}, snapshot' = snapshot,
                        NEW f \in Event, f.block \in first, f.block \in snapshot,
                        f.address = address
                 PROVE  f \in delivered'
      BY <1>1, <1>10, Zenon DEF NoneSkipped, EventsIn
    <3>1. CASE f = e \/ Newer(f, e)
      BY <3>1, <1>2, <1>9, Zenon DEF Reached
    <3>2. CASE BeforeCursor(f, {CursorOf(e)})
      BY <3>2, <1>7, <1>8, <1>9, Zenon
    <3> QED
      BY <3>1, <3>2, <1>1, <1>2, AboveOrBelow, Zenon
  <2>2. StaleMeansGone' /\ TransactionWhole'
    BY <1>10, Zenon DEF StaleMeansGone, TransactionWhole
  <2>3. GoodTable(snapshot')
    BY <1>1, <1>10, EmptyGood, Zenon
  <2>4. /\ limit' \in Nat \ {0}
        /\ pc' # "page" /\ pc' # "events" /\ lookup' = {}
    BY <1>9
  <2> QED
    BY <2>1, <2>2, <2>3, <2>4, Zenon DEF Requesting
<1> QED
  BY <1>1, <1>17, <1>18, Zenon DEF IInv

LEMMA ReadTransactionInv ==
    ASSUME IInv, NEW t \in Transaction, readTransaction(t)
    PROVE  IInv'
<1>1. Paging' /\ GoodTable(blocks') /\ GoodTable(blocks)
  BY PagingFrame, Zenon DEF IInv, readTransaction, tables, pagination
<1>2. limit' \in Nat \ {0}
  BY Zenon DEF IInv, Requesting, readTransaction, pagination
<1>3. CASE status' = "not found" /\ snapshot' = {} /\ lookup' = {} /\ pc' = pc
  BY <1>1, <1>2, <1>3, AnsweredFrame, Zenon DEF IInv, readTransaction
<1>4. CASE /\ \E b \in {b \in blocks : t \in TransactionsOf[b]} :
                 lookup' = {[hash |-> t, block |-> b, events |-> {}]}
           /\ pc' = "events" /\ status' = "pending" /\ snapshot' = blocks
  <2>1. PICK b \in blocks : /\ t \in TransactionsOf[b]
                            /\ lookup' = {[hash |-> t, block |-> b, events |-> {}]}
    BY <1>4, Zenon
  <2>2. /\ lookup' \in SUBSET [hash : Transaction, block : Block,
                               events : SUBSET Event]
        /\ \A r \in lookup' : r.block = b /\ r.hash = t
    BY <2>1, <1>1, SMTT(30) DEF GoodTable
  <2>3. NoneSkipped' /\ StaleMeansGone' /\ TransactionWhole'
    BY <1>4, Zenon DEF NoneSkipped, StaleMeansGone, TransactionWhole
  <2>4. \A r \in lookup' : r.block \in snapshot' /\ r.hash \in TransactionsOf[r.block]
    BY <2>1, <2>2, <1>4, Zenon
  <2>5. GoodTable(snapshot') /\ pc' # "page"
    BY <1>1, <1>4, Zenon
  <2>6. Requesting'
    BY <2>2, <2>3, <2>4, <2>5, <1>2, Zenon DEF Requesting
  <2> QED
    BY <2>6, <1>1, Zenon DEF IInv
<1> QED
  BY <1>3, <1>4, Zenon DEF readTransaction

LEMMA ReadTransactionEventsInv ==
    ASSUME IInv, readTransactionEvents
    PROVE  IInv'
<1>1. Paging' /\ GoodTable(blocks') /\ GoodTable(snapshot)
  BY PagingFrame, Zenon DEF IInv, Requesting, readTransactionEvents, tables, pagination
<1>2. limit' \in Nat \ {0}
  BY Zenon DEF IInv, Requesting, readTransactionEvents, pagination
<1>3. /\ lookup \in SUBSET [hash : Transaction, block : Block,
                            events : SUBSET Event]
      /\ \A r \in lookup : /\ r.block \in snapshot
                           /\ r.hash \in TransactionsOf[r.block]
  BY Zenon DEF IInv, Requesting, readTransactionEvents
<1>4. ASSUME NEW r \in lookup
      PROVE  {e \in EventsIn(snapshot) : e.transaction = r.hash}
                = {e \in Event : e.transaction = r.hash /\ e.block = r.block}
  <2>1. ASSUME NEW e \in Event, e.block \in snapshot, e.transaction = r.hash
        PROVE  e.block = r.block
    <3>1. e.transaction \in TransactionsOf[e.block]
      BY QueriesAssumption, Zenon
    <3> QED
      BY <3>1, <2>1, <1>1, <1>3, OneInclusion, Zenon
  <2> QED
    BY <2>1, <1>3, Zenon DEF EventsIn
<1>5. \A r \in lookup' :
         /\ r \in [hash : Transaction, block : Block, events : SUBSET Event]
         /\ r.events = {e \in Event : e.transaction = r.hash /\ e.block = r.block}
  <2> SUFFICES ASSUME NEW q \in lookup'
               PROVE  /\ q \in [hash : Transaction, block : Block,
                                events : SUBSET Event]
                      /\ q.events = {e \in Event : /\ e.transaction = q.hash
                                                   /\ e.block = q.block}
    OBVIOUS
  <2>1. PICK r \in lookup :
            q = [r EXCEPT !.events =
                    {e \in EventsIn(snapshot) : e.transaction = r.hash}]
    BY Zenon DEF readTransactionEvents
  <2>2. q = [r EXCEPT !.events =
                {e \in Event : e.transaction = r.hash /\ e.block = r.block}]
    BY <2>1, <1>4, Zenon
  <2>3. r \in [hash : Transaction, block : Block, events : SUBSET Event]
    BY <1>3, Zenon
  <2> QED
    BY <2>2, <2>3, Zenon
<1>6. /\ pc' = "idle" /\ status' = "transaction" /\ snapshot' = {}
  BY Zenon DEF readTransactionEvents
<1>7. NoneSkipped' /\ StaleMeansGone'
  BY <1>6, Zenon DEF NoneSkipped, StaleMeansGone
<1>8. TransactionWhole'
  BY <1>5, Zenon DEF TransactionWhole
<1>9. Requesting'
  BY <1>2, <1>5, <1>6, <1>7, <1>8, EmptyGood, Zenon DEF Requesting
<1> QED
  BY <1>1, <1>9, Zenon DEF IInv

LEMMA NextInv == IInv /\ [Next]_vars => IInv'
<1> SUFFICES ASSUME IInv, [Next]_vars PROVE IInv'
  OBVIOUS
<1>1. ASSUME NEW n \in Limits, NEW values, badRequest(n, values)
      PROVE  IInv'
  <2>1. Paging' /\ GoodTable(blocks') /\ limit' \in Nat \ {0}
    BY <1>1, PagingFrame, Zenon DEF IInv, Requesting, badRequest, tables, pagination
  <2>2. Requesting'
    BY <1>1, <2>1, AnsweredFrame, Zenon DEF badRequest
  <2> QED
    BY <2>1, <2>2, Zenon DEF IInv
<1>2. CASE requestFails
  <2>1. Paging' /\ GoodTable(blocks') /\ limit' \in Nat \ {0}
    BY <1>2, PagingFrame DEF IInv, requestFails, tables
  <2>2. Requesting'
    BY <1>2, <2>1, AnsweredFrame, Zenon DEF requestFails
  <2> QED
    BY <2>1, <2>2, Zenon DEF IInv
<1>3. CASE UNCHANGED vars
  <2>1. Paging' /\ Requesting' /\ blocks' = blocks
    BY <1>3, PagingFrame, RequestingFrame, Zenon DEF IInv, vars, tables, pagination
  <2> QED
    BY <2>1, Zenon DEF IInv
<1> QED
  BY <1>1, <1>2, <1>3, ApplyUpdateInv, FirstPageInv, CheckCursorInv,
     NextPageInv, ReadTransactionInv, ReadTransactionEventsInv, Zenon DEF Next, Request

LEMMA Invariance == Spec => []IInv
  BY InitInv, NextInv, PTL DEF Spec

-----------------------------------------------------------------------------
\* The pages of one pagination stay on one branch: each stored table is one
\* chain, and the cursor's block, checked in the page's own snapshot, ties the
\* page to the chain of the pages before.
THEOREM PagesStayOnOneBranch == Spec => []OneBranch
<1>1. IInv => OneBranch
  BY Zenon DEF IInv, Paging
<1> QED
  BY <1>1, Invariance, PTL

\* The pages of an enumeration never deliver an event twice, whatever is
\* written between the requests.
THEOREM PagesRepeatNothing == Spec => []NoneRepeated
<1>1. IInv => NoneRepeated
  BY Zenon DEF IInv, Paging
<1> QED
  BY <1>1, Invariance, PTL

\* By the last page, nothing that was stored throughout has been skipped.
THEOREM PagesSkipNothing == Spec => []NoneSkipped
<1>1. IInv => NoneSkipped
  BY Zenon DEF IInv, Requesting
<1> QED
  BY <1>1, Invariance, PTL

\* A cursor is refused as stale only when its block has left the store.
THEOREM StaleCursorIsStale == Spec => []StaleMeansGone
<1>1. IInv => StaleMeansGone
  BY Zenon DEF IInv, Requesting
<1> QED
  BY <1>1, Invariance, PTL

\* A transaction comes with exactly the events of its block.
THEOREM TransactionComesWhole == Spec => []TransactionWhole
<1>1. IInv => TransactionWhole
  BY Zenon DEF IInv, Requesting
<1> QED
  BY <1>1, Invariance, PTL

-----------------------------------------------------------------------------
(* The in-memory store *)

\* Memory's candidate is PostgreSQL's new table: a replacement block never
\* has the number of a block that is kept.
LEMMA CandidateIsUpdated ==
    ASSUME NEW rows \in SUBSET Block, NEW u \in Update, validateReplacement(u)
    PROVE  candidateBundles(rows, u) = UpdatedBlocks(rows, u)
<1>1. /\ u.blocks \in Seq(Block) /\ u.replaceFrom \in Nat /\ u.retainFrom \in Nat
  BY BlockTreeAssumption DEF Update
<1>2. ASSUME NEW c \in Range(u.blocks) PROVE u.replaceFrom <= Number[c]
  <2>1. PICK k \in 1..Len(u.blocks) : c = u.blocks[k]
    BY <1>1 DEF Range
  <2>2. Number[c] = u.replaceFrom + k - 1 /\ k \in Nat /\ k >= 1
    BY <2>1, <1>1, ReplacementNumbers
  <2> QED
    BY <2>2, <1>1
<1>3. ASSUME NEW b \in rows, ~ (Number[b] >= u.replaceFrom)
      PROVE  \A c \in Range(u.blocks) : Number[c] # Number[b]
  BY <1>1, <1>2, <1>3, Zenon
<1> QED
  BY <1>3, Zenon DEF candidateBundles, UpdatedBlocks, insertCanonicalBundles,
              deleteCanonicalRange

LEMMA GoodIsValid ==
    ASSUME NEW rows, GoodTable(rows)
    PROVE  memoryValid(rows)
<1>1. extendsPrevious(rows)
  <2> SUFFICES ASSUME NEW c \in rows, NEW b \in rows, Number[b] < Number[c]
               PROVE  \E q \in rows : Number[c] = Number[q] + 1 /\ Parent[c] = q
    BY Zenon DEF extendsPrevious
  <2>1. Parent[c] \in rows /\ c \in Block
    BY Zenon DEF GoodTable, OneChain
  <2>2. Parent[c] # NoBlock
    BY <2>1, BlockTreeAssumption, Zenon DEF GoodTable
  <2> QED
    BY <2>1, <2>2, BlockTreeAssumption, Zenon
<1>2. \A b, c \in rows : b # c => TransactionsOf[b] \cap TransactionsOf[c] = {}
  BY OneInclusion, Zenon
<1> QED
  BY <1>1, <1>2, Zenon DEF memoryValid

\* The chain ID Memory remembers is the one in the sync_state table.
SameStore ==
    /\ bundles = blocks
    /\ chainID # 0 => \E s \in syncState : s.chainID = chainID

LEMMA MemoryApplyInv ==
    ASSUME IInv, SameStore, NEW u \in Updates, applyUpdate(u), memoryApply(u)
    PROVE  SameStore'
<1>1. /\ u \in Update /\ Acceptable(blocks, syncState, u) /\ GoodTable(blocks)
      /\ bundles = blocks
  BY QueriesAssumption, Zenon DEF IInv, applyUpdate, SameStore
<1>2. u.chainID # 0 /\ u.retainFrom <= u.replaceFrom /\ validateReplacement(u)
  <2>1. /\ u.chainID \in 1..MaxInt64 /\ u.retainFrom <= u.replaceFrom
        /\ validateReplacement(u)
    BY <1>1, Zenon DEF Acceptable, validatePostgresUpdate
  <2>2. u.chainID # 0
    BY <2>1, IndexStoreAssumption
  <2> QED
    BY <2>1, <2>2, Zenon
<1>3. candidateBundles(bundles, u) = UpdatedBlocks(blocks, u)
  BY <1>1, <1>2, CandidateIsUpdated, Zenon DEF GoodTable
<1>4. memoryValid(candidateBundles(bundles, u))
  BY <1>1, <1>3, UpdateGood, GoodIsValid, Zenon
<1>5. chainID \in {0, u.chainID}
  BY <1>1, Zenon DEF SameStore, Acceptable, rejectDifferentChain
<1>6. memoryAccepts(u)
  BY <1>2, <1>4, <1>5, Zenon DEF memoryAccepts
<1>7. bundles' = blocks' /\ chainID' = u.chainID
  BY <1>3, <1>6, Zenon DEF memoryApply, applyUpdate
<1>8. [chainID |-> u.chainID, tip |-> CanonicalTip(UpdatedBlocks(blocks, u))]
         \in syncState'
  BY Zenon DEF applyUpdate, UpdatedSyncState, writeSyncState
<1> QED
  BY <1>7, <1>8, Zenon DEF SameStore

LEMMA MemoryInvariance == MemorySpec => [](IInv /\ SameStore)
<1>1. MemoryInit => IInv /\ SameStore
  BY InitInv, Zenon DEF MemoryInit, SameStore, Init
<1>2. IInv /\ SameStore /\ [MemoryNext]_<<vars, memoryVars>> => (IInv /\ SameStore)'
  <2> SUFFICES ASSUME IInv, SameStore, [MemoryNext]_<<vars, memoryVars>>
               PROVE  IInv' /\ SameStore'
    OBVIOUS
  <2>1. [Next]_vars
    BY Zenon DEF MemoryNext, Next
  <2>2. IInv'
    BY <2>1, NextInv, Zenon
  <2>3. CASE \E u \in Updates : applyUpdate(u) /\ memoryApply(u)
    BY <2>2, <2>3, MemoryApplyInv, Zenon
  <2>4. CASE Request /\ UNCHANGED memoryVars
    <3>1. UNCHANGED <<blocks, syncState>>
      BY <2>4, Zenon DEF Request, tables, badRequest, firstPage, checkCursor, nextPage,
                  readTransaction, readTransactionEvents, requestFails
    <3> QED
      BY <3>1, <2>2, <2>4, Zenon DEF SameStore, memoryVars
  <2>5. CASE UNCHANGED <<vars, memoryVars>>
    BY <2>2, <2>5, Zenon DEF SameStore, vars, tables, memoryVars
  <2> QED
    BY <2>3, <2>4, <2>5, Zenon DEF MemoryNext
<1> QED
  BY <1>1, <1>2, PTL DEF MemorySpec

\* Memory, given the updates PostgreSQL accepts, holds the same blocks and
\* answers the same pages, cursors and transactions.
THEOREM MemoryMatchesPostgres == MemorySpec => []MemoryAgrees
<1>1. ASSUME IInv, SameStore PROVE MemoryAgrees
  <2>1. ASSUME pc = "page", NEW c \in parseEventCursor(cursor)
        PROVE  /\ memoryCursorExists(snapshot, c)
               /\ memoryEventPage(snapshot, address, {c}, limit)
                    = queryAddressEventPage(snapshot, address, {c}, limit)
    <3>1. canonicalCursorExists(snapshot, c)
      BY <1>1, <2>1, Zenon DEF IInv, Requesting
    <3>2. snapshot \in SUBSET Block /\ OneChain(snapshot) /\ limit \in Nat \ {0}
      BY <1>1, Zenon DEF IInv, Requesting, GoodTable
    <3>3. memoryCursorExists(snapshot, c)
      BY <3>1, Zenon DEF canonicalCursorExists, memoryCursorExists
    <3> QED
      BY <3>2, <3>3, PageShape, Zenon
  <2>2. ASSUME NEW r \in lookup, pc = "events"
        PROVE  {b \in snapshot : r.hash \in TransactionsOf[b]} = {r.block}
    <3>1. /\ r.block \in snapshot /\ r.hash \in TransactionsOf[r.block]
          /\ GoodTable(snapshot)
      BY <1>1, <2>2, Zenon DEF IInv, Requesting
    <3> QED
      BY <3>1, OneInclusion
  <2> QED
    BY <1>1, <2>1, <2>2, Zenon DEF MemoryAgrees, SameStore
<1> QED
  BY <1>1, MemoryInvariance, PTL
=============================================================================
